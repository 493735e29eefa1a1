----------------------------- MODULE HeapProofs -----------------------------
(***************************************************************************)
(* Theorems about Heap for every size of the heap, of a header and of the  *)
(* requests: the free list stays a ring in the order of the addresses, the *)
(* blocks tile the heap, and the list implements an allocator.             *)
(***************************************************************************)
EXTENDS Heap, Integers, FiniteSetTheorems, TLAPS

-----------------------------------------------------------------------------
(* The inductive invariant.                                                *)
(*                                                                         *)
(* Tiling: the blocks, held and free, are given by their headers H.  None  *)
(* reaches into the next, and together they fill the heap.                 *)
(* Ring: from each header of the list the next one up, from the last to    *)
(* base.                                                                   *)

Tiling(H, sz, end) ==
  /\ \A a \in H : a >= 1 /\ sz[a] >= 1 /\ a + sz[a] <= end
  /\ \A a, b \in H : a < b => a + sz[a] <= b
  /\ \A x \in 1 .. end - 1 : \E a \in H : a <= x /\ x < a + sz[a]

ListOf(nx) == {a \in Addr : nx[a] # NULL}

Ring(nx) ==
  /\ Base \in ListOf(nx)
  /\ \A a \in ListOf(nx) :
       /\ nx[a] \in ListOf(nx)
       /\ \/ nx[a] > a /\ \A b \in ListOf(nx) : b > a => b >= nx[a]
          \/ nx[a] = Base /\ \A b \in ListOf(nx) : b <= a

HeldHeads == {b.at : b \in held}
Heads == HeldHeads \cup FreeBlocks

Typed ==
  /\ next \in [Addr -> Addr \cup {NULL}]
  /\ size \in [Addr -> 0 .. HEAP]
  /\ free_p \in Addr \cup {NULL}
  /\ brk \in 1 .. HEAP + 1
  /\ held \subseteq [at : Addr, len : 1 .. HEAP]
  /\ call \in {"none", "malloc", "free", "alloc_free"}
  /\ want \in Nat \ {0}
  /\ prev \in Addr /\ p \in Addr /\ bp \in Addr

(* Before the first call of malloc() there is neither list nor heap. *)
Begun == free_p = NULL => Listed = {} /\ held = {} /\ call = "none" /\ brk = 1

(* free() reads the size of a block in its header. *)
SizesKept == size[Base] = 0 /\ \A b \in held : size[b.at] = b.len

OneUse ==
  /\ HeldHeads \cap FreeBlocks = {}
  /\ Freeing => bp \notin Listed

Merged == \A a \in Listed : a # Base => a + size[a] \notin Listed

(* The headers that a search has passed when it comes from f to a. *)
Passed(f, a) == {b \in Listed : IF f < a THEN f < b /\ b < a ELSE f < b \/ b < a}

Searching ==
  /\ call # "none" => p \in Listed
  /\ free_p # NULL => free_p \in Listed
  /\ call = "malloc" => /\ prev \in Listed /\ next[prev] = p
                        /\ \A a \in Passed(free_p, p) : size[a] < BlockSize

IInv ==
  /\ Typed
  /\ Begun
  /\ SizesKept
  /\ OneUse
  /\ Merged
  /\ Searching
  /\ free_p # NULL => Ring(next)
  /\ Tiling(Heads, size, brk)
-----------------------------------------------------------------------------
(* Numbers.                                                                *)

LEMMA Addresses ==
  /\ HEAP \in Nat /\ Base = 0 /\ NULL \notin Addr
  /\ Base \in Addr
  /\ \A a \in Addr : a \in Nat /\ a >= Base /\ a <= HEAP
BY HeapAssumption DEF Base, NULL, Addr

(* Rounding up: block_size is the least number of headers, the block's own *)
(* among them, that has room for the request.                              *)
LEMMA BlockSizeIsLeast ==
  ASSUME want \in Nat \ {0}
  PROVE  /\ BlockSize \in Nat /\ BlockSize >= 2
         /\ (BlockSize - 1) * HEADER >= want
         /\ \A len \in Nat : (len - 1) * HEADER >= want => len >= BlockSize
<1> DEFINE q == (want - 1) \div HEADER
<1>1. HEADER \in Nat /\ HEADER > 1 /\ want - 1 \in Nat
  BY HeapAssumption
<1>2. q \in Nat /\ q * HEADER <= want - 1 /\ want - 1 < (q + 1) * HEADER
  BY <1>1
<1>3. BlockSize = q + 2
  BY DEF BlockSize
<1> HIDE DEF q
<1>4. ASSUME NEW len \in Nat, (len - 1) * HEADER >= want, len < q + 2
      PROVE  FALSE
  <2>1. len - 1 <= q /\ len - 1 \in Int
    BY <1>2, <1>4
  <2>2. (len - 1) * HEADER <= q * HEADER
    BY <1>1, <1>2, <2>1
  <2>3. QED
    BY <1>1, <1>2, <1>4, <2>1, <2>2
<1>5. QED
  BY <1>1, <1>2, <1>3, <1>4
-----------------------------------------------------------------------------
(* Tilings.                                                                *)

(* split_block()                                                           *)
SplitAt(H, sz, sz2, a, t) ==
  /\ sz2[t] \in Nat /\ sz2[t] >= 1 /\ sz2[t] < sz[a]
  /\ t = a + (sz[a] - sz2[t]) /\ sz2[a] = sz[a] - sz2[t]
  /\ \A b \in H : b # a => sz2[b] = sz[b]

LEMMA TilingSplit ==
  ASSUME NEW H \in SUBSET Nat, NEW end \in Nat, NEW sz, NEW sz2, Tiling(H, sz, end),
         \A a \in H : sz[a] \in Nat, NEW a \in H, NEW t, SplitAt(H, sz, sz2, a, t)
  PROVE  Tiling(H \cup {t}, sz2, end) /\ t \notin H
<1>1. /\ t \in Nat /\ a < t /\ t < a + sz[a] /\ t + sz2[t] = a + sz[a] /\ a + sz2[a] = t
      /\ sz2[a] = sz[a] - sz2[t]
      /\ sz2[t] \in Nat /\ sz2[t] >= 1 /\ \A b \in H : b # a => sz2[b] = sz[b]
  BY DEF SplitAt
<1>2. t \notin H
  BY <1>1 DEF Tiling
<1>3. \A b \in H \cup {t} : b >= 1 /\ sz2[b] >= 1 /\ b + sz2[b] <= end
  BY <1>1, <1>2 DEF Tiling
<1>4. \A b \in H : b < t => b <= a
  BY <1>1 DEF Tiling
<1>5. \A b, c \in H \cup {t} : b < c => b + sz2[b] <= c
  <2>1. TAKE b, c \in H \cup {t}
  <2>2. HAVE b < c
  <2>3. CASE b \in H /\ c \in H
    BY <1>1, <2>2, <2>3 DEF Tiling
  <2>4. CASE b = t /\ c \in H
    BY <1>1, <2>2, <2>4 DEF Tiling
  <2>5. CASE b \in H /\ c = t
    <3>1. b <= a
      BY <1>4, <2>2, <2>5
    <3>2. b = a \/ b + sz[b] <= a
      BY <2>5, <3>1 DEF Tiling
    <3>3. QED
      BY <1>1, <2>5, <3>2
  <2>6. QED
    BY <1>1, <2>2, <2>3, <2>4, <2>5
<1>6. ASSUME NEW x \in 1 .. end - 1
      PROVE  \E b \in H \cup {t} : b <= x /\ x < b + sz2[b]
  <2>1. PICK b \in H : b <= x /\ x < b + sz[b]
    BY DEF Tiling
  <2>2. CASE b # a
    BY <1>1, <2>1, <2>2
  <2>3. CASE b = a /\ x < t
    BY <1>1, <2>1, <2>3
  <2>4. CASE b = a /\ ~ (x < t)
    BY <1>1, <2>1, <2>4
  <2>5. QED
    BY <2>2, <2>3, <2>4
<1>7. QED
  BY <1>2, <1>3, <1>5, <1>6 DEF Tiling

(* sbrk()                                                                  *)
LEMMA TilingGrow ==
  ASSUME NEW H \in SUBSET Nat, NEW end \in Nat, end >= 1, NEW sz, NEW sz2,
         Tiling(H, sz, end), \A a \in H : sz[a] \in Nat,
         NEW n \in Nat, n >= 1, sz2[end] = n, \A b \in H : b # end => sz2[b] = sz[b]
  PROVE  Tiling(H \cup {end}, sz2, end + n) /\ end \notin H
<1>1. \A a \in H : a < end /\ sz2[a] = sz[a]
  BY DEF Tiling
<1>2. \A a \in H \cup {end} : a >= 1 /\ sz2[a] >= 1 /\ a + sz2[a] <= end + n
  BY <1>1 DEF Tiling
<1>3. \A a, b \in H \cup {end} : a < b => a + sz2[a] <= b
  BY <1>1 DEF Tiling
<1>4. ASSUME NEW x \in 1 .. end + n - 1
      PROVE  \E a \in H \cup {end} : a <= x /\ x < a + sz2[a]
  <2>1. CASE x >= end
    BY <2>1
  <2>2. CASE x < end
    <3>1. x \in 1 .. end - 1
      BY <2>2
    <3>2. PICK a \in H : a <= x /\ x < a + sz[a]
      BY <3>1 DEF Tiling
    <3>3. QED
      BY <1>1, <3>2
  <2>3. QED
    BY <2>1, <2>2
<1>5. QED
  BY <1>1, <1>2, <1>3, <1>4 DEF Tiling

(* Two neighbours become one block.                                        *)
LEMMA TilingMerge ==
  ASSUME NEW H \in SUBSET Nat, NEW end \in Nat, NEW sz, NEW sz2, Tiling(H, sz, end),
         \A a \in H : sz[a] \in Nat,
         NEW a \in H, NEW u \in H, u = a + sz[a],
         sz2[a] = sz[a] + sz[u], \A b \in H : b # a /\ b # u => sz2[b] = sz[b]
  PROVE  Tiling(H \ {u}, sz2, end)
<1>1. a < u /\ a + sz2[a] = u + sz[u]
  BY DEF Tiling
<1>2. \A b \in H \ {u} : b >= 1 /\ sz2[b] >= 1 /\ b + sz2[b] <= end
  BY <1>1 DEF Tiling
<1>3. \A b, c \in H \ {u} : b < c => b + sz2[b] <= c
  <2>1. TAKE b, c \in H \ {u}
  <2>2. HAVE b < c
  <2>3. CASE b # a
    BY <2>2, <2>3 DEF Tiling
  <2>4. CASE b = a
    <3>1. a + sz[a] <= c
      BY <2>2, <2>4 DEF Tiling
    <3>2. u < c
      BY <3>1
    <3>3. u + sz[u] <= c
      BY <3>2 DEF Tiling
    <3>4. QED
      BY <1>1, <2>4, <3>3
  <2>5. QED
    BY <2>3, <2>4
<1>4. ASSUME NEW x \in 1 .. end - 1
      PROVE  \E b \in H \ {u} : b <= x /\ x < b + sz2[b]
  <2>1. PICK b \in H : b <= x /\ x < b + sz[b]
    BY DEF Tiling
  <2>2. CASE b = u \/ b = a
    BY <1>1, <2>1, <2>2 DEF Tiling
  <2>3. CASE b # u /\ b # a
    BY <2>1, <2>3
  <2>4. QED
    BY <2>2, <2>3
<1>5. QED
  BY <1>2, <1>3, <1>4 DEF Tiling
-----------------------------------------------------------------------------
(* Rings.                                                                  *)

Links == [Addr -> Addr \cup {NULL}]

(* Where free() stops, the block belongs behind the header.                *)
LEMMA PlaceFound ==
  ASSUME NEW nx \in Links, Ring(nx), NEW a \in ListOf(nx), NEW x \in Addr, x \notin ListOf(nx),
         (a < x /\ x < nx[a]) \/ (nx[a] <= a /\ (a < x \/ x < nx[a]))
  PROVE  /\ a < x /\ nx[a] \in ListOf(nx)
         /\ \A b \in ListOf(nx) : b <= a \/ b > x
         /\ nx[a] > x \/ nx[a] = Base
<1>1. /\ nx[a] \in ListOf(nx)
      /\ \/ nx[a] > a /\ \A b \in ListOf(nx) : b > a => b >= nx[a]
         \/ nx[a] = Base /\ \A b \in ListOf(nx) : b <= a
  BY DEF Ring
<1>2. /\ a \in Nat /\ x \in Nat /\ nx[a] \in Nat /\ x >= Base /\ Base \in Nat
      /\ \A b \in ListOf(nx) : b \in Nat
  BY <1>1, Addresses DEF ListOf
<1>3. CASE nx[a] > a
  BY <1>1, <1>2, <1>3
<1>4. CASE nx[a] <= a
  <2>1. nx[a] = Base /\ \A b \in ListOf(nx) : b <= a
    BY <1>1, <1>2, <1>4
  <2>2. a < x
    BY <1>2, <1>4, <2>1
  <2>3. QED
    BY <1>1, <1>2, <2>1, <2>2
<1>5. QED
  BY <1>1, <1>2, <1>3, <1>4

LEMMA RingInsert ==
  ASSUME NEW nx \in Links, Ring(nx), NEW a \in ListOf(nx), NEW x \in Addr, x \notin ListOf(nx),
         a < x, \A b \in ListOf(nx) : b <= a \/ b > x,
         NEW nx2 \in Links,
         \A c \in Addr : nx2[c] = IF c = a THEN x ELSE IF c = x THEN nx[a] ELSE nx[c]
  PROVE  ListOf(nx2) = ListOf(nx) \cup {x} /\ Ring(nx2)
<1>1. ListOf(nx) \subseteq Addr
  BY DEF ListOf
<1>2. nx[a] \in ListOf(nx)
  BY DEF Ring
<1>3. ListOf(nx2) = ListOf(nx) \cup {x}
  BY <1>1, <1>2, Addresses DEF ListOf
<1>4. ASSUME NEW c \in ListOf(nx2)
      PROVE  /\ nx2[c] \in ListOf(nx2)
             /\ \/ nx2[c] > c /\ \A b \in ListOf(nx2) : b > c => b >= nx2[c]
                \/ nx2[c] = Base /\ \A b \in ListOf(nx2) : b <= c
  <2>1. /\ c \in Addr /\ \A b \in ListOf(nx) : b \in Nat /\ b <= HEAP
        /\ a \in Nat /\ x \in Nat /\ a # x
    BY <1>1, Addresses DEF ListOf
  <2>2. CASE c = a
    <3>1. nx2[c] = x
      BY <2>1, <2>2
    <3>2. \A b \in ListOf(nx2) : b > a => b >= x
      BY <1>3, <2>1
    <3>3. x \in ListOf(nx2) /\ x > a
      BY <1>3
    <3>4. QED
      BY <2>2, <3>1, <3>2, <3>3
  <2>3. CASE c = x
    <3>1. nx2[c] = nx[a]
      BY <2>1, <2>3
    <3>2. \/ nx[a] > a /\ \A b \in ListOf(nx) : b > a => b >= nx[a]
          \/ nx[a] = Base /\ \A b \in ListOf(nx) : b <= a
      BY DEF Ring
    <3>3. CASE nx[a] > a
      <4>1. nx[a] \in Nat /\ (nx[a] <= a \/ nx[a] > x)
        BY <1>2, <2>1
      <4>2. nx[a] > x
        BY <2>1, <3>3, <4>1
      <4>3. \A b \in ListOf(nx) : b > a => b >= nx[a]
        <5>1. CASE \A b \in ListOf(nx) : b > a => b >= nx[a]
          BY <5>1
        <5>2. CASE nx[a] = Base /\ \A b \in ListOf(nx) : b <= a
          BY <1>2, <2>1, <3>3, <5>2
        <5>3. QED
          BY <3>2, <5>1, <5>2
      <4>4. \A b \in ListOf(nx2) : b > x => b >= nx[a]
        BY <1>3, <2>1, <4>3
      <4>5. QED
        BY <1>2, <1>3, <2>3, <3>1, <4>2, <4>4
    <3>4. CASE nx[a] = Base /\ \A b \in ListOf(nx) : b <= a
      <4>1. \A b \in ListOf(nx2) : b <= x
        BY <1>3, <2>1, <3>4
      <4>2. QED
        BY <1>2, <1>3, <2>3, <3>1, <3>4, <4>1
    <3>5. QED
      BY <3>2, <3>3, <3>4
  <2>4. CASE c # a /\ c # x
    <3>1. c \in ListOf(nx) /\ nx2[c] = nx[c]
      BY <1>3, <2>1, <2>4
    <3>2. /\ nx[c] \in ListOf(nx)
          /\ \/ nx[c] > c /\ \A b \in ListOf(nx) : b > c => b >= nx[c]
             \/ nx[c] = Base /\ \A b \in ListOf(nx) : b <= c
      BY <3>1 DEF Ring
    <3>3. c < a \/ c > x
      BY <2>1, <2>4, <3>1, Addresses, <1>1
    <3>4. CASE c < a
      <4>1. nx[c] > c /\ nx[c] <= a /\ \A b \in ListOf(nx) : b > c => b >= nx[c]
        BY <2>1, <3>1, <3>2, <3>4
      <4>2. \A b \in ListOf(nx2) : b > c => b >= nx[c]
        <5>1. nx[c] \in Nat
          BY <2>1, <3>2
        <5>2. nx[c] <= a
          BY <4>1
        <5>3. x >= nx[c]
          BY <2>1, <5>1, <5>2
        <5>4. QED
          BY <1>3, <4>1, <5>3
      <4>3. QED
        BY <1>3, <3>1, <3>2, <4>1, <4>2
    <3>5. CASE c > x
      BY <1>1, <1>3, <2>1, <3>1, <3>2, <3>5, Addresses
    <3>6. QED
      BY <3>3, <3>4, <3>5
  <2>5. QED
    BY <2>2, <2>3, <2>4
<1>5. Base \in ListOf(nx2)
  BY <1>3 DEF Ring
<1>6. QED
  BY <1>3, <1>4, <1>5 DEF Ring

LEMMA RingRemove ==
  ASSUME NEW nx \in Links, Ring(nx), NEW a \in ListOf(nx), NEW u, u = nx[a], u # Base,
         NEW nx2 \in Links,
         \A c \in Addr : nx2[c] = IF c = u THEN NULL ELSE IF c = a THEN nx[u] ELSE nx[c]
  PROVE  /\ u \in ListOf(nx) /\ a < u /\ nx[u] # u
         /\ \A b \in ListOf(nx) : b > a => b >= u
         /\ ListOf(nx2) = ListOf(nx) \ {u} /\ Ring(nx2)
<1>1. /\ ListOf(nx) \subseteq Addr
      /\ \A b \in ListOf(nx) : b \in Nat /\ b >= Base /\ b <= HEAP
  BY Addresses DEF ListOf
<1>2. u \in ListOf(nx) /\ u > a /\ \A b \in ListOf(nx) : b > a => b >= u
  BY DEF Ring
<1>3. /\ nx[u] \in ListOf(nx)
      /\ \/ nx[u] > u /\ \A b \in ListOf(nx) : b > u => b >= nx[u]
         \/ nx[u] = Base /\ \A b \in ListOf(nx) : b <= u
  BY <1>2 DEF Ring
<1>4. u # a /\ nx[u] # u
  BY <1>1, <1>2, <1>3
<1>5. ListOf(nx2) = ListOf(nx) \ {u}
  BY <1>1, <1>2, <1>3, <1>4, Addresses DEF ListOf
<1>6. ASSUME NEW c \in ListOf(nx2)
      PROVE  /\ nx2[c] \in ListOf(nx2)
             /\ \/ nx2[c] > c /\ \A b \in ListOf(nx2) : b > c => b >= nx2[c]
                \/ nx2[c] = Base /\ \A b \in ListOf(nx2) : b <= c
  <2>1. c \in ListOf(nx) /\ c # u
    BY <1>5
  <2>2. CASE c = a
    <3>1. nx2[c] = nx[u]
      BY <1>1, <1>4, <2>1, <2>2
    <3>2. QED
      BY <1>1, <1>2, <1>3, <1>4, <1>5, <2>2, <3>1
  <2>3. CASE c # a
    <3>1. nx2[c] = nx[c]
      BY <1>1, <2>1, <2>3
    <3>2. /\ nx[c] \in ListOf(nx)
          /\ \/ nx[c] > c /\ \A b \in ListOf(nx) : b > c => b >= nx[c]
             \/ nx[c] = Base /\ \A b \in ListOf(nx) : b <= c
      BY <2>1 DEF Ring
    <3>3. nx[c] # u
      BY <1>1, <1>2, <2>1, <2>3, <3>2
    <3>4. QED
      BY <1>5, <3>1, <3>2, <3>3
  <2>4. QED
    BY <2>2, <2>3
<1>7. Base \in ListOf(nx2)
  BY <1>5 DEF Ring
<1>8. QED
  BY <1>2, <1>4, <1>5, <1>6, <1>7 DEF Ring
-----------------------------------------------------------------------------
(* What the invariant says, as the proofs of the steps use it.             *)

LEMMA Shape ==
  ASSUME IInv
  PROVE  /\ next \in Links /\ size \in [Addr -> 0 .. HEAP] /\ Listed = ListOf(next)
         /\ Listed \subseteq Addr /\ brk \in Nat /\ brk >= 1 /\ brk <= HEAP + 1
         /\ Heads \in SUBSET Nat /\ Heads \subseteq Addr /\ HeldHeads \subseteq Heads
         /\ \A a \in Heads : size[a] \in Nat
         /\ \A a \in Listed : a # Base => a \in Heads
         /\ Base \notin Heads
<1>1. /\ next \in Links /\ size \in [Addr -> 0 .. HEAP] /\ Listed = ListOf(next)
      /\ Listed \subseteq Addr /\ brk \in Nat /\ brk >= 1 /\ brk <= HEAP + 1
  BY HeapAssumption DEF IInv, Typed, Links, Listed, ListOf
<1>2. Heads \subseteq Addr /\ HeldHeads \subseteq Heads
  BY <1>1 DEF IInv, Typed, Heads, HeldHeads, FreeBlocks
<1>3. \A a \in Heads : a \in Nat /\ size[a] \in Nat
  BY <1>1, <1>2, Addresses
<1>4. \A a \in Listed : a # Base => a \in Heads
  BY DEF Heads, FreeBlocks
<1>5. Base \notin Heads
  BY Addresses DEF IInv, Tiling
<1>6. QED
  BY <1>1, <1>2, <1>3, <1>4, <1>5

(* Steps that move only the pointers of a search.                          *)
LEMMA PointersMove ==
  ASSUME IInv, UNCHANGED <<next, size, brk, held, free_p, want>>,
         prev' \in Addr, p' \in Addr, bp' \in Addr,
         call' \in {"none", "malloc", "free", "alloc_free"},
         UNCHANGED FreeBlocks, Freeing' => bp' \notin Listed,
         free_p = NULL => call' = "none",
         Searching'
  PROVE  IInv'
<1>1. Typed'
  BY DEF IInv, Typed
<1>2. Listed' = Listed /\ HeldHeads' = HeldHeads /\ Heads' = Heads
  BY DEF Listed, HeldHeads, Heads
<1>3. Begun'
  BY <1>2 DEF IInv, Begun
<1>4. SizesKept' /\ OneUse' /\ Merged'
  BY <1>2 DEF IInv, SizesKept, OneUse, Merged
<1>5. (free_p # NULL => Ring(next))'
  BY DEF IInv, Ring, ListOf
<1>6. Tiling(Heads, size, brk)'
  BY <1>2 DEF IInv, Tiling
<1>7. QED
  BY <1>1, <1>3, <1>4, <1>5, <1>6 DEF IInv

LEMMA RefuseIInv ==
  ASSUME IInv, Refuse
  PROVE  IInv'
<1>1. /\ UNCHANGED <<next, size, free_p, brk, held, want, prev, p, bp>> /\ call' = "none"
      /\ call = "malloc"
  BY DEF Refuse, NothingFits
<1>2. UNCHANGED FreeBlocks /\ ~ Freeing'
  BY <1>1 DEF FreeBlocks, Freeing, Listed
<1>3. Searching'
  BY <1>1 DEF IInv, Searching, Listed
<1>4. prev' \in Addr /\ p' \in Addr /\ bp' \in Addr
  BY <1>1 DEF IInv, Typed
<1>5. QED
  BY <1>1, <1>2, <1>3, <1>4, PointersMove

(* The block that was too small has been passed.                           *)
LEMMA TryNextIInv ==
  ASSUME IInv, TryNext
  PROVE  IInv'
<1>1. /\ UNCHANGED <<next, size, free_p, brk, held, call, want, bp>>
      /\ prev' = p /\ p' = next[p] /\ size[p] < BlockSize /\ p # free_p /\ call = "malloc"
  BY DEF TryNext
<1>2. UNCHANGED FreeBlocks /\ ~ Freeing' /\ Listed' = Listed /\ BlockSize' = BlockSize
  BY <1>1 DEF FreeBlocks, Freeing, Listed, BlockSize
<1>3. free_p # NULL
  BY <1>1 DEF IInv, Begun
<1>4. /\ p \in Listed /\ free_p \in Listed /\ prev \in Listed
      /\ \A a \in Passed(free_p, p) : size[a] < BlockSize
  BY <1>1, <1>3 DEF IInv, Searching
<1>5. /\ Listed = ListOf(next) /\ Ring(next)
      /\ \A a \in Listed : a \in Nat /\ a >= Base /\ a \in Addr
  BY <1>3, Shape, Addresses DEF IInv
<1>6. /\ next[p] \in Listed
      /\ \/ next[p] > p /\ \A b \in Listed : b > p => b >= next[p]
         \/ next[p] = Base /\ \A b \in Listed : b <= p
  BY <1>4, <1>5 DEF Ring
<1>7. Passed(free_p, next[p]) \subseteq Passed(free_p, p) \cup {p}
  <2>1. CASE free_p < p
    BY <1>1, <1>4, <1>5, <1>6, <2>1 DEF Passed
  <2>2. CASE p < free_p
    BY <1>1, <1>4, <1>5, <1>6, <2>2 DEF Passed
  <2>3. QED
    BY <1>1, <1>4, <1>5, <2>1, <2>2
<1>8. \A a \in Passed(free_p, next[p]) : size[a] < BlockSize
  BY <1>1, <1>4, <1>7
<1>9. Searching'
  BY <1>1, <1>2, <1>4, <1>6, <1>8 DEF Searching, Passed
<1>10. prev' \in Addr /\ p' \in Addr /\ bp' \in Addr
  BY <1>1, <1>4, <1>5, <1>6 DEF IInv, Typed
<1>11. QED
  BY <1>1, <1>2, <1>3, <1>9, <1>10, PointersMove DEF IInv, Typed

LEMMA WalkIInv ==
  ASSUME IInv, Walk
  PROVE  IInv'
<1>1. /\ UNCHANGED <<next, size, free_p, brk, held, call, want, prev, bp>>
      /\ p' = next[p] /\ Freeing
  BY DEF Walk
<1>2. UNCHANGED FreeBlocks /\ Freeing' /\ Listed' = Listed
  BY <1>1 DEF FreeBlocks, Freeing, Listed
<1>3. free_p # NULL /\ call # "malloc"
  BY <1>1 DEF IInv, Begun, Freeing
<1>4. p \in Listed /\ free_p \in Listed
  BY <1>1, <1>3 DEF IInv, Searching, Freeing
<1>5. Listed = ListOf(next) /\ Ring(next) /\ Listed \subseteq Addr
  BY <1>3, Shape DEF IInv
<1>6. next[p] \in Listed
  BY <1>4, <1>5 DEF Ring
<1>7. Searching'
  BY <1>1, <1>2, <1>3, <1>4, <1>6 DEF Searching
<1>8. prev' \in Addr /\ p' \in Addr /\ bp' \in Addr
  BY <1>1, <1>5, <1>6 DEF IInv, Typed
<1>9. bp' \notin Listed
  BY <1>1 DEF IInv, OneUse
<1>10. QED
  BY <1>1, <1>2, <1>3, <1>7, <1>8, <1>9, PointersMove DEF IInv, Typed
-----------------------------------------------------------------------------
(* Steps that change the list or the blocks.                               *)

LEMMA MallocIInv ==
  ASSUME IInv, NEW n \in Requests, Malloc(n)
  PROVE  IInv'
<1>1. /\ want' = n /\ call' = "malloc" /\ prev' = free_p' /\ p' = next'[free_p']
      /\ UNCHANGED <<size, brk, held, bp>> /\ ~ Freeing /\ ~ Freeing'
      /\ n \in Nat \ {0}
  BY HeapAssumption DEF Malloc, Freeing
<1>2. CASE free_p = NULL
  <2>1. /\ next' = [next EXCEPT ![Base] = Base] /\ free_p' = Base
        /\ Listed = {} /\ held = {} /\ brk = 1
    BY <1>2 DEF Malloc, IInv, Begun
  <2>2. /\ next' \in Links /\ next'[Base] = Base /\ p' = Base
        /\ \A a \in Addr : a # Base => next'[a] = NULL
    BY <1>1, <2>1, Addresses DEF IInv, Typed, Links, Listed
  <2>3. Listed' = {Base} /\ ListOf(next') = {Base}
    BY <2>2, Addresses DEF Listed, ListOf
  <2>4. Ring(next')
    BY <2>2, <2>3, Addresses DEF Ring
  <2>5. HeldHeads' = {} /\ FreeBlocks' = {} /\ Heads' = {}
    BY <1>1, <2>1, <2>3 DEF HeldHeads, FreeBlocks, Heads
  <2>6. Tiling({}, size, 1)
    BY DEF Tiling
  <2>7. Typed'
    BY <1>1, <2>1, <2>2, Addresses DEF IInv, Typed, Links
  <2>8. Begun' /\ SizesKept' /\ OneUse' /\ Merged'
    BY <1>1, <2>1, <2>3, <2>5, Addresses DEF IInv, Begun, SizesKept, OneUse, Merged
  <2>9. Searching'
    BY <1>1, <2>1, <2>2, <2>3, Addresses DEF Searching, Passed
  <2>10. Tiling(Heads, size, brk)'
    BY <1>1, <2>1, <2>5, <2>6
  <2>11. QED
    BY <2>4, <2>7, <2>8, <2>9, <2>10 DEF IInv
<1>3. CASE free_p # NULL
  <2>1. UNCHANGED <<next, free_p>>
    BY <1>3 DEF Malloc
  <2>2. /\ Listed' = Listed /\ UNCHANGED FreeBlocks /\ HeldHeads' = HeldHeads
        /\ Heads' = Heads
    BY <1>1, <2>1 DEF Listed, FreeBlocks, HeldHeads, Heads
  <2>3. /\ Ring(next) /\ Listed = ListOf(next) /\ free_p \in Listed
        /\ \A a \in Listed : a \in Nat /\ a >= Base /\ a \in Addr
    BY <1>3, Shape, Addresses DEF IInv, Searching
  <2>4. /\ next[free_p] \in Listed
        /\ \/ next[free_p] > free_p /\ \A b \in Listed : b > free_p => b >= next[free_p]
           \/ next[free_p] = Base /\ \A b \in Listed : b <= free_p
    BY <2>3 DEF Ring
  <2>5. Passed(free_p, next[free_p]) = {}
    BY <2>3, <2>4 DEF Passed
  <2>6. Searching'
    BY <1>1, <2>1, <2>2, <2>3, <2>4, <2>5 DEF Searching, Passed
  <2>7. Typed'
    BY <1>1, <2>1, <2>3, <2>4 DEF IInv, Typed
  <2>8. Begun' /\ SizesKept' /\ OneUse' /\ Merged'
    BY <1>1, <1>3, <2>1, <2>2 DEF IInv, Begun, SizesKept, OneUse, Merged
  <2>9. Ring(next)' /\ Tiling(Heads, size, brk)'
    BY <1>1, <2>1, <2>2, <2>3 DEF IInv, Ring, ListOf, Tiling
  <2>10. QED
    BY <2>6, <2>7, <2>8, <2>9 DEF IInv
<1>4. QED
  BY <1>2, <1>3

LEMMA FreeIInv ==
  ASSUME IInv, NEW b \in held, Free(b)
  PROVE  IInv'
<1>1. /\ held' = held \ {b} /\ bp' = b.at /\ p' = free_p /\ call' = "free"
      /\ UNCHANGED <<next, size, free_p, brk, want, prev>> /\ ~ Freeing /\ Freeing'
  BY DEF Free, Freeing
<1>2. free_p # NULL /\ b.at \in Addr
  BY DEF IInv, Begun, Typed
<1>3. free_p \in Listed /\ free_p \in Addr
  BY <1>2 DEF IInv, Searching, Typed
<1>4. b.at \in HeldHeads /\ b.at \notin FreeBlocks /\ b.at # Base
  BY Shape DEF HeldHeads, IInv, OneUse
<1>5. Listed' = Listed /\ b.at \notin Listed
  BY <1>1, <1>4 DEF Listed, FreeBlocks
<1>6. FreeBlocks' = FreeBlocks \cup {b.at}
  BY <1>1, <1>5 DEF FreeBlocks
<1>7. HeldHeads' = HeldHeads \ {b.at}
  <2>1. \A c \in held : c.at = b.at => c = b
    BY DEF IInv, Typed, SizesKept
  <2>2. QED
    BY <1>1, <2>1 DEF HeldHeads
<1>8. Heads' = Heads
  BY <1>4, <1>6, <1>7 DEF Heads
<1>9. Typed' /\ Begun'
  BY <1>1, <1>2, <1>3 DEF IInv, Typed, Begun
<1>10. SizesKept' /\ OneUse' /\ Merged'
  BY <1>1, <1>5, <1>6, <1>7 DEF IInv, SizesKept, OneUse, Merged
<1>11. Searching'
  BY <1>1, <1>3, <1>5 DEF Searching
<1>12. (free_p # NULL => Ring(next))' /\ Tiling(Heads, size, brk)'
  BY <1>1, <1>8 DEF IInv, Ring, ListOf, Tiling
<1>13. QED
  BY <1>9, <1>10, <1>11, <1>12 DEF IInv

LEMMA ExtendIInv ==
  ASSUME IInv, Extend
  PROVE  IInv'
<1>1. /\ brk' = brk + Asked /\ size' = [size EXCEPT ![brk] = Asked] /\ bp' = brk
      /\ p' = free_p /\ call' = "alloc_free" /\ UNCHANGED <<next, free_p, held, want, prev>>
      /\ brk + Asked <= HEAP + 1 /\ ~ Freeing /\ Freeing' /\ call = "malloc"
  BY DEF Extend, NothingFits, SbrkSucceeds, Freeing
<1>2. Asked \in Nat /\ Asked > 1
  BY HeapAssumption DEF Asked, IInv, Typed
<1>3. /\ brk \in Addr /\ Asked \in 0 .. HEAP /\ brk' \in 1 .. HEAP + 1
      /\ brk \in Nat /\ brk >= 1 /\ brk # Base
  <2>1. brk \in Nat /\ brk >= 1 /\ HEAP \in Nat /\ Base = 0
    BY Shape, Addresses
  <2>2. QED
    BY <1>1, <1>2, <2>1 DEF Addr
<1>4. free_p # NULL /\ free_p \in Listed /\ free_p \in Addr
  BY <1>1, Shape DEF IInv, Begun, Searching
<1>5. Tiling(Heads \cup {brk}, size', brk + Asked) /\ brk \notin Heads
  <2>1. size'[brk] = Asked /\ \A a \in Heads : a # brk => size'[a] = size[a]
    BY <1>1, <1>3, Shape
  <2>2. Tiling(Heads, size, brk)
    BY DEF IInv
  <2>3. QED
    BY <1>2, <1>3, <2>1, <2>2, Shape, TilingGrow
<1>6. Listed' = Listed /\ brk \notin Listed
  BY <1>1, <1>3, <1>5, Shape DEF Listed
<1>7. /\ FreeBlocks' = FreeBlocks \cup {brk} /\ HeldHeads' = HeldHeads
      /\ Heads' = Heads \cup {brk}
  BY <1>1, <1>6 DEF FreeBlocks, HeldHeads, Heads
<1>8. Typed' /\ Begun'
  BY <1>1, <1>3, <1>4 DEF IInv, Typed, Begun
<1>9. \A a \in Addr : a # brk => size'[a] = size[a]
  BY <1>1 DEF IInv, Typed
<1>10. SizesKept'
  <2>1. \A b \in held : b.at # brk /\ b.at \in Addr
    BY <1>5, Shape DEF HeldHeads, IInv, Typed
  <2>2. QED
    BY <1>1, <1>3, <1>9, <2>1, Addresses DEF IInv, SizesKept
<1>11. OneUse'
  BY <1>1, <1>5, <1>6, <1>7, Shape DEF IInv, OneUse
<1>12. Merged'
  BY <1>6, <1>9, Shape DEF IInv, Merged
<1>13. Searching'
  BY <1>1, <1>4, <1>6 DEF Searching
<1>14. (free_p # NULL => Ring(next))'
  BY <1>1 DEF IInv, Ring, ListOf
<1>15. Tiling(Heads, size, brk)'
  BY <1>1, <1>5, <1>7
<1>16. QED
  BY <1>8, <1>10, <1>11, <1>12, <1>13, <1>14, <1>15 DEF IInv

LEMMA HandedOut ==
  ASSUME NEW a, NEW len, held' = held \cup {[at |-> a, len |-> len]}
  PROVE  HeldHeads' = HeldHeads \cup {a}
<1> DEFINE r == [at |-> a, len |-> len]
<1>1. r.at = a /\ r \in held'
  OBVIOUS
<1> HIDE DEF r
<1>2. \A b \in held' : b \in held \/ b = r
  BY DEF r
<1>3. HeldHeads' \subseteq HeldHeads \cup {a}
  BY <1>1, <1>2 DEF HeldHeads
<1>4. a \in HeldHeads'
  BY <1>1 DEF HeldHeads
<1>5. HeldHeads \subseteq HeldHeads'
  BY DEF HeldHeads
<1>6. QED
  BY <1>3, <1>4, <1>5

(* A block that a search has found, and the header before it.              *)
LEMMA Fits ==
  ASSUME IInv, call = "malloc", size[p] >= BlockSize
  PROVE  /\ p \in Listed /\ prev \in Listed /\ next[prev] = p /\ p # Base
         /\ p \in Heads /\ p \notin HeldHeads /\ Ring(next) /\ ~ Freeing
         /\ prev \in Addr /\ p \in Addr /\ p \in Nat /\ size[p] \in 0 .. HEAP
         /\ BlockSize \in 1 .. HEAP /\ BlockSize >= 2
<1>1. /\ p \in Listed /\ prev \in Listed /\ next[prev] = p
      /\ prev \in Addr /\ p \in Addr /\ p \in Nat /\ size[p] \in 0 .. HEAP
  BY Addresses DEF IInv, Searching, Typed
<1>2. BlockSize \in Nat /\ BlockSize >= 2
  BY BlockSizeIsLeast DEF IInv, Typed
<1>3. p # Base
  BY <1>2 DEF IInv, SizesKept
<1>4. BlockSize \in 1 .. HEAP
  BY <1>1, <1>2, HeapAssumption
<1>5. free_p # NULL /\ ~ Freeing
  BY DEF IInv, Begun, Freeing
<1>6. Ring(next) /\ p \in FreeBlocks
  BY <1>1, <1>3, <1>5 DEF IInv, FreeBlocks
<1>7. QED
  BY <1>1, <1>2, <1>3, <1>4, <1>5, <1>6 DEF IInv, OneUse, Heads

LEMMA TakeWholeIInv ==
  ASSUME IInv, TakeWhole
  PROVE  IInv'
<1>1. /\ call = "malloc" /\ size[p] = BlockSize
      /\ next' = [next EXCEPT ![prev] = next[p], ![p] = NULL]
      /\ held' = held \cup {[at |-> p, len |-> BlockSize]} /\ free_p' = prev
      /\ call' = "none" /\ UNCHANGED <<size, brk, want, prev, p, bp>>
  BY DEF TakeWhole, Return
<1>2. size[p] >= BlockSize
  BY <1>1, BlockSizeIsLeast DEF IInv, Typed
<1>3. /\ p \in Listed /\ prev \in Listed /\ next[prev] = p /\ p # Base
      /\ p \in Heads /\ p \notin HeldHeads /\ Ring(next) /\ ~ Freeing /\ ~ Freeing'
      /\ prev \in Addr /\ p \in Addr /\ BlockSize \in 1 .. HEAP
  BY <1>1, <1>2, Fits DEF Freeing
<1>4. next[p] \in Listed /\ Listed \subseteq Addr /\ Listed = ListOf(next)
  BY <1>3, Shape DEF Ring
<1>5. /\ next' \in Links
      /\ \A c \in Addr : next'[c] = IF c = p THEN NULL ELSE IF c = prev THEN next[p] ELSE next[c]
  BY <1>1, <1>3, <1>4 DEF IInv, Typed, Links
<1>6. prev < p /\ ListOf(next') = Listed \ {p} /\ Ring(next')
  <2>1. next \in Links
    BY Shape
  <2>2. QED
    BY <1>3, <1>4, <1>5, <2>1, RingRemove
<1>7. Listed' = Listed \ {p} /\ prev \in Listed'
  <2>1. prev # p
    BY <1>3, <1>6, Addresses
  <2>2. QED
    BY <1>3, <1>6, <2>1 DEF Listed, ListOf
<1>8. /\ FreeBlocks' = FreeBlocks \ {p} /\ HeldHeads' = HeldHeads \cup {p}
      /\ Heads' = Heads
  <2>1. FreeBlocks' = FreeBlocks \ {p}
    BY <1>3, <1>7 DEF FreeBlocks
  <2>2. HeldHeads' = HeldHeads \cup {p}
    BY <1>1, HandedOut
  <2>3. QED
    BY <1>3, <2>1, <2>2 DEF Heads
<1>9. Typed'
  BY <1>1, <1>3, <1>5 DEF IInv, Typed, Links
<1>10. Begun' /\ Searching'
  BY <1>1, <1>3, <1>7, Addresses DEF Begun, Searching
<1>11. SizesKept' /\ OneUse'
  BY <1>1, <1>3, <1>8 DEF IInv, SizesKept, OneUse
<1>12. Merged'
  BY <1>1, <1>7 DEF IInv, Merged
<1>13. (free_p # NULL => Ring(next))'
  BY <1>6
<1>14. Tiling(Heads, size, brk)'
  BY <1>1, <1>8 DEF IInv, Tiling
<1>15. QED
  BY <1>9, <1>10, <1>11, <1>12, <1>13, <1>14 DEF IInv

LEMMA TakeTailIInv ==
  ASSUME IInv, TakeTail
  PROVE  IInv'
<1> DEFINE tail == p + (size[p] - BlockSize)
<1>1. /\ call = "malloc" /\ size[p] > BlockSize
      /\ size' = [size EXCEPT ![p] = size[p] - BlockSize, ![tail] = BlockSize]
      /\ held' = held \cup {[at |-> tail, len |-> BlockSize]} /\ free_p' = prev
      /\ call' = "none" /\ UNCHANGED <<next, brk, want, prev, p, bp>>
  BY DEF TakeTail, Return, Split
<1>2. size[p] >= BlockSize
  BY <1>1, BlockSizeIsLeast DEF IInv, Typed
<1>3. /\ p \in Listed /\ prev \in Listed /\ p # Base /\ p \in Heads /\ p \notin HeldHeads
      /\ Ring(next) /\ ~ Freeing /\ ~ Freeing' /\ prev \in Addr /\ p \in Addr /\ p \in Nat
      /\ BlockSize \in 1 .. HEAP /\ size[p] \in 0 .. HEAP
  BY <1>1, <1>2, Fits DEF Freeing
<1>4. /\ tail \in Addr /\ tail # p /\ tail # Base
      /\ size[p] - BlockSize \in 0 .. HEAP /\ size[p] - BlockSize >= 1
  <2>1. p + size[p] <= brk /\ brk \in Nat /\ brk <= HEAP + 1 /\ HEAP \in Nat /\ Base = 0
    BY <1>3, Shape, Addresses DEF IInv, Tiling
  <2>2. QED
    BY <1>1, <1>3, <2>1 DEF Addr
<1>5. /\ size' \in [Addr -> 0 .. HEAP]
      /\ size'[p] = size[p] - BlockSize /\ size'[tail] = BlockSize
      /\ \A a \in Addr : a # p /\ a # tail => size'[a] = size[a]
  <2>1. size \in [Addr -> 0 .. HEAP] /\ BlockSize \in 0 .. HEAP
    BY <1>3, Shape, HeapAssumption
  <2> HIDE DEF tail
  <2>2. QED
    BY <1>1, <1>3, <1>4, <2>1
<1>6. Tiling(Heads \cup {tail}, size', brk) /\ tail \notin Heads
  <2>1. Tiling(Heads, size, brk)
    BY DEF IInv
  <2>2. \A a \in Heads : a \in Addr
    BY Shape
  <2>3. BlockSize \in Nat /\ BlockSize >= 1 /\ BlockSize < size[p]
    BY <1>1, <1>3
  <2>4. /\ tail = p + (size[p] - BlockSize)
        /\ Heads \in SUBSET Nat /\ brk \in Nat /\ \A a \in Heads : size[a] \in Nat
    BY Shape
  <2>5. tail \notin Heads
    <3>1. SUFFICES ASSUME tail \in Heads PROVE FALSE
      OBVIOUS
    <3>2. p < tail /\ tail < p + size[p]
      BY <1>3, <1>4, <2>3
    <3>3. QED
      BY <1>3, <2>1, <2>4, <3>1, <3>2 DEF Tiling
  <2>6. \A b \in Heads : b # p => size'[b] = size[b]
    BY <1>5, <2>2, <2>5
  <2> HIDE DEF tail
  <2>7. SplitAt(Heads, size, size', p, tail)
    BY <1>3, <1>5, <2>3, <2>4, <2>6 DEF SplitAt
  <2>8. QED
    BY <1>3, <2>1, <2>4, <2>7, TilingSplit
<1> HIDE DEF tail
<1>7. Listed' = Listed /\ tail \notin Listed
  BY <1>1, <1>4, <1>6, Shape DEF Listed
<1>8. /\ UNCHANGED FreeBlocks /\ HeldHeads' = HeldHeads \cup {tail}
      /\ Heads' = Heads \cup {tail}
  <2>1. UNCHANGED FreeBlocks
    BY <1>1, <1>3, <1>7 DEF FreeBlocks
  <2>2. HeldHeads' = HeldHeads \cup {tail}
    BY <1>1, HandedOut
  <2>3. QED
    BY <2>1, <2>2 DEF Heads
<1>9. Typed'
  BY <1>1, <1>3, <1>4, <1>5 DEF IInv, Typed
<1>10. Begun' /\ Searching'
  BY <1>1, <1>3, <1>7, Addresses DEF Begun, Searching
<1>11. SizesKept'
  <2>1. \A b \in held : b.at # p /\ b.at # tail /\ b.at \in Addr
    BY <1>3, <1>6, Shape DEF HeldHeads, IInv, Typed
  <2>2. size'[Base] = 0
    BY <1>3, <1>4, <1>5, Addresses DEF IInv, SizesKept
  <2>3. \A b \in held : size'[b.at] = b.len
    BY <1>5, <2>1 DEF IInv, SizesKept
  <2>4. size'[[at |-> tail, len |-> BlockSize].at] = [at |-> tail, len |-> BlockSize].len
    BY <1>5
  <2>5. QED
    BY <1>1, <2>2, <2>3, <2>4 DEF SizesKept
<1>12. OneUse'
  BY <1>3, <1>6, <1>8 DEF IInv, OneUse, Heads
<1>13. Merged'
  <2>1. p + size'[p] = tail
    BY <1>3, <1>5 DEF tail
  <2>2. QED
    BY <1>5, <1>7, <2>1, Shape DEF IInv, Merged
<1>14. (free_p # NULL => Ring(next))'
  BY <1>1, <1>3 DEF Ring, ListOf
<1>15. Tiling(Heads, size, brk)'
  BY <1>1, <1>6, <1>8
<1>16. QED
  BY <1>9, <1>10, <1>11, <1>12, <1>13, <1>14, <1>15 DEF IInv
-----------------------------------------------------------------------------
(* Join: the block is merged with its upper neighbour or not, and then it  *)
(* is merged with the lower one or becomes a header of the list.           *)

(* The list nx, sizes sz and headers H between the two: the block is not   *)
(* yet in the list, and the link that it will get is UpperNext[bp].        *)
HalfJoined(nx, sz, H) ==
  /\ nx \in Links /\ Ring(nx) /\ p \in ListOf(nx) /\ bp \notin ListOf(nx)
  /\ \A a \in ListOf(nx) : a <= p \/ a > bp
  /\ UpperNext \in Links /\ UpperNext[bp] = nx[p]
  /\ \A a \in Addr : a # p /\ a # bp => UpperNext[a] = nx[a]
  /\ sz = UpperSize /\ sz \in [Addr -> 0 .. HEAP] /\ sz[Base] = 0 /\ sz[p] = size[p]
  /\ \A a \in HeldHeads : sz[a] = size[a]
  /\ H = HeldHeads \cup (ListOf(nx) \ {Base}) \cup {bp}
  /\ HeldHeads \cap (ListOf(nx) \ {Base}) = {}
  /\ Tiling(H, sz, brk)
  /\ \A a \in ListOf(nx) : a # Base => a + sz[a] \notin ListOf(nx)
  /\ bp + sz[bp] \notin ListOf(nx)

(* What is known where free() has found the place of the block.            *)
LEMMA Found ==
  ASSUME IInv, Freeing, Between
  PROVE  /\ p \in Listed /\ p \in Addr /\ bp \in Addr /\ bp \notin Listed /\ p < bp
         /\ bp \in Heads /\ bp \notin HeldHeads
         /\ Ring(next) /\ next[p] \in Listed /\ (next[p] > bp \/ next[p] = Base)
         /\ \A a \in Listed : a <= p \/ a > bp
         /\ Heads = HeldHeads \cup (Listed \ {Base}) \cup {bp}
<1>1. free_p # NULL /\ call # "none"
  BY DEF IInv, Begun, Freeing
<1>2. /\ Ring(next) /\ next \in Links /\ Listed = ListOf(next) /\ bp \in Addr /\ p \in Addr
      /\ p \in Listed /\ bp \notin Listed
  BY <1>1, Shape DEF IInv, Searching, OneUse, Typed
<1>3. /\ p < bp /\ next[p] \in Listed /\ \A a \in Listed : a <= p \/ a > bp
      /\ next[p] > bp \/ next[p] = Base
  BY <1>2, PlaceFound DEF Between
<1>4. FreeBlocks = (Listed \ {Base}) \cup {bp}
  BY DEF FreeBlocks
<1>5. QED
  BY <1>2, <1>3, <1>4 DEF Heads, IInv, OneUse

LEMMA JoinUpper ==
  ASSUME IInv, Freeing, Between
  PROVE  \E nx, sz, H : HalfJoined(nx, sz, H)
<1> DEFINE u == next[p]
<1>1. /\ p \in Listed /\ p \in Addr /\ bp \in Addr /\ bp \notin Listed /\ p < bp
      /\ bp \in Heads /\ bp \notin HeldHeads
      /\ Ring(next) /\ u \in Listed /\ (u > bp \/ u = Base)
      /\ \A a \in Listed : a <= p \/ a > bp
      /\ Heads = HeldHeads \cup (Listed \ {Base}) \cup {bp}
  BY Found
<1>2. /\ next \in Links /\ Listed = ListOf(next) /\ Listed \subseteq Addr
      /\ size \in [Addr -> 0 .. HEAP] /\ brk \in Nat /\ brk <= HEAP + 1 /\ Heads \in SUBSET Nat
      /\ \A a \in Heads : size[a] \in Nat
      /\ p \in Nat /\ bp \in Nat /\ u \in Nat /\ u \in Addr /\ Base = 0 /\ HEAP \in Nat
      /\ NULL \notin Addr
  BY <1>1, Shape, Addresses
<1>3. Tiling(Heads, size, brk) /\ size[Base] = 0
  BY DEF IInv, SizesKept
<1>4. size[bp] \in Nat /\ size[bp] >= 1
  BY <1>1, <1>2, <1>3 DEF Tiling
<1>5. CASE ~ MeetsUpper
  <2>1. UpperSize = size /\ UpperNext = [next EXCEPT ![bp] = u]
    BY <1>5 DEF UpperSize, UpperNext
  <2>2. bp + size[bp] # u
    BY <1>5 DEF MeetsUpper
  <2>3. bp + size[bp] \notin Listed
    <3>1. SUFFICES ASSUME bp + size[bp] \in Listed PROVE FALSE
      OBVIOUS
    <3>2. \/ u > p /\ \A b \in Listed : b > p => b >= u
          \/ u = Base /\ \A b \in Listed : b <= p
      BY <1>1, <1>2 DEF Ring
    <3>3. bp + size[bp] > p /\ bp + size[bp] > bp
      BY <1>1, <1>2, <1>4
    <3>4. u > p /\ bp + size[bp] >= u
      BY <1>2, <1>4, <3>1, <3>2, <3>3
    <3>5. u \in Heads /\ bp < u
      BY <1>1, <1>2, <3>4
    <3>6. bp + size[bp] <= u
      BY <1>1, <1>3, <3>5 DEF Tiling
    <3>7. QED
      BY <1>2, <1>4, <2>2, <3>4, <3>6
  <2>4. /\ UpperNext \in Links /\ UpperNext[bp] = u
        /\ \A a \in Addr : a # p /\ a # bp => UpperNext[a] = next[a]
    BY <1>1, <1>2, <2>1 DEF Links
  <2>5. \A a \in Listed : a # Base => a + size[a] \notin Listed
    BY DEF IInv, Merged
  <2>6. HeldHeads \cap (Listed \ {Base}) = {}
    BY DEF IInv, OneUse, FreeBlocks
  <2>7. HalfJoined(next, size, Heads)
    BY <1>1, <1>2, <1>3, <2>1, <2>3, <2>4, <2>5, <2>6 DEF HalfJoined
  <2>8. QED
    BY <2>7
<1>6. CASE MeetsUpper
  <2> DEFINE nx == [a \in Addr |-> IF a = u THEN NULL ELSE IF a = p THEN next[u] ELSE next[a]]
             sz == UpperSize
             H == Heads \ {u}
  <2>1. u = bp + size[bp]
    BY <1>6 DEF MeetsUpper
  <2>2. u # Base /\ u > bp /\ u \in Heads /\ u \notin HeldHeads
    BY <1>1, <1>2, <1>4, <2>1 DEF IInv, OneUse, FreeBlocks
  <2>3. size[u] \in Nat /\ u + size[u] <= brk
    BY <1>2, <1>3, <2>2 DEF Tiling
  <2>4. next[u] \in Listed
    BY <1>1, <1>2 DEF Ring
  <2>5. nx \in Links
    BY <1>2, <2>4 DEF Links
  <2>6. \A a \in Addr : nx[a] = IF a = u THEN NULL ELSE IF a = p THEN next[u] ELSE next[a]
    OBVIOUS
  <2> HIDE DEF nx
  <2>7. ListOf(nx) = Listed \ {u} /\ Ring(nx) /\ next[u] # u
    BY <1>1, <1>2, <2>2, <2>5, <2>6, RingRemove
  <2>8. p # u /\ p # bp /\ bp # u
    BY <1>1, <1>2, <2>2
  <2>9. UpperNext = [next EXCEPT ![bp] = next[u], ![u] = NULL]
    BY <1>6 DEF UpperNext
  <2>10. /\ UpperNext \in Links /\ UpperNext[bp] = next[u]
         /\ \A a \in Addr : a # p /\ a # bp => UpperNext[a] = nx[a]
    <3> HIDE DEF u
    <3>1. next[u] \in Addr
      BY <1>2, <2>4
    <3>2. QED
      BY <1>1, <1>2, <2>6, <2>8, <2>9, <3>1 DEF Links
  <2>11. nx[p] = next[u]
    BY <1>1, <2>6, <2>8
  <2>12. sz = [size EXCEPT ![bp] = size[bp] + size[u], ![u] = 0]
    BY <1>6 DEF UpperSize
  <2>13. size[bp] + size[u] \in 0 .. HEAP
    <3>1. bp >= 1
      BY <1>1, <1>3 DEF Tiling
    <3> HIDE DEF u
    <3>2. bp + size[bp] + size[u] <= brk
      BY <2>1, <2>3
    <3>3. QED
      BY <1>2, <1>4, <2>3, <3>1, <3>2
  <2>14. /\ sz \in [Addr -> 0 .. HEAP] /\ sz[bp] = size[bp] + size[u] /\ sz[u] = 0
         /\ \A a \in Addr : a # bp /\ a # u => sz[a] = size[a]
    <3> HIDE DEF u, sz
    <3>1. QED
      BY <1>1, <1>2, <2>8, <2>12, <2>13
  <2>15. Heads \subseteq Addr /\ HeldHeads \subseteq Heads
    BY Shape
  <2>16. Tiling(H, sz, brk)
    <3>1. \A b \in Heads : b # bp /\ b # u => sz[b] = size[b]
      BY <2>14, <2>15
    <3> HIDE DEF u, sz
    <3>2. QED
      BY <1>1, <1>2, <1>3, <2>1, <2>2, <2>14, <3>1, TilingMerge
  <2>17. H = HeldHeads \cup (ListOf(nx) \ {Base}) \cup {bp}
    BY <1>1, <2>2, <2>7, <2>8
  <2>18. \A a \in Listed : a # Base => a + size[a] \notin Listed
    BY DEF IInv, Merged
  <2>19. bp + sz[bp] = u + size[u]
    BY <1>2, <1>4, <2>1, <2>3, <2>14
  <2>20. bp + sz[bp] \notin ListOf(nx)
    BY <1>1, <2>2, <2>7, <2>18, <2>19
  <2>21. \A a \in ListOf(nx) : a # Base => a + sz[a] \notin ListOf(nx)
    BY <1>1, <1>2, <2>7, <2>14, <2>18
  <2>22. /\ sz[Base] = 0 /\ sz[p] = size[p] /\ \A a \in HeldHeads : sz[a] = size[a]
    BY <1>1, <1>2, <1>3, <2>2, <2>8, <2>14, <2>15, Addresses
  <2>23. p \in ListOf(nx) /\ bp \notin ListOf(nx) /\ \A a \in ListOf(nx) : a <= p \/ a > bp
    BY <1>1, <2>7, <2>8
  <2>24. sz = UpperSize /\ HeldHeads \cap (ListOf(nx) \ {Base}) = {}
    BY <2>7 DEF IInv, OneUse, FreeBlocks
  <2> HIDE DEF sz, H, u
  <2>25. HalfJoined(nx, sz, H)
    BY <2>5, <2>7, <2>10, <2>11, <2>14, <2>16, <2>17, <2>20, <2>21, <2>22, <2>23, <2>24
    DEF HalfJoined
  <2>26. QED
    BY <2>25
<1>7. QED
  BY <1>5, <1>6

(* What Join leaves, from what the list and the blocks have become.        *)
LEMMA JoinEnds ==
  ASSUME IInv, Join, next' \in Links, size' \in [Addr -> 0 .. HEAP],
         Ring(next'), p \in Listed', Listed' = ListOf(next'),
         size'[Base] = 0, \A a \in HeldHeads : size'[a] = size[a],
         Merged', HeldHeads \cap (Listed' \ {Base}) = {},
         Tiling(HeldHeads \cup (Listed' \ {Base}), size', brk)
  PROVE  IInv'
<1>1. /\ Freeing /\ free_p' = p /\ UNCHANGED <<brk, held, want, bp>>
      /\ IF call = "free"
           THEN call' = "none" /\ UNCHANGED <<prev, p>>
           ELSE call' = "malloc" /\ prev' = p /\ p' = next'[p]
  BY DEF Join
<1>2. /\ ~ Freeing' /\ HeldHeads' = HeldHeads /\ FreeBlocks' = Listed' \ {Base}
      /\ call' \in {"none", "malloc"}
  BY <1>1 DEF Freeing, HeldHeads, FreeBlocks
<1>3. /\ next'[p] \in Listed'
      /\ \/ next'[p] > p /\ \A b \in Listed' : b > p => b >= next'[p]
         \/ next'[p] = Base /\ \A b \in Listed' : b <= p
  BY DEF Ring
<1>4. \A a \in Listed' : a \in Addr /\ a \in Nat /\ a >= Base
  BY Addresses DEF ListOf
<1>5. free_p' # NULL /\ free_p' \in Addr
  BY <1>1, <1>4, Addresses
<1>6. Typed'
  BY <1>1, <1>2, <1>3, <1>4, <1>5 DEF IInv, Typed, Links
<1>7. Begun'
  BY <1>5 DEF Begun
<1>8. SizesKept'
  BY <1>1 DEF IInv, SizesKept, HeldHeads
<1>9. OneUse'
  BY <1>2 DEF OneUse
<1>10. Searching'
  <2>1. CASE call = "free"
    BY <1>1, <2>1 DEF Searching
  <2>2. CASE call # "free"
    <3>1. /\ prev' = p /\ p' = next'[p] /\ free_p' = p
      BY <1>1, <2>2
    <3>2. \A b \in Listed' : ~ (IF p < next'[p] THEN p < b /\ b < next'[p]
                                ELSE p < b \/ b < next'[p])
      BY <1>3, <1>4
    <3>3. Passed(free_p, p)' = {}
      BY <3>1, <3>2 DEF Passed
    <3>4. QED
      BY <1>1, <1>3, <3>1, <3>3 DEF Searching
  <2>3. QED
    BY <2>1, <2>2
<1>11. Tiling(Heads, size, brk)'
  BY <1>1, <1>2 DEF Heads
<1>12. QED
  BY <1>6, <1>7, <1>8, <1>9, <1>10, <1>11 DEF IInv

LEMMA JoinIInv ==
  ASSUME IInv, Join
  PROVE  IInv'
<1>1. Freeing /\ Between /\ UNCHANGED bp
  BY DEF Join
<1>2. PICK nx, sz, H : HalfJoined(nx, sz, H)
  BY <1>1, JoinUpper
<1>3. /\ p \in Listed /\ p \in Addr /\ bp \in Addr /\ p < bp /\ bp \in Heads
      /\ bp \notin HeldHeads
  BY <1>1, Found
<1>4. /\ size \in [Addr -> 0 .. HEAP] /\ p \in Nat /\ bp \in Nat /\ Base = 0 /\ HEAP \in Nat
      /\ NULL \notin Addr /\ Base \in Addr /\ HeldHeads \subseteq Addr /\ brk \in Nat
      /\ brk <= HEAP + 1 /\ Base \notin HeldHeads
  BY <1>3, Shape, Addresses
<1>5. /\ nx \in Links /\ Ring(nx) /\ p \in ListOf(nx) /\ bp \notin ListOf(nx)
      /\ \A a \in ListOf(nx) : a <= p \/ a > bp
      /\ UpperNext \in Links /\ UpperNext[bp] = nx[p]
      /\ \A a \in Addr : a # p /\ a # bp => UpperNext[a] = nx[a]
  BY <1>2 DEF HalfJoined
<1>6. /\ sz = UpperSize /\ sz \in [Addr -> 0 .. HEAP] /\ sz[Base] = 0 /\ sz[p] = size[p]
      /\ \A a \in HeldHeads : sz[a] = size[a]
      /\ H = HeldHeads \cup (ListOf(nx) \ {Base}) \cup {bp}
      /\ HeldHeads \cap (ListOf(nx) \ {Base}) = {}
      /\ Tiling(H, sz, brk)
      /\ \A a \in ListOf(nx) : a # Base => a + sz[a] \notin ListOf(nx)
      /\ bp + sz[bp] \notin ListOf(nx)
  BY <1>2 DEF HalfJoined
<1>7. /\ H \in SUBSET Nat /\ H \subseteq Addr /\ \A a \in H : sz[a] \in Nat
      /\ ListOf(nx) \subseteq Addr /\ nx[p] \in ListOf(nx) /\ p # bp
      /\ HeldHeads \cap (ListOf(nx) \ {Base}) = {}
  <2>1. ListOf(nx) \subseteq Addr /\ nx[p] \in ListOf(nx) /\ p # bp
    BY <1>3, <1>4, <1>5 DEF ListOf, Ring
  <2>2. H \subseteq Addr
    BY <1>3, <1>4, <1>6, <2>1
  <2>3. H \in SUBSET Nat /\ \A a \in H : sz[a] \in Nat
    <3>1. \A a \in H : a \in Nat
      BY <2>2, Addresses
    <3>2. \A a \in Addr : sz[a] \in Nat
      BY <1>4, <1>6
    <3>3. QED
      BY <2>2, <3>1, <3>2
  <2>4. QED
    BY <1>6, <2>1, <2>2, <2>3
<1>8. sz[bp] \in Nat /\ sz[bp] >= 1 /\ bp + sz[bp] <= brk
  BY <1>6, <1>7 DEF Tiling
<1>9. CASE MeetsLower
  <2>1. /\ size' = [sz EXCEPT ![p] = size[p] + sz[bp], ![bp] = 0]
        /\ next' = [UpperNext EXCEPT ![p] = UpperNext[bp], ![bp] = NULL]
        /\ p + size[p] = bp
    BY <1>6, <1>9 DEF Join, MeetsLower
  <2>2. p # Base /\ p >= 1 /\ p \in H
    BY <1>3, <1>4, <1>5, <1>6, <2>1
  <2>3. size[p] + sz[bp] \in 0 .. HEAP /\ size[p] \in Nat
    <3>1. size[p] \in Nat
      BY <1>3, <1>4
    <3>2. QED
      BY <1>4, <1>8, <2>1, <2>2, <3>1
  <2>4. next' \in Links /\ \A c \in Addr : next'[c] = nx[c]
    <3>1. nx[bp] = NULL
      BY <1>3, <1>5 DEF ListOf
    <3>2. next' \in Links
      BY <1>3, <1>5, <2>1 DEF Links
    <3>3. \A c \in Addr : next'[c] = nx[c]
      BY <1>3, <1>5, <1>7, <2>1, <3>1 DEF Links
    <3>4. QED
      BY <3>2, <3>3
  <2>5. Listed' = ListOf(nx) /\ ListOf(next') = ListOf(nx) /\ Ring(next')
    <3>1. Listed' = ListOf(nx) /\ ListOf(next') = ListOf(nx)
      BY <2>4 DEF Listed, ListOf
    <3>2. QED
      BY <1>5, <1>7, <2>4, <3>1 DEF Ring
  <2>6. /\ size' \in [Addr -> 0 .. HEAP] /\ size'[p] = size[p] + sz[bp]
        /\ \A a \in Addr : a # p /\ a # bp => size'[a] = sz[a]
    BY <1>3, <1>4, <1>6, <1>7, <2>1, <2>3
  <2>7. Tiling(H \ {bp}, size', brk)
    <3>1. \A b \in H : b # p /\ b # bp => size'[b] = sz[b]
      BY <1>7, <2>6
    <3>2. bp \in H /\ bp = p + sz[p] /\ size'[p] = sz[p] + sz[bp]
      BY <1>6, <2>1, <2>6
    <3>3. QED
      BY <1>4, <1>6, <1>7, <2>2, <3>1, <3>2, TilingMerge
  <2>8. HeldHeads \cup (Listed' \ {Base}) = H \ {bp}
    BY <1>3, <1>5, <1>6, <2>5
  <2>9. p \notin HeldHeads
    BY <1>5, <1>7, <2>2
  <2>10. /\ size'[Base] = 0 /\ \A a \in HeldHeads : size'[a] = size[a]
    BY <1>3, <1>4, <1>6, <2>2, <2>6, <2>9
  <2>11. Merged'
    <3>1. p + size'[p] = bp + sz[bp]
      BY <1>4, <1>8, <2>1, <2>3, <2>6
    <3>2. \A a \in ListOf(nx) : a # p => size'[a] = sz[a]
      BY <1>5, <1>7, <2>6
    <3>3. QED
      BY <1>6, <2>5, <3>1, <3>2 DEF Merged
  <2>12. QED
    BY <1>5, <1>7, <2>4, <2>5, <2>6, <2>7, <2>8, <2>10, <2>11, JoinEnds
<1>10. CASE ~ MeetsLower
  <2>1. size' = sz /\ next' = [UpperNext EXCEPT ![p] = bp] /\ p + size[p] # bp
    BY <1>6, <1>10 DEF Join, MeetsLower
  <2>2. /\ next' \in Links
        /\ \A c \in Addr : next'[c] = IF c = p THEN bp ELSE IF c = bp THEN nx[p] ELSE nx[c]
    BY <1>3, <1>5, <1>7, <2>1 DEF Links
  <2>3. ListOf(next') = ListOf(nx) \cup {bp} /\ Ring(next')
    BY <1>3, <1>5, <2>2, RingInsert
  <2>4. Listed' = ListOf(next')
    BY DEF Listed, ListOf
  <2>5. HeldHeads \cup (Listed' \ {Base}) = H
    BY <1>3, <1>4, <1>6, <2>3, <2>4
  <2>6. Merged'
    <3>1. SUFFICES ASSUME NEW a \in ListOf(nx) \cup {bp}, a # Base
                   PROVE  a + sz[a] \notin ListOf(nx) \cup {bp}
      BY <2>1, <2>3, <2>4 DEF Merged
    <3>2. a \in H /\ a \in Nat /\ sz[a] \in Nat /\ sz[a] >= 1 /\ bp \in H
      BY <1>6, <1>7, <3>1 DEF Tiling
    <3>3. CASE a = bp
      BY <1>4, <1>6, <1>8, <3>3
    <3>4. CASE a # bp
      <4>1. a \in ListOf(nx) /\ a + sz[a] \notin ListOf(nx)
        BY <1>6, <3>1, <3>4
      <4>2. CASE a > bp
        BY <1>4, <3>2, <4>1, <4>2
      <4>3. CASE a = p
        BY <1>6, <2>1, <4>1, <4>3
      <4>4. CASE a < p
        <5>1. p \in H
          BY <1>4, <1>5, <1>6, <3>2, <4>4
        <5>2. a + sz[a] <= p
          BY <1>6, <3>2, <4>4, <5>1 DEF Tiling
        <5>3. QED
          BY <1>3, <1>4, <3>2, <4>1, <5>2
      <4>5. QED
        BY <1>4, <1>5, <3>2, <4>1, <4>2, <4>3, <4>4
    <3>5. QED
      BY <3>3, <3>4
  <2>7. HeldHeads \cap (Listed' \ {Base}) = {}
    BY <1>3, <1>7, <2>3, <2>4
  <2>8. QED
    BY <1>5, <1>6, <2>1, <2>2, <2>3, <2>4, <2>5, <2>6, <2>7, JoinEnds
<1>11. QED
  BY <1>9, <1>10
-----------------------------------------------------------------------------
LEMMA InitIInv == Init => IInv
<1> SUFFICES ASSUME Init PROVE IInv
  OBVIOUS
<1>1. Listed = {} /\ held = {} /\ brk = 1 /\ HeldHeads = {} /\ ~ Freeing
  BY DEF Init, Listed, HeldHeads, Freeing
<1>2. FreeBlocks = {} /\ Heads = {}
  BY <1>1 DEF FreeBlocks, Heads
<1>3. Typed
  BY Addresses, HeapAssumption DEF Init, Typed
<1>4. Begun /\ SizesKept /\ OneUse /\ Merged /\ Searching
  BY <1>1, <1>2, Addresses DEF Init, Begun, SizesKept, OneUse, Merged, Searching
<1>5. Tiling(Heads, size, brk)
  BY <1>1, <1>2 DEF Tiling
<1>6. QED
  BY <1>3, <1>4, <1>5 DEF IInv, Init

LEMMA NextIInv ==
  ASSUME IInv, [Next]_vars
  PROVE  IInv'
<1>1. CASE UNCHANGED vars
  <2>1. /\ UNCHANGED <<next, size, brk, held, free_p, want>>
        /\ UNCHANGED <<call, prev, p, bp>>
    BY <1>1 DEF vars
  <2>2. UNCHANGED FreeBlocks /\ Freeing' = Freeing /\ Listed' = Listed
    BY <2>1 DEF FreeBlocks, Freeing, Listed
  <2>3. prev' \in Addr /\ p' \in Addr /\ bp' \in Addr
        /\ call' \in {"none", "malloc", "free", "alloc_free"}
    BY <2>1 DEF IInv, Typed
  <2>4. (Freeing' => bp' \notin Listed) /\ (free_p = NULL => call' = "none")
    BY <2>1, <2>2 DEF IInv, OneUse, Begun
  <2>5. Searching'
    BY <2>1, <2>2 DEF IInv, Searching, Passed, BlockSize
  <2>6. QED
    BY <2>1, <2>2, <2>3, <2>4, <2>5, PointersMove
<1>2. CASE Next
  BY <1>2, MallocIInv, FreeIInv, TakeWholeIInv, TakeTailIInv, TryNextIInv, ExtendIInv,
     RefuseIInv, WalkIInv, JoinIInv DEF Next, Step
<1>3. QED
  BY <1>1, <1>2

LEMMA InductiveInvariant == Spec => []IInv
<1>1. IInv /\ [Next]_vars => IInv'
  BY NextIInv
<1>2. QED
  BY <1>1, InitIInv, PTL DEF Spec
-----------------------------------------------------------------------------
LEMMA LeastIsMin ==
  ASSUME NEW S \in SUBSET Nat, NEW m \in S, \A x \in S : x >= m
  PROVE  Min(S) = m
<1>1. \A x \in S : x \in Nat /\ m <= x
  OBVIOUS
<1>2. Min(S) \in S /\ \A y \in S : Min(S) <= y
  BY <1>1 DEF Min
<1>3. Min(S) \in Nat /\ m \in Nat /\ Min(S) <= m /\ m <= Min(S)
  BY <1>1, <1>2
<1>4. QED
  BY <1>3

(* The free list is a ring in the order of the addresses and no two of its *)
(* blocks touch, whatever malloc() and free() were called with.            *)
THEOREM ListStaysInOrder == Spec => []ListInOrder
<1>1. IInv => ListInOrder
  <2> SUFFICES ASSUME IInv, free_p # NULL PROVE ListInOrder
    BY DEF ListInOrder
  <2>1. /\ Ring(next) /\ Listed = ListOf(next) /\ {Base, free_p} \subseteq Listed
        /\ \A a \in Listed : a \in Nat /\ a >= Base
    <3>1. free_p \in Listed /\ Ring(next)
      BY DEF IInv, Searching
    <3>2. QED
      BY <3>1, Shape, Addresses DEF Ring
  <2>2. ASSUME NEW a \in Listed
        PROVE  LET above == {b \in Listed : b > a} IN
               /\ next[a] = IF above = {} THEN Base ELSE Min(above)
               /\ a # Base => a + size[a] \notin Listed
    <3> DEFINE above == {b \in Listed : b > a}
    <3>1. /\ next[a] \in Listed
          /\ \/ next[a] > a /\ \A b \in Listed : b > a => b >= next[a]
             \/ next[a] = Base /\ \A b \in Listed : b <= a
      BY <2>1 DEF Ring
    <3>2. CASE next[a] > a /\ \A b \in Listed : b > a => b >= next[a]
      <4>1. next[a] \in above /\ \A b \in above : b >= next[a]
        BY <3>1, <3>2
      <4>2. above \in SUBSET Nat
        BY <2>1
      <4> HIDE DEF above
      <4>3. Min(above) = next[a] /\ above # {}
        BY <4>1, <4>2, LeastIsMin
      <4>4. QED
        BY <4>3 DEF above, IInv, Merged
    <3>3. CASE next[a] = Base /\ \A b \in Listed : b <= a
      <4>1. above = {}
        BY <2>1, <3>3
      <4>2. QED
        BY <3>3, <4>1 DEF IInv, Merged
    <3>4. QED
      BY <3>1, <3>2, <3>3
  <2>3. QED
    BY <2>1, <2>2 DEF ListInOrder
<1>2. QED
  BY <1>1, InductiveInvariant, PTL

(* The block that a header of the heap is in.                              *)
LEMMA OneBlock ==
  ASSUME NEW H \in SUBSET Nat, NEW end \in Nat, NEW sz, Tiling(H, sz, end),
         \A a \in H : sz[a] \in Nat, NEW x \in 1 .. end - 1
  PROVE  \E h \in H : /\ x \in Extent(h, sz[h])
                      /\ \A a \in H : x \in Extent(a, sz[a]) => a = h
<1>1. PICK h \in H : h <= x /\ x < h + sz[h]
  BY DEF Tiling
<1>2. \A a \in H : x \in Extent(a, sz[a]) <=> a <= x /\ x < a + sz[a]
  BY DEF Extent
<1>3. ASSUME NEW a \in H, a <= x, x < a + sz[a]
      PROVE  a = h
  BY <1>1, <1>3 DEF Tiling
<1>4. QED
  BY <1>1, <1>2, <1>3

(* Every header of the heap is in one block, held or free: no memory is    *)
(* handed out twice and none is lost.                                      *)
THEOREM NoMemoryIsSharedOrLost == Spec => []HeapIsTiled
<1>1. IInv => HeapIsTiled
  <2> SUFFICES ASSUME IInv, NEW x \in 1 .. brk - 1
               PROVE  Quantify(held, LAMBDA b : x \in Extent(b.at, b.len))
                        + Quantify(FreeBlocks, LAMBDA b : x \in Extent(b, size[b])) = 1
    BY DEF HeapIsTiled
  <2> DEFINE Of == {b \in held : x \in Extent(b.at, b.len)}
             In == {b \in FreeBlocks : x \in Extent(b, size[b])}
  <2>1. PICK h \in Heads : /\ x \in Extent(h, size[h])
                           /\ \A a \in Heads : x \in Extent(a, size[a]) => a = h
    <3>1. Tiling(Heads, size, brk) /\ Heads \in SUBSET Nat /\ brk \in Nat
          /\ \A a \in Heads : size[a] \in Nat
      BY Shape DEF IInv
    <3>2. QED
      BY <3>1, OneBlock
  <2>2. \A b \in held : b.at \in Heads /\ b.at \in HeldHeads /\ size[b.at] = b.len
    BY DEF Heads, HeldHeads, IInv, SizesKept
  <2>3. FreeBlocks \subseteq Heads /\ HeldHeads \cap FreeBlocks = {}
    BY DEF Heads, IInv, OneUse
  <2>4. \A b, c \in held : b.at = c.at => b = c
    BY <2>2 DEF IInv, Typed
  <2>5. Cardinality(Of) + Cardinality(In) = 1
    <3>1. CASE h \in HeldHeads
      <4>1. PICK b \in held : b.at = h
        BY <3>1 DEF HeldHeads
      <4>2. Of = {b}
        BY <2>1, <2>2, <2>4, <4>1
      <4>3. In = {}
        BY <2>1, <2>3, <3>1
      <4>4. Cardinality(Of) = 1 /\ Cardinality(In) = 0
        <5> HIDE DEF Of, In
        <5>1. QED
          BY <4>2, <4>3, FS_Singleton, FS_EmptySet
      <4>5. QED
        BY <4>4
    <3>2. CASE h \in FreeBlocks
      <4>1. Of = {}
        BY <2>1, <2>2, <2>3, <3>2
      <4>2. In = {h}
        BY <2>1, <2>3, <3>2
      <4>3. Cardinality(Of) = 0 /\ Cardinality(In) = 1
        <5> HIDE DEF Of, In
        <5>1. QED
          BY <4>1, <4>2, FS_Singleton, FS_EmptySet
      <4>4. QED
        BY <4>3
    <3>3. QED
      BY <3>1, <3>2 DEF Heads
  <2>6. QED
    BY <2>5 DEF Quantify
<1>2. QED
  BY <1>1, InductiveInvariant, PTL
-----------------------------------------------------------------------------
(* Steps of the list are steps of an allocator.                            *)

LEMMA SameMemory ==
  ASSUME UNCHANGED <<held, brk, want>>
  PROVE  [Abstract!Next]_(Abstract!vars)
BY DEF Abstract!vars

(* What is cut from the upper end of a free block touches nothing held.    *)
LEMMA HasRoom ==
  ASSUME IInv, p \in Heads, p \notin HeldHeads, NEW a \in Nat,
         p <= a, a + BlockSize = p + size[p], BlockSize \in Nat, BlockSize >= 1
  PROVE  Abstract!Room(a, BlockSize)
<1>1. Tiling(Heads, size, brk) /\ p \in Nat /\ size[p] \in Nat
  BY Shape DEF IInv
<1>2. a + BlockSize <= brk
  BY <1>1 DEF Tiling
<1>3. ASSUME NEW b \in held
      PROVE  a + BlockSize <= b.at \/ b.at + b.len <= a
  <2>1. b.at \in HeldHeads /\ size[b.at] = b.len
    BY DEF HeldHeads, IInv, SizesKept
  <2>2. b.at \in Heads /\ b.at \in Nat /\ b.len \in Nat /\ b.at # p
    BY <2>1, Shape
  <2>3. p + size[p] <= b.at \/ b.at + size[b.at] <= p
    BY <1>1, <2>2 DEF Tiling
  <2>4. QED
    BY <1>1, <2>1, <2>2, <2>3
<1>4. QED
  BY <1>2, <1>3 DEF Abstract!Room

LEMMA GivesRoom ==
  ASSUME IInv, p \in Heads, p \notin HeldHeads, NEW a \in Addr, a >= 1,
         p <= a, a + BlockSize = p + size[p], BlockSize \in 1 .. HEAP,
         held' = held \cup {[at |-> a, len |-> BlockSize]}, UNCHANGED <<brk, want>>
  PROVE  [Abstract!Next]_(Abstract!vars)
<1>1. a \in Nat /\ a \in 1 .. HEAP /\ BlockSize \in Nat /\ BlockSize >= 1
  BY HeapAssumption DEF Addr
<1>2. Abstract!Room(a, BlockSize)
  BY <1>1, HasRoom
<1>3. Abstract!Enough(BlockSize)
  BY BlockSizeIsLeast DEF IInv, Typed, Abstract!Enough
<1>4. Abstract!Give
  BY <1>1, <1>2, <1>3 DEF Abstract!Give
<1>5. QED
  BY <1>4 DEF Abstract!Next

LEMMA TakeWholeGives ==
  ASSUME IInv, TakeWhole
  PROVE  [Abstract!Next]_(Abstract!vars)
<1>1. /\ call = "malloc" /\ size[p] = BlockSize /\ UNCHANGED <<brk, want>>
      /\ held' = held \cup {[at |-> p, len |-> BlockSize]}
  BY DEF TakeWhole, Return
<1>2. size[p] >= BlockSize
  BY <1>1, BlockSizeIsLeast DEF IInv, Typed
<1>3. /\ p \in Heads /\ p \notin HeldHeads /\ p \in Addr /\ p \in Nat
      /\ BlockSize \in 1 .. HEAP /\ p >= 1
  BY <1>1, <1>2, Fits, Addresses
<1>4. p <= p /\ p + BlockSize = p + size[p]
  BY <1>1, <1>3
<1>5. QED
  BY <1>1, <1>3, <1>4, GivesRoom

LEMMA TakeTailGives ==
  ASSUME IInv, TakeTail
  PROVE  [Abstract!Next]_(Abstract!vars)
<1> DEFINE tail == p + (size[p] - BlockSize)
<1>1. /\ call = "malloc" /\ size[p] > BlockSize /\ UNCHANGED <<brk, want>>
      /\ held' = held \cup {[at |-> tail, len |-> BlockSize]}
  BY DEF TakeTail, Return
<1>2. size[p] >= BlockSize
  BY <1>1, BlockSizeIsLeast DEF IInv, Typed
<1>3. /\ p \in Heads /\ p \notin HeldHeads /\ p \in Nat /\ size[p] \in 0 .. HEAP
      /\ BlockSize \in 1 .. HEAP /\ p >= 1
  BY <1>1, <1>2, Fits, Addresses
<1>4. p + size[p] <= brk /\ brk \in Nat /\ brk <= HEAP + 1 /\ HEAP \in Nat
  BY <1>3, Shape, Addresses DEF IInv, Tiling
<1>5. tail \in Addr /\ tail >= 1 /\ p <= tail /\ tail + BlockSize = p + size[p]
  BY <1>1, <1>3, <1>4 DEF Addr
<1> HIDE DEF tail
<1>6. QED
  BY <1>1, <1>3, <1>5, GivesRoom

(* Where a search ends, it has been round the list.                        *)
LEMMA AllTooSmall ==
  ASSUME IInv, NothingFits
  PROVE  \A a \in Listed : size[a] < BlockSize
<1>1. call = "malloc" /\ size[p] < BlockSize /\ p = free_p /\ p \in Listed
  BY DEF NothingFits, IInv, Searching
<1>2. \A a \in Passed(free_p, p) : size[a] < BlockSize
  BY <1>1 DEF IInv, Searching
<1>3. \A a \in Listed : a \in Nat
  BY Shape, Addresses
<1>4. \A a \in Listed : a # p => a \in Passed(free_p, p)
  BY <1>1, <1>3 DEF Passed
<1>5. QED
  BY <1>1, <1>2, <1>4

(* Free blocks do not touch, so free memory that is long enough would be   *)
(* in one block, and the search would have found it.                       *)
LEMMA NoRoom ==
  ASSUME IInv, NothingFits, NEW at \in 1 .. HEAP, NEW len \in 1 .. HEAP,
         Abstract!Enough(len)
  PROVE  ~ Abstract!Room(at, len)
<1> SUFFICES ASSUME Abstract!Room(at, len) PROVE FALSE
  OBVIOUS
<1>1. /\ at \in Nat /\ len \in Nat /\ at >= 1 /\ at + len <= brk /\ BlockSize \in Nat
      /\ len >= BlockSize /\ len >= 1
  BY BlockSizeIsLeast, HeapAssumption DEF Abstract!Enough, Abstract!Room, IInv, Typed
<1>2. /\ Tiling(Heads, size, brk) /\ brk \in Nat
      /\ \A a \in Heads : a \in Nat /\ size[a] \in Nat /\ size[a] >= 1
  BY Shape DEF IInv, Tiling
<1>3. \A b \in held : at + len <= b.at \/ b.at + size[b.at] <= at
  BY DEF Abstract!Room, IInv, SizesKept
<1>4. \A a \in HeldHeads : at + len <= a \/ a + size[a] <= at
  BY <1>3 DEF HeldHeads
<1>5. \A a \in Heads : a \notin HeldHeads => a \in Listed /\ a # Base
  BY DEF Heads, FreeBlocks, Freeing, NothingFits
<1>6. PICK h \in Heads : h <= at /\ at < h + size[h]
  <2>1. at \in 1 .. brk - 1
    BY <1>1, <1>2
  <2>2. QED
    BY <1>2, <2>1 DEF Tiling
<1>7. h \in Listed /\ h # Base
  BY <1>1, <1>2, <1>4, <1>5, <1>6
<1> DEFINE e == h + size[h]
<1>8. e \in Nat /\ at < e /\ e < at + len
  BY <1>1, <1>2, <1>6, <1>7, AllTooSmall
<1>9. PICK g \in Heads : g <= e /\ e < g + size[g]
  <2>1. e \in 1 .. brk - 1
    BY <1>1, <1>2, <1>8
  <2> HIDE DEF e
  <2>2. QED
    BY <1>2, <2>1 DEF Tiling
<1>10. g = e
  <2>1. g # h
    BY <1>2, <1>9
  <2>2. h + size[h] <= g \/ g + size[g] <= h
    BY <1>2, <2>1 DEF Tiling
  <2>3. QED
    BY <1>2, <1>9, <2>2
<1>11. g \in Listed
  BY <1>1, <1>2, <1>4, <1>5, <1>8, <1>9, <1>10
<1>12. QED
  BY <1>7, <1>10, <1>11 DEF IInv, Merged

LEMMA ExtendGrows ==
  ASSUME IInv, Extend
  PROVE  [Abstract!Next]_(Abstract!vars)
<1>1. /\ NothingFits /\ brk' = brk + Asked /\ brk + Asked <= HEAP + 1
      /\ UNCHANGED <<held, want>>
  BY DEF Extend, SbrkSucceeds
<1>2. brk' \in brk + 1 .. HEAP + 1
  <2>1. Asked \in Nat /\ Asked > 1
    BY HeapAssumption DEF Asked, IInv, Typed
  <2>2. brk \in Nat /\ HEAP \in Nat
    BY Shape, Addresses
  <2>3. QED
    BY <1>1, <2>1, <2>2
<1>3. \A at, len \in 1 .. HEAP : Abstract!Enough(len) => ~ Abstract!Room(at, len)
  BY <1>1, NoRoom
<1>4. Abstract!Grow
  BY <1>1, <1>2, <1>3 DEF Abstract!Grow
<1>5. QED
  BY <1>4 DEF Abstract!Next

LEMMA StepIsAbstract ==
  ASSUME IInv, [Next]_vars
  PROVE  [Abstract!Next]_(Abstract!vars)
<1>1. CASE UNCHANGED vars
  BY <1>1, SameMemory DEF vars
<1>2. ASSUME NEW n \in Requests, Malloc(n)
      PROVE  [Abstract!Next]_(Abstract!vars)
  <2>1. Abstract!Ask(n)
    BY <1>2 DEF Malloc, Abstract!Ask
  <2>2. QED
    BY <2>1 DEF Abstract!Next
<1>3. ASSUME NEW b \in held, Free(b)
      PROVE  [Abstract!Next]_(Abstract!vars)
  <2>1. Abstract!TakeBack(b)
    BY <1>3 DEF Free, Abstract!TakeBack
  <2>2. QED
    BY <2>1 DEF Abstract!Next
<1>4. CASE TakeWhole
  BY <1>4, TakeWholeGives
<1>5. CASE TakeTail
  BY <1>5, TakeTailGives
<1>6. CASE TryNext
  BY <1>6, SameMemory DEF TryNext
<1>7. CASE Extend
  BY <1>7, ExtendGrows
<1>8. CASE Refuse
  BY <1>8, SameMemory DEF Refuse
<1>9. CASE Walk
  BY <1>9, SameMemory DEF Walk
<1>10. CASE Join
  BY <1>10, SameMemory DEF Join
<1>11. QED
  BY <1>1, <1>2, <1>3, <1>4, <1>5, <1>6, <1>7, <1>8, <1>9, <1>10 DEF Next, Step

(* malloc() and free() implement an allocator: what is given has room for  *)
(* what was asked and touches nothing that is held, and the heap grows     *)
(* only when no free memory is long enough.                                *)
THEOREM FreeListImplementsAllocator == Spec => ImplementsAllocator
<1>1. Init => Abstract!Init
  BY DEF Init, Abstract!Init
<1>2. IInv /\ [Next]_vars => [Abstract!Next]_(Abstract!vars)
  BY StepIsAbstract
<1>3. QED
  BY <1>1, <1>2, InductiveInvariant, PTL DEF Spec, ImplementsAllocator, Abstract!Spec
=============================================================================
