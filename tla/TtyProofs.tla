------------------------------ MODULE TtyProofs ------------------------------
(***************************************************************************)
(* Theorems about Tty for every size of the ring buffers, every character  *)
(* set, every read and every write.                                        *)
(***************************************************************************)
EXTENDS Tty, Integers, SequenceTheorems, WellFoundedInduction, TLAPS

-----------------------------------------------------------------------------
(* Induction over the turns of a loop: a set of natural numbers with a     *)
(* member has a least one.                                                 *)

LEMMA LeastOf ==
  ASSUME NEW S, S \subseteq Nat, S # {}
  PROVE  \E x \in S : \A y \in S : x <= y
<1>1. PICK x \in S : \A y \in S : ~ (<<y, x>> \in OpToRel(<, Nat))
  BY NatLessThanWellFounded, WFMin, Zenon
<1>2. \A y \in S : x <= y
  <2>1. TAKE y \in S
  <2>2. ~ (<<y, x>> \in OpToRel(<, Nat))
    BY <1>1
  <2>3. ~ (y < x)
    BY <2>2 DEF OpToRel
  <2>4. QED
    BY <2>3
<1>3. QED
  BY <1>2

(* A set of numbers up to n that has 0, and of each number the next, has n. *)
LEMMA UpTo ==
  ASSUME NEW n \in Nat, NEW S, 0 \in S, \A i \in 0 .. n - 1 : i \in S => i + 1 \in S
  PROVE  \A i \in 0 .. n : i \in S
<1> DEFINE T == {i \in 0 .. n : i \notin S}
<1>1. ASSUME T # {}
      PROVE  FALSE
  <2>1. PICK x \in T : \A y \in T : x <= y
    <3>1. T \subseteq Nat
      OBVIOUS
    <3> HIDE DEF T
    <3>2. QED
      BY <1>1, <3>1, LeastOf
  <2>2. x \in 0 .. n /\ x \notin S /\ x # 0
    BY <2>1
  <2>3. x - 1 \in 0 .. n /\ x - 1 \in 0 .. n - 1 /\ ~ (x <= x - 1) /\ (x - 1) + 1 = x
    BY <2>2
  <2>4. x - 1 \in S
    BY <2>1, <2>3
  <2>5. QED
    BY <2>2, <2>3, <2>4
<1>2. QED
  BY <1>1
-----------------------------------------------------------------------------
(* Indices in a ring of B slots, for a queue from h up to t.               *)

Distance(h, t, B) == IF t >= h THEN t - h ELSE t - h + B
Around(k, B) == IF k < B THEN k ELSE k - B

LEMMA Ring ==
  ASSUME NEW B \in Nat \ {0, 1}, NEW h \in 0 .. B - 1, NEW t \in 0 .. B - 1
  PROVE  /\ \A i \in 1 .. Distance(h, t, B) + 1 :
              Around(h + i - 1, B) \in 0 .. B - 1
         /\ \A i \in 1 .. Distance(h, t, B) :
              Around(h + (i + 1) - 1, B) = Around(Around(h + 1, B) + i - 1, B)
         /\ Distance(h, t, B) # B - 1 =>
              /\ Distance(h, Around(t + 1, B), B) = Distance(h, t, B) + 1
              /\ \A i \in 1 .. Distance(h, t, B) + 1 :
                   Around(h + i - 1, B) = t <=> i = Distance(h, t, B) + 1
         /\ Distance(h, t, B) = B - 1 => Distance(h, Around(t + 1, B), B) = 0
         /\ Distance(h, t, B) # 0 =>
              /\ Distance(h, IF t = 0 THEN B - 1 ELSE t - 1, B) = Distance(h, t, B) - 1
              /\ Distance(Around(h + 1, B), t, B) = Distance(h, t, B) - 1
<1>1. CASE t >= h
  BY <1>1 DEF Distance, Around
<1>2. CASE t < h
  BY <1>2 DEF Distance, Around
<1>3. QED
  BY <1>1, <1>2
-----------------------------------------------------------------------------
(* Arithmetic modulo BUF_SIZE and UINT.                                    *)

LEMMA Sizes ==
  /\ BUF_SIZE \in Nat \ {0, 1} /\ UINT \in Nat /\ UINT >= 2 * BUF_SIZE
  /\ \A r \in 0 .. BUF_SIZE - 1 : r % BUF_SIZE = r /\ (r + BUF_SIZE) % BUF_SIZE = r
  /\ \A r \in 0 .. UINT - 1 : r % UINT = r /\ (r + UINT) % UINT = r
  /\ (UINT - 1) % BUF_SIZE = BUF_SIZE - 1
<1>1. BUF_SIZE \in Nat \ {0, 1} /\ UINT \in Nat /\ UINT % BUF_SIZE = 0 /\ UINT > BUF_SIZE
  BY TtyAssumption
<1>2. UINT >= 2 * BUF_SIZE
  BY <1>1
<1>3. \A b \in Nat \ {0} : \A r \in 0 .. b - 1 : r % b = r /\ (r + b) % b = r
  OBVIOUS
<1>4. \A b \in Nat \ {0}, q \in Int : \A r \in 0 .. b - 1 : (b * q + r) % b = r
  OBVIOUS
<1>5. (UINT - 1) % BUF_SIZE = BUF_SIZE - 1
  <2>1. UINT = BUF_SIZE * (UINT \div BUF_SIZE) /\ UINT \div BUF_SIZE \in Int
    BY <1>1
  <2>2. PICK q \in Int : UINT = BUF_SIZE * q
    BY <2>1
  <2>3. UINT - 1 = BUF_SIZE * (q - 1) + (BUF_SIZE - 1)
    BY <1>1, <2>2
  <2>4. q - 1 \in Int /\ BUF_SIZE - 1 \in 0 .. BUF_SIZE - 1
    BY <1>1
  <2>5. QED
    BY <1>1, <1>4, <2>3, <2>4
<1>6. QED
  BY <1>1, <1>2, <1>3, <1>5

LEMMA NextIndex ==
  \A i \in Index : (i + 1) % BUF_SIZE = IF i = BUF_SIZE - 1 THEN 0 ELSE i + 1
<1>1. SUFFICES ASSUME NEW i \in Index
               PROVE  (i + 1) % BUF_SIZE = IF i = BUF_SIZE - 1 THEN 0 ELSE i + 1
  OBVIOUS
<1>2. CASE i = BUF_SIZE - 1
  <2>1. 0 \in 0 .. BUF_SIZE - 1 /\ i + 1 = 0 + BUF_SIZE
    BY <1>2, Sizes
  <2>2. QED
    BY <1>2, <2>1, Sizes
<1>3. CASE i # BUF_SIZE - 1
  <2>1. i + 1 \in 0 .. BUF_SIZE - 1
    BY <1>3, Sizes DEF Index
  <2>2. QED
    BY <1>3, <2>1, Sizes
<1>4. QED
  BY <1>2, <1>3

(* tail - 1 goes below zero as an unsigned int, a multiple of BUF_SIZE up. *)
LEMMA IndexBefore ==
  \A i \in Index :
    ((i + UINT - 1) % UINT) % BUF_SIZE = IF i = 0 THEN BUF_SIZE - 1 ELSE i - 1
<1>1. SUFFICES ASSUME NEW i \in Index
               PROVE  ((i + UINT - 1) % UINT) % BUF_SIZE = IF i = 0 THEN BUF_SIZE - 1 ELSE i - 1
  OBVIOUS
<1>2. CASE i = 0
  <2>1. i + UINT - 1 = UINT - 1 /\ UINT - 1 \in 0 .. UINT - 1
    BY <1>2, Sizes
  <2>2. QED
    BY <1>2, <2>1, Sizes
<1>3. CASE i # 0
  <2>1. i + UINT - 1 = (i - 1) + UINT /\ i - 1 \in 0 .. UINT - 1 /\ i - 1 \in 0 .. BUF_SIZE - 1
    BY <1>3, Sizes DEF Index
  <2>2. QED
    BY <1>3, <2>1, Sizes
<1>4. QED
  BY <1>2, <1>3

(* The k-th index behind i. *)
LEMMA IndexBehind ==
  \A i, k \in Index : (i + k) % BUF_SIZE = Around(i + k, BUF_SIZE)
<1>1. SUFFICES ASSUME NEW i \in Index, NEW k \in Index
               PROVE  (i + k) % BUF_SIZE = Around(i + k, BUF_SIZE)
  OBVIOUS
<1>2. CASE i + k < BUF_SIZE
  BY <1>2, Sizes DEF Index, Around
<1>3. CASE ~ (i + k < BUF_SIZE)
  <2>1. i + k - BUF_SIZE \in 0 .. BUF_SIZE - 1 /\ i + k = (i + k - BUF_SIZE) + BUF_SIZE
    BY <1>3, Sizes DEF Index
  <2>2. QED
    BY <1>3, <2>1, Sizes DEF Around
<1>4. QED
  BY <1>2, <1>3
-----------------------------------------------------------------------------
(* The queue in a ring.                                                    *)

LEMMA RingOfBuffers ==
  ASSUME NEW h \in Index, NEW t \in Index
  PROVE  /\ Around(h + 1, BUF_SIZE) \in Index
         /\ Around(h + 1, BUF_SIZE) = IF h = BUF_SIZE - 1 THEN 0 ELSE h + 1
         /\ Distance(h, t, BUF_SIZE) \in Index
         /\ Distance(h, t, BUF_SIZE) = 0 <=> h = t
         /\ Distance(h, t, BUF_SIZE) = BUF_SIZE - 1 /\ h # 0 <=> h = t + 1
         /\ \A i \in 1 .. Distance(h, t, BUF_SIZE) + 1 :
              Around(h + i - 1, BUF_SIZE) \in Index
         /\ \A i \in 1 .. Distance(h, t, BUF_SIZE) :
              Around(h + (i + 1) - 1, BUF_SIZE) = Around(Around(h + 1, BUF_SIZE) + i - 1, BUF_SIZE)
         /\ Distance(h, Around(t + 1, BUF_SIZE), BUF_SIZE) =
              IF Distance(h, t, BUF_SIZE) = BUF_SIZE - 1 THEN 0 ELSE Distance(h, t, BUF_SIZE) + 1
         /\ Distance(h, t, BUF_SIZE) # 0 =>
              /\ Distance(h, IF t = 0 THEN BUF_SIZE - 1 ELSE t - 1, BUF_SIZE)
                   = Distance(h, t, BUF_SIZE) - 1
              /\ Distance(Around(h + 1, BUF_SIZE), t, BUF_SIZE) = Distance(h, t, BUF_SIZE) - 1
<1>1. BUF_SIZE \in Nat \ {0, 1} /\ h \in 0 .. BUF_SIZE - 1 /\ t \in 0 .. BUF_SIZE - 1
  BY Sizes DEF Index
<1>2. /\ Around(h + 1, BUF_SIZE) = IF h = BUF_SIZE - 1 THEN 0 ELSE h + 1
      /\ Distance(h, t, BUF_SIZE) \in Index
      /\ Distance(h, t, BUF_SIZE) = 0 <=> h = t
      /\ Distance(h, t, BUF_SIZE) = BUF_SIZE - 1 /\ h # 0 <=> h = t + 1
      /\ Around(h + 1, BUF_SIZE) \in Index
  BY <1>1 DEF Index, Distance, Around
<1>3. QED
  BY <1>1, <1>2, Ring DEF Index

LEMMA RingEnd ==
  ASSUME NEW h \in Index, NEW t \in Index, NEW n, n = Distance(h, t, BUF_SIZE),
         n # BUF_SIZE - 1, NEW i \in 1 .. n + 1
  PROVE  Around(h + i - 1, BUF_SIZE) = t <=> i = n + 1
<1>1. BUF_SIZE \in Nat \ {0, 1} /\ h \in 0 .. BUF_SIZE - 1 /\ t \in 0 .. BUF_SIZE - 1
  BY Sizes DEF Index
<1>2. QED
  BY <1>1 DEF Distance, Around

Slot == Char \cup {Newline, NUL}

LEMMA QueueLength ==
  ASSUME NEW b \in Buffers
  PROVE  /\ b.head \in Index /\ b.tail \in Index
         /\ buf_queue_length(b) = Distance(b.head, b.tail, BUF_SIZE)
         /\ buf_queue_length(b) \in Index
         /\ EMPTY(b) <=> buf_queue_length(b) = 0
<1> DEFINE h == b.head
           t == b.tail
<1>1. h \in Index /\ t \in Index
  BY DEF Buffers
<1>2. buf_queue_length(b) = ((t + UINT - h + BUF_SIZE) % UINT) % BUF_SIZE
  BY DEF buf_queue_length
<1> HIDE DEF h, t
<1>3. CASE t >= h
  <2>1. /\ t + UINT - h + BUF_SIZE = (t - h + BUF_SIZE) + UINT
        /\ t - h + BUF_SIZE \in 0 .. UINT - 1 /\ t - h \in 0 .. BUF_SIZE - 1
    BY <1>1, <1>3, Sizes DEF Index
  <2>2. buf_queue_length(b) = t - h
    BY <1>2, <2>1, Sizes
  <2>3. QED
    BY <1>1, <1>3, <2>1, <2>2 DEF h, t, EMPTY, Index, Distance
<1>4. CASE ~ (t >= h)
  <2>1. /\ t + UINT - h + BUF_SIZE = (t - h + BUF_SIZE) + UINT
        /\ t - h + BUF_SIZE \in 0 .. UINT - 1 /\ t - h + BUF_SIZE \in 1 .. BUF_SIZE - 1
    BY <1>1, <1>4, Sizes DEF Index
  <2>2. buf_queue_length(b) = t - h + BUF_SIZE
    BY <1>2, <2>1, Sizes
  <2>3. QED
    BY <1>1, <1>4, <2>1, <2>2, Sizes DEF h, t, EMPTY, Index, Distance
<1>5. QED
  BY <1>3, <1>4

LEMMA ContentType ==
  ASSUME NEW b \in Buffers
  PROVE  /\ Content(b) \in Seq(Slot)
         /\ Len(Content(b)) = buf_queue_length(b)
         /\ \A i \in 1 .. buf_queue_length(b) :
              Content(b)[i] = b.buffer[Around(b.head + i - 1, BUF_SIZE)]
<1> DEFINE n == buf_queue_length(b)
<1>1. b.head \in Index /\ n \in Index /\ n \in Nat /\ b.buffer \in [Index -> Slot]
  BY QueueLength, Sizes DEF Buffers, Index, Slot
<1>2. Content(b) = [i \in 1 .. n |-> b.buffer[(b.head + i - 1) % BUF_SIZE]]
  BY DEF Content
<1> HIDE DEF n
<1>3. ASSUME NEW i \in 1 .. n
      PROVE  /\ (b.head + i - 1) % BUF_SIZE = Around(b.head + i - 1, BUF_SIZE)
             /\ (b.head + i - 1) % BUF_SIZE \in Index
  <2>1. i - 1 \in Index /\ b.head + i - 1 = b.head + (i - 1)
    BY <1>1, Sizes DEF Index
  <2>2. (b.head + (i - 1)) % BUF_SIZE = Around(b.head + (i - 1), BUF_SIZE)
    BY <1>1, <2>1, IndexBehind
  <2>3. (b.head + i - 1) % BUF_SIZE = Around(b.head + i - 1, BUF_SIZE)
    BY <2>1, <2>2
  <2>4. Around(b.head + i - 1, BUF_SIZE) \in Index
    <3>1. b.tail \in Index /\ i \in 1 .. Distance(b.head, b.tail, BUF_SIZE) + 1
      BY QueueLength, Sizes DEF n, Index
    <3>2. QED
      BY <1>1, <3>1, RingOfBuffers
  <2>5. QED
    BY <2>3, <2>4
<1>4. \A i \in 1 .. n : b.buffer[(b.head + i - 1) % BUF_SIZE] \in Slot
  BY <1>1, <1>3
<1>5. Content(b) \in Seq(Slot) /\ Len(Content(b)) = n
  BY <1>1, <1>2, <1>4
<1>6. QED
  BY <1>2, <1>3, <1>5 DEF n

(* The character in front is taken out. *)
LEMMA Dequeue ==
  ASSUME NEW b \in Buffers, Content(b) # <<>>
  PROVE  /\ buf_dequeue(b) \in Buffers
         /\ Dequeued(b) = Content(b)[1]
         /\ Content(buf_dequeue(b)) = SubSeq(Content(b), 2, Len(Content(b)))
<1> DEFINE d == buf_dequeue(b)
           n == buf_queue_length(b)
           m == buf_queue_length(d)
<1>1. /\ b.head \in Index /\ b.tail \in Index /\ n \in Index /\ n # 0 /\ ~ EMPTY(b)
      /\ Content(b) \in Seq(Slot) /\ Len(Content(b)) = n
      /\ n = Distance(b.head, b.tail, BUF_SIZE)
  BY QueueLength, ContentType, EmptySeq
<1>2. /\ d \in Buffers /\ d.buffer = b.buffer /\ d.tail = b.tail
      /\ d.head = Around(b.head + 1, BUF_SIZE) /\ d.head = (IF b.head = BUF_SIZE - 1 THEN 0 ELSE b.head + 1)
  <2>1. d = [b EXCEPT !.head = (b.head + 1) % BUF_SIZE]
    BY <1>1 DEF buf_dequeue
  <2>2. (b.head + 1) % BUF_SIZE = IF b.head = BUF_SIZE - 1 THEN 0 ELSE b.head + 1
    BY <1>1, NextIndex
  <2>3. (b.head + 1) % BUF_SIZE \in Index
    BY <1>1, <2>2, RingOfBuffers
  <2>4. /\ d \in Buffers /\ d.buffer = b.buffer /\ d.tail = b.tail
        /\ d.head = IF b.head = BUF_SIZE - 1 THEN 0 ELSE b.head + 1
    BY <2>1, <2>2, <2>3 DEF Buffers
  <2>5. (IF b.head = BUF_SIZE - 1 THEN 0 ELSE b.head + 1) = Around(b.head + 1, BUF_SIZE)
    BY <1>1, Sizes DEF Index, Around
  <2>6. QED
    BY <2>4, <2>5
<1>3. m = n - 1
  <2>1. m = Distance(d.head, d.tail, BUF_SIZE)
    BY <1>2, QueueLength
  <2>2. QED
    BY <1>1, <1>2, <2>1, RingOfBuffers
<1>4. Dequeued(b) = Content(b)[1]
  <2>1. 1 \in 1 .. n /\ b.head + 1 - 1 = b.head /\ b.head < BUF_SIZE
    BY <1>1, Sizes DEF Index
  <2>2. Content(b)[1] = b.buffer[b.head]
    BY <2>1, ContentType DEF Around
  <2>3. QED
    BY <1>1, <2>2 DEF Dequeued
<1>5. /\ Content(d) \in Seq(Slot) /\ Len(Content(d)) = m
      /\ \A i \in 1 .. m :
              Content(d)[i] = b.buffer[Around(d.head + i - 1, BUF_SIZE)]
  BY <1>2, ContentType
<1> DEFINE s == SubSeq(Content(b), 2, n)
<1>6. /\ s \in Seq(Slot) /\ Len(s) = n - 1
      /\ \A i \in 1 .. n - 1 : s[i] = Content(b)[i + 1]
  <2>1. \A i \in 2 .. n : Content(b)[i] \in Slot
    BY <1>1, ElementOfSeq, Sizes DEF Index
  <2>2. n \in Int /\ 2 \in Int
    BY <1>1 DEF Index
  <2> HIDE DEF n
  <2>3. /\ s \in Seq(Slot) /\ Len(s) = (IF 2 <= n THEN n - 2 + 1 ELSE 0)
        /\ \A i \in 1 .. n - 2 + 1 : s[i] = Content(b)[2 + i - 1]
    BY <2>1, <2>2, SubSeqProperties
  <2>4. QED
    BY <1>1, <2>3, Sizes DEF Index
<1>7. ASSUME NEW i \in 1 .. n - 1
      PROVE  Content(d)[i] = s[i]
  <2>1. i + 1 \in 1 .. n /\ i \in 1 .. m
    BY <1>1, <1>3 DEF Index
  <2>2. Content(b)[i + 1] = b.buffer[Around(b.head + (i + 1) - 1, BUF_SIZE)]
    BY <2>1, ContentType
  <2>3. Around(b.head + (i + 1) - 1, BUF_SIZE) = Around(d.head + i - 1, BUF_SIZE)
    <3>1. i \in 1 .. Distance(b.head, b.tail, BUF_SIZE)
      BY <1>1, <2>1 DEF Index
    <3>2. Around(b.head + (i + 1) - 1, BUF_SIZE) = Around(Around(b.head + 1, BUF_SIZE) + i - 1, BUF_SIZE)
      BY <1>1, <3>1, RingOfBuffers
    <3>3. QED
      BY <1>2, <3>2
  <2>4. QED
    BY <1>5, <1>6, <2>1, <2>2, <2>3
<1> HIDE DEF s, d, n, m
<1>8. Content(d) = s
  BY <1>3, <1>5, <1>6, <1>7, SeqEqual
<1>9. QED
  BY <1>1, <1>2, <1>4, <1>8 DEF s, d

(* A character is added behind; of a full ring it is refused, but where    *)
(* the queue begins at index 0: there the whole queue is lost.             *)
LEMMA Enqueue ==
  ASSUME NEW b \in Buffers, NEW c \in Slot
  PROVE  /\ buf_enqueue(b, c) \in Buffers
         /\ buf_enqueue(b, c).head = b.head
         /\ Content(buf_enqueue(b, c)) =
              IF Len(Content(b)) < BUF_SIZE - 1 THEN Append(Content(b), c)
              ELSE IF b.head = 0 THEN <<>> ELSE Content(b)
         /\ FULL(b) <=> Len(Content(b)) = BUF_SIZE - 1 /\ b.head # 0
<1> DEFINE e == buf_enqueue(b, c)
           n == buf_queue_length(b)
           m == buf_queue_length(e)
<1>1. /\ b.head \in Index /\ b.tail \in Index /\ n \in Index
      /\ Content(b) \in Seq(Slot) /\ Len(Content(b)) = n
      /\ n = Distance(b.head, b.tail, BUF_SIZE)
  BY QueueLength, ContentType
<1>2. FULL(b) <=> n = BUF_SIZE - 1 /\ b.head # 0
  BY <1>1, Sizes DEF FULL, Index, Distance
<1>3. CASE FULL(b)
  BY <1>1, <1>2, <1>3, Sizes DEF buf_enqueue, Index
<1>4. CASE ~ FULL(b)
  <2>1. e = [b EXCEPT !.buffer[b.tail] = c, !.tail = (b.tail + 1) % BUF_SIZE]
    BY <1>4 DEF buf_enqueue, Put
  <2>2. /\ (b.tail + 1) % BUF_SIZE = Around(b.tail + 1, BUF_SIZE)
        /\ (b.tail + 1) % BUF_SIZE \in Index
    <3>1. 1 \in Index
      BY Sizes DEF Index
    <3>2. (b.tail + 1) % BUF_SIZE = Around(b.tail + 1, BUF_SIZE)
      BY <1>1, <3>1, IndexBehind
    <3>3. Around(b.tail + 1, BUF_SIZE) \in Index
      BY <1>1, Sizes DEF Index, Around
    <3>4. QED
      BY <3>2, <3>3
  <2>3. /\ e.head = b.head /\ e.tail = (b.tail + 1) % BUF_SIZE
        /\ e.buffer = [b.buffer EXCEPT ![b.tail] = c]
        /\ e = [head |-> e.head, tail |-> e.tail, buffer |-> e.buffer]
    BY <2>1 DEF Buffers
  <2>4. e.buffer \in [Index -> Slot]
        /\ \A i \in Index : e.buffer[i] = IF i = b.tail THEN c ELSE b.buffer[i]
    BY <2>3 DEF Buffers, Slot
  <2>5. e \in Buffers
    BY <1>1, <2>2, <2>3, <2>4 DEF Buffers, Slot
  <2>6. m = IF n = BUF_SIZE - 1 THEN 0 ELSE n + 1
    <3>1. m = Distance(e.head, e.tail, BUF_SIZE)
      BY <2>5, QueueLength
    <3>2. m = Distance(b.head, Around(b.tail + 1, BUF_SIZE), BUF_SIZE)
      BY <2>2, <2>3, <3>1
    <3>3. QED
      <4>1. Distance(b.head, Around(b.tail + 1, BUF_SIZE), BUF_SIZE)
              = IF Distance(b.head, b.tail, BUF_SIZE) = BUF_SIZE - 1 THEN 0
                ELSE Distance(b.head, b.tail, BUF_SIZE) + 1
        BY <1>1, RingOfBuffers
      <4>2. QED
        BY <1>1, <3>2, <4>1
  <2>7. /\ Content(e) \in Seq(Slot) /\ Len(Content(e)) = m
        /\ \A i \in 1 .. m :
             Content(e)[i] = e.buffer[Around(b.head + i - 1, BUF_SIZE)]
    BY <2>3, <2>5, ContentType
  <2>8. CASE n = BUF_SIZE - 1
    <3>1. Content(e) = <<>>
      BY <2>6, <2>7, <2>8, EmptySeq
    <3>2. QED
      BY <1>1, <1>2, <1>4, <2>3, <2>5, <2>8, <3>1
  <2>9. CASE n # BUF_SIZE - 1
    <3> DEFINE s == Append(Content(b), c)
    <3>1. /\ s \in Seq(Slot) /\ Len(s) = n + 1 /\ s[n + 1] = c
          /\ \A i \in 1 .. n : s[i] = Content(b)[i]
      BY <1>1, AppendProperties
    <3>2. ASSUME NEW i \in 1 .. n + 1
          PROVE  Content(e)[i] = s[i]
      <4> DEFINE k == Around(b.head + i - 1, BUF_SIZE)
      <4>1. k \in Index /\ (k = b.tail <=> i = n + 1)
        <5>1. i \in 1 .. Distance(b.head, b.tail, BUF_SIZE) + 1
          BY <1>1
        <5>3. k = b.tail <=> i = n + 1
          BY <1>1, <2>9, RingEnd
        <5>2. k \in Index
          BY <1>1, <5>1, RingOfBuffers
        <5>4. QED
          BY <5>2, <5>3
      <4>2. Content(e)[i] = e.buffer[k]
        BY <2>6, <2>7, <2>9
      <4>3. i \in 1 .. n => Content(b)[i] = b.buffer[k]
        BY ContentType
      <4> HIDE DEF k, s
      <4>4. CASE i = n + 1
        BY <2>4, <3>1, <4>1, <4>2, <4>4
      <4>5. CASE i # n + 1
        <5>1. i \in 1 .. n
          BY <1>1, <4>5 DEF Index
        <5>2. QED
          BY <2>4, <3>1, <4>1, <4>2, <4>3, <5>1
      <4>6. QED
        BY <4>4, <4>5
    <3> HIDE DEF s, e, n, m
    <3>3. Content(e) = s
      BY <2>6, <2>7, <2>9, <3>1, <3>2, SeqEqual
    <3>4. n < BUF_SIZE - 1
      BY <1>1, <2>9, Sizes DEF Index
    <3>5. QED
      BY <1>1, <1>2, <2>3, <2>5, <2>9, <3>3, <3>4 DEF s, e
  <2>10. QED
    BY <2>8, <2>9
<1>5. QED
  BY <1>3, <1>4

(* The character behind is taken back. *)
LEMMA Restore ==
  ASSUME NEW b \in Buffers
  PROVE  /\ buf_restore(b) \in Buffers
         /\ EMPTY(b) <=> Content(b) = <<>>
         /\ EMPTY(b) => buf_restore(b) = b
         /\ ~ EMPTY(b) =>
              Content(buf_restore(b)) = SubSeq(Content(b), 1, Len(Content(b)) - 1)
<1> DEFINE r == buf_restore(b)
           n == buf_queue_length(b)
           m == buf_queue_length(r)
<1>1. /\ b.head \in Index /\ b.tail \in Index /\ n \in Index /\ (EMPTY(b) <=> n = 0)
      /\ Content(b) \in Seq(Slot) /\ Len(Content(b)) = n
      /\ n = Distance(b.head, b.tail, BUF_SIZE)
  BY QueueLength, ContentType
<1>2. EMPTY(b) <=> Content(b) = <<>>
  BY <1>1, EmptySeq
<1>3. CASE EMPTY(b)
  BY <1>2, <1>3 DEF buf_restore
<1>4. CASE ~ EMPTY(b)
  <2>1. r = [b EXCEPT !.tail = ((b.tail + UINT - 1) % UINT) % BUF_SIZE]
    BY <1>4 DEF buf_restore
  <2>2. ((b.tail + UINT - 1) % UINT) % BUF_SIZE = IF b.tail = 0 THEN BUF_SIZE - 1 ELSE b.tail - 1
    BY <1>1, IndexBefore
  <2>3. ((b.tail + UINT - 1) % UINT) % BUF_SIZE \in Index
    BY <1>1, <2>2, Sizes DEF Index
  <2>4. /\ r \in Buffers /\ r.head = b.head /\ r.buffer = b.buffer
        /\ r.tail = IF b.tail = 0 THEN BUF_SIZE - 1 ELSE b.tail - 1
    BY <2>1, <2>2, <2>3 DEF Buffers
  <2>5. m = n - 1
    <3>1. m = Distance(r.head, r.tail, BUF_SIZE)
      BY <2>4, QueueLength
    <3>2. QED
      <4>1. Distance(b.head, b.tail, BUF_SIZE) # 0 =>
              Distance(b.head, IF b.tail = 0 THEN BUF_SIZE - 1 ELSE b.tail - 1, BUF_SIZE)
                = Distance(b.head, b.tail, BUF_SIZE) - 1
        BY <1>1, RingOfBuffers
      <4>2. QED
        BY <1>1, <1>4, <2>4, <3>1, <4>1
  <2>6. /\ Content(r) \in Seq(Slot) /\ Len(Content(r)) = m
        /\ \A i \in 1 .. m :
             Content(r)[i] = b.buffer[Around(b.head + i - 1, BUF_SIZE)]
    BY <2>4, ContentType
  <2> DEFINE s == SubSeq(Content(b), 1, n - 1)
  <2>7. /\ s \in Seq(Slot) /\ Len(s) = n - 1
        /\ \A i \in 1 .. n - 1 : s[i] = Content(b)[i]
    <3>1. \A i \in 1 .. n - 1 : Content(b)[i] \in Slot
      BY <1>1, ElementOfSeq DEF Index
    <3>2. n - 1 \in Nat
      BY <1>1, <1>4, Sizes DEF Index
    <3> HIDE DEF n
    <3>3. /\ s \in Seq(Slot) /\ Len(s) = (IF 1 <= n - 1 THEN n - 1 - 1 + 1 ELSE 0)
          /\ \A i \in 1 .. (n - 1) - 1 + 1 : s[i] = Content(b)[1 + i - 1]
      BY <3>1, <3>2, SubSeqProperties
    <3>4. QED
      BY <1>1, <3>2, <3>3 DEF Index
  <2>8. \A i \in 1 .. n - 1 : Content(b)[i] = b.buffer[Around(b.head + i - 1, BUF_SIZE)]
    BY <1>1, ContentType DEF Index
  <2> HIDE DEF s, r, n, m
  <2>9. Content(r) = s
    BY <2>5, <2>6, <2>7, <2>8, SeqEqual
  <2>10. QED
    BY <1>1, <1>2, <1>4, <2>4, <2>9 DEF s, r
<1>5. QED
  BY <1>3, <1>4
-----------------------------------------------------------------------------
(* The loops of move_queue(), do_read() and do_write().                    *)

(* The states that a loop of n turns passes through: turn i applies F[i].  *)
LEMMA Turns ==
  ASSUME NEW D, NEW x \in D, NEW n \in Nat, NEW F \in [1 .. n -> [D -> D]]
  PROVE  \E g \in [0 .. n -> D] : g[0] = x /\ \A i \in 1 .. n : g[i] = F[i][g[i - 1]]
<1> DEFINE Path(m, g) == g[0] = x /\ \A i \in 1 .. m : g[i] = F[i][g[i - 1]]
           S == {m \in 0 .. n : \E g \in [0 .. m -> D] : Path(m, g)}
<1>1. 0 \in S
  <2> DEFINE g == [i \in 0 .. 0 |-> x]
  <2>1. g \in [0 .. 0 -> D] /\ g[0] = x
    OBVIOUS
  <2>2. Path(0, g)
    BY <2>1
  <2> HIDE DEF g
  <2>3. \E k \in [0 .. 0 -> D] : Path(0, k)
    BY <2>1, <2>2
  <2>4. QED
    BY <2>3
<1>2. ASSUME NEW m \in 0 .. n - 1, m \in S
      PROVE  m + 1 \in S
  <2>1. PICK g \in [0 .. m -> D] : Path(m, g)
    BY <1>2
  <2> DEFINE h == [i \in 0 .. m + 1 |-> IF i = m + 1 THEN F[m + 1][g[m]] ELSE g[i]]
  <2>2. m + 1 \in 1 .. n /\ F[m + 1][g[m]] \in D
    OBVIOUS
  <2>3. h \in [0 .. m + 1 -> D]
    BY <2>2
  <2>4. \A i \in 0 .. m : h[i] = g[i]
    OBVIOUS
  <2>5. h[m + 1] = F[m + 1][g[m]] /\ h[m] = g[m]
    OBVIOUS
  <2> HIDE DEF h
  <2>6. \A i \in 1 .. m : h[i] = F[i][h[i - 1]]
    BY <2>1, <2>4
  <2>7. Path(m + 1, h)
    <3>1. \A i \in 1 .. m + 1 : i \in 1 .. m \/ (i = m + 1 /\ i - 1 = m)
      OBVIOUS
    <3>2. h[0] = x
      BY <2>1, <2>4
    <3>3. QED
      BY <2>5, <2>6, <3>1, <3>2
  <2>8. QED
    BY <2>2, <2>3, <2>7
<1> HIDE DEF S
<1>3. n \in S
  <2>1. \A i \in 0 .. n : i \in S
    BY <1>1, <1>2, UpTo
  <2>2. QED
    BY <2>1
<1>4. QED
  BY <1>3 DEF S

LEMMA DequeueType ==
  ASSUME NEW b \in Buffers
  PROVE  buf_dequeue(b) \in Buffers
<1>1. CASE EMPTY(b)
  BY <1>1 DEF buf_dequeue
<1>2. CASE ~ EMPTY(b)
  <2>1. Content(b) # <<>>
    BY <1>2, Restore
  <2>2. QED
    BY <2>1, Dequeue
<1>3. QED
  BY <1>1, <1>2

LEMMA TakeTurns ==
  ASSUME NEW b \in Buffers, NEW n \in Nat
  PROVE  \E g \in [0 .. n -> Buffers] :
           /\ g[0] = b
           /\ \A i \in 1 .. n : g[i] = buf_dequeue(g[i - 1])
           /\ Take(b, n) = [left |-> g[n], out |-> [i \in 1 .. n |-> Dequeued(g[i - 1])]]
<1> DEFINE Path(g) == g = [i \in 0 .. n |-> IF i = 0 THEN b ELSE buf_dequeue(g[i - 1])]
           after == CHOOSE g : Path(g)
<1>1. \E g : Path(g)
  <2> DEFINE F == [i \in 1 .. n |-> [d \in Buffers |-> buf_dequeue(d)]]
  <2>0. \A i \in 1 .. n : \A d \in Buffers : F[i][d] = buf_dequeue(d)
    OBVIOUS
  <2>1. F \in [1 .. n -> [Buffers -> Buffers]]
    BY DequeueType
  <2> HIDE DEF F
  <2>2. PICK g \in [0 .. n -> Buffers] :
          g[0] = b /\ \A i \in 1 .. n : g[i] = F[i][g[i - 1]]
    BY <2>1, Turns
  <2>3. \A i \in 1 .. n : g[i] = buf_dequeue(g[i - 1])
    <3>1. \A i \in 1 .. n : g[i - 1] \in Buffers
      OBVIOUS
    <3>2. QED
      BY <2>0, <2>2, <3>1
  <2>4. Path(g)
    BY <2>2, <2>3
  <2>5. QED
    BY <2>4
<1>2. Path(after)
  BY <1>1
<1>3. Take(b, n) = [left |-> after[n], out |-> [i \in 1 .. n |-> Dequeued(after[i - 1])]]
  BY DEF Take
<1> HIDE DEF after
<1>4. /\ after[0] = b
      /\ \A i \in 1 .. n : after[i] = buf_dequeue(after[i - 1])
  BY <1>2
<1>5. \A i \in 0 .. n : after[i] \in Buffers
  <2> DEFINE S == {i \in 0 .. n : after[i] \in Buffers}
  <2>1. 0 \in S
    BY <1>4
  <2>2. \A i \in 0 .. n - 1 : i \in S => i + 1 \in S
    BY <1>4, DequeueType
  <2> HIDE DEF S
  <2>3. \A i \in 0 .. n : i \in S
    BY <2>1, <2>2, UpTo
  <2>4. QED
    BY <2>3 DEF S
<1>6. after \in [0 .. n -> Buffers]
  BY <1>2, <1>5
<1>7. QED
  BY <1>3, <1>4, <1>6

LEMMA FillTurns ==
  ASSUME NEW b \in Buffers, NEW s \in Seq(Slot)
  PROVE  \E g \in [0 .. Len(s) -> Buffers] :
           /\ g[0] = b
           /\ \A i \in 1 .. Len(s) : g[i] = buf_enqueue(g[i - 1], s[i])
           /\ Filled(b, s) = g[Len(s)]
<1> DEFINE n == Len(s)
           Path(g) == g = [i \in 0 .. n |-> IF i = 0 THEN b ELSE buf_enqueue(g[i - 1], s[i])]
           after == CHOOSE g : Path(g)
<1>0. n \in Nat /\ \A i \in 1 .. n : s[i] \in Slot
  OBVIOUS
<1> HIDE DEF n
<1>1. \E g : Path(g)
  <2> DEFINE F == [i \in 1 .. n |-> [d \in Buffers |-> buf_enqueue(d, s[i])]]
  <2>0. \A i \in 1 .. n : \A d \in Buffers : F[i][d] = buf_enqueue(d, s[i])
    OBVIOUS
  <2>1. F \in [1 .. n -> [Buffers -> Buffers]]
    BY <1>0, Enqueue
  <2> HIDE DEF F
  <2>2. PICK g \in [0 .. n -> Buffers] :
          g[0] = b /\ \A i \in 1 .. n : g[i] = F[i][g[i - 1]]
    <3>1. n \in Nat
      BY <1>0
    <3>2. QED
      BY <2>1, <3>1, Turns
  <2>3. \A i \in 1 .. n : g[i] = buf_enqueue(g[i - 1], s[i])
    <3>1. \A i \in 1 .. n : g[i - 1] \in Buffers
      BY <1>0
    <3>2. QED
      BY <2>0, <2>2, <3>1
  <2>4. Path(g)
    BY <1>0, <2>2, <2>3
  <2>5. QED
    BY <2>4
<1>2. Path(after)
  BY <1>1
<1>3. Filled(b, s) = after[n]
  BY DEF Filled, n
<1> HIDE DEF after
<1>4. /\ after[0] = b
      /\ \A i \in 1 .. n : after[i] = buf_enqueue(after[i - 1], s[i])
  BY <1>0, <1>2
<1>5. \A i \in 0 .. n : after[i] \in Buffers
  <2> DEFINE S == {i \in 0 .. n : after[i] \in Buffers}
  <2>1. 0 \in S
    BY <1>0, <1>4
  <2>2. ASSUME NEW i \in 0 .. n - 1, i \in S
        PROVE  i + 1 \in S
    <3>1. i + 1 \in 0 .. n /\ i + 1 \in 1 .. n /\ (i + 1) - 1 = i
      BY <1>0
    <3>2. after[i] \in Buffers /\ s[i + 1] \in Slot /\ after[i + 1] = buf_enqueue(after[i], s[i + 1])
      BY <1>0, <1>4, <2>2, <3>1
    <3>3. after[i + 1] \in Buffers
      BY <3>2, Enqueue
    <3>4. QED
      BY <3>1, <3>3
  <2> HIDE DEF S
  <2>3. \A i \in 0 .. n : i \in S
    BY <1>0, <2>1, <2>2, UpTo
  <2>4. QED
    BY <2>3 DEF S
<1>6. after \in [0 .. n -> Buffers]
  BY <1>2, <1>5
<1>7. QED
  BY <1>3, <1>4, <1>6 DEF n
-----------------------------------------------------------------------------
(* Parts of a sequence, one character longer or shorter.                   *)

LEMMA Part ==
  ASSUME NEW D, NEW C \in Seq(D), NEW j \in 0 .. Len(C), NEW i \in 1 .. j + 1
  PROVE  /\ SubSeq(C, i, j) \in Seq(D)
         /\ Len(SubSeq(C, i, j)) = j - i + 1
         /\ \A k \in 1 .. j - i + 1 : SubSeq(C, i, j)[k] = C[i + k - 1]
<1>1. i \in Int /\ j \in Int /\ \A k \in i .. j : C[k] \in D
  BY ElementOfSeq
<1>2. /\ SubSeq(C, i, j) \in Seq(D)
      /\ Len(SubSeq(C, i, j)) = (IF i <= j THEN j - i + 1 ELSE 0)
      /\ \A k \in 1 .. j - i + 1 : SubSeq(C, i, j)[k] = C[i + k - 1]
  BY <1>1, SubSeqProperties
<1>3. QED
  BY <1>2

LEMMA PartWithoutFirst ==
  ASSUME NEW D, NEW C \in Seq(D), NEW i \in 1 .. Len(C)
  PROVE  /\ SubSeq(C, i, Len(C)) # <<>>
         /\ SubSeq(C, i, Len(C))[1] = C[i]
         /\ SubSeq(SubSeq(C, i, Len(C)), 2, Len(SubSeq(C, i, Len(C)))) = SubSeq(C, i + 1, Len(C))
<1> DEFINE L == Len(C)
           P == SubSeq(C, i, L)
           R == SubSeq(P, 2, L - i + 1)
           Q == SubSeq(C, i + 1, L)
<1>1. L \in Nat /\ L \in 0 .. Len(C) /\ i \in 1 .. L + 1 /\ i + 1 \in 1 .. L + 1
  BY LenProperties
<1>2. /\ P \in Seq(D) /\ Len(P) = L - i + 1
      /\ \A k \in 1 .. L - i + 1 : P[k] = C[i + k - 1]
  BY <1>1, Part
<1>3. /\ Q \in Seq(D) /\ Len(Q) = L - (i + 1) + 1
      /\ \A k \in 1 .. L - (i + 1) + 1 : Q[k] = C[i + 1 + k - 1]
  BY <1>1, Part
<1> HIDE DEF Q, P
<1>4. L - i + 1 \in 0 .. Len(P) /\ 2 \in 1 .. (L - i + 1) + 1 /\ 1 \in 1 .. L - i + 1
  BY <1>1, <1>2
<1>5. /\ R \in Seq(D) /\ Len(R) = (L - i + 1) - 2 + 1
      /\ \A k \in 1 .. (L - i + 1) - 2 + 1 : R[k] = P[2 + k - 1]
  BY <1>2, <1>4, Part
<1> HIDE DEF R
<1>6. Len(R) = Len(Q) /\ \A k \in 1 .. Len(R) : R[k] = Q[k]
  <2>1. Len(R) = Len(Q)
    BY <1>1, <1>3, <1>5
  <2>2. ASSUME NEW k \in 1 .. Len(R)
        PROVE  R[k] = Q[k]
    <3>1. k + 1 \in 1 .. L - i + 1 /\ k \in 1 .. L - (i + 1) + 1 /\ k \in 1 .. (L - i + 1) - 2 + 1
          /\ 2 + k - 1 = k + 1 /\ i + (k + 1) - 1 = i + k /\ i + 1 + k - 1 = i + k
      BY <1>1, <1>5
    <3>2. R[k] = P[k + 1] /\ Q[k] = C[i + k] /\ P[k + 1] = C[i + (k + 1) - 1]
      BY <1>2, <1>3, <1>5, <3>1
    <3>3. QED
      BY <3>1, <3>2
  <2>3. QED
    BY <2>1, <2>2
<1>7. R = Q
  BY <1>3, <1>5, <1>6, SeqEqual
<1>8. P # <<>> /\ P[1] = C[i]
  <2>1. Len(P) # 0 /\ i + 1 - 1 = i
    BY <1>1, <1>2
  <2>2. QED
    BY <1>2, <1>4, <2>1, EmptySeq
<1>9. QED
  BY <1>2, <1>7, <1>8 DEF P, Q, R

LEMMA PartWithNext ==
  ASSUME NEW D, NEW C \in Seq(D), NEW j \in 0 .. Len(C) - 1, NEW i \in 1 .. j + 1
  PROVE  Append(SubSeq(C, i, j), C[j + 1]) = SubSeq(C, i, j + 1)
<1> DEFINE P == SubSeq(C, i, j)
           R == Append(P, C[j + 1])
           Q == SubSeq(C, i, j + 1)
<1>1. Len(C) \in Nat /\ j \in 0 .. Len(C) /\ j + 1 \in 0 .. Len(C) /\ i \in 1 .. (j + 1) + 1
      /\ C[j + 1] \in D
  BY LenProperties, ElementOfSeq
<1>2. /\ P \in Seq(D) /\ Len(P) = j - i + 1
      /\ \A k \in 1 .. j - i + 1 : P[k] = C[i + k - 1]
  BY <1>1, Part
<1>3. /\ Q \in Seq(D) /\ Len(Q) = j + 1 - i + 1
      /\ \A k \in 1 .. j + 1 - i + 1 : Q[k] = C[i + k - 1]
  BY <1>1, Part
<1> HIDE DEF P, Q
<1>4. /\ R \in Seq(D) /\ Len(R) = Len(P) + 1 /\ R[Len(P) + 1] = C[j + 1]
      /\ \A k \in 1 .. Len(P) : R[k] = P[k]
  BY <1>1, <1>2, AppendProperties
<1> HIDE DEF R
<1>5. Len(R) = Len(Q)
  BY <1>2, <1>3, <1>4
<1>6. ASSUME NEW k \in 1 .. Len(R)
      PROVE  R[k] = Q[k]
  <2>1. k \in 1 .. j + 1 - i + 1 /\ Q[k] = C[i + k - 1]
    BY <1>2, <1>3, <1>4
  <2>2. CASE k = Len(P) + 1
    <3>1. i + k - 1 = j + 1
      BY <1>2, <2>2
    <3>2. QED
      BY <1>4, <2>1, <2>2, <3>1
  <2>3. CASE k # Len(P) + 1
    <3>1. k \in 1 .. Len(P) /\ k \in 1 .. j - i + 1
      BY <1>2, <1>4, <2>3
    <3>2. QED
      BY <1>2, <1>4, <2>1, <3>1
  <2>4. QED
    BY <2>2, <2>3
<1>7. QED
  BY <1>3, <1>4, <1>5, <1>6, SeqEqual DEF P, Q, R
-----------------------------------------------------------------------------
(* Take() is the first n characters of the queue.                          *)

LEMMA Taken ==
  ASSUME NEW b \in Buffers, NEW n \in 0 .. Len(Content(b))
  PROVE  /\ Take(b, n).left \in Buffers
         /\ Content(Take(b, n).left) = SubSeq(Content(b), n + 1, Len(Content(b)))
         /\ Take(b, n).out = SubSeq(Content(b), 1, n)
<1> DEFINE C == Content(b)
           L == Len(C)
<1>1. C \in Seq(Slot) /\ L \in Nat /\ n \in Nat
  BY ContentType, LenProperties
<1>2. PICK g \in [0 .. n -> Buffers] :
        /\ g[0] = b
        /\ \A i \in 1 .. n : g[i] = buf_dequeue(g[i - 1])
        /\ Take(b, n) = [left |-> g[n], out |-> [i \in 1 .. n |-> Dequeued(g[i - 1])]]
  BY <1>1, TakeTurns
<1>3. n <= L
  BY <1>1
<1> HIDE DEF C, L
<1> DEFINE S == {i \in 0 .. n : Content(g[i]) = SubSeq(C, i + 1, L)}
<1>4. ASSUME NEW i \in 0 .. n - 1, i \in S
      PROVE  i + 1 \in S /\ Dequeued(g[i]) = C[i + 1]
  <2>1. g[i] \in Buffers /\ Content(g[i]) = SubSeq(C, i + 1, L) /\ i + 1 \in 1 .. L
        /\ g[i + 1] = buf_dequeue(g[i])
    <3>1. i + 1 \in 1 .. n /\ (i + 1) - 1 = i /\ i \in 0 .. n
      BY <1>1
    <3>2. QED
      BY <1>1, <1>2, <1>3, <1>4, <3>1
  <2>2. /\ Content(g[i]) # <<>>
        /\ Content(g[i])[1] = C[i + 1]
        /\ SubSeq(Content(g[i]), 2, Len(Content(g[i]))) = SubSeq(C, (i + 1) + 1, L)
    BY <1>1, <2>1, PartWithoutFirst DEF L
  <2>3. /\ Dequeued(g[i]) = C[i + 1]
        /\ Content(g[i + 1]) = SubSeq(C, (i + 1) + 1, L)
    BY <2>1, <2>2, Dequeue
  <2>4. i + 1 \in 0 .. n
    BY <1>1
  <2>5. QED
    BY <2>3, <2>4
<1>5. 0 \in S
  BY <1>1, <1>2, SubSeqFull DEF C, L
<1> HIDE DEF S
<1>6. \A i \in 0 .. n : i \in S
  BY <1>1, <1>4, <1>5, UpTo
<1>7. Content(g[n]) = SubSeq(C, n + 1, L) /\ g[n] \in Buffers
  <2>1. n \in S /\ n \in 0 .. n
    BY <1>1, <1>6
  <2>2. QED
    BY <2>1 DEF S
<1>8. [i \in 1 .. n |-> Dequeued(g[i - 1])] = SubSeq(C, 1, n)
  <2> DEFINE out == [i \in 1 .. n |-> Dequeued(g[i - 1])]
             F == SubSeq(C, 1, n)
  <2>1. n \in 0 .. Len(C) /\ 1 \in 1 .. n + 1
    BY <1>1, <1>3 DEF L
  <2>2. F \in Seq(Slot) /\ Len(F) = n - 1 + 1 /\ \A k \in 1 .. n - 1 + 1 : F[k] = C[1 + k - 1]
    BY <1>1, <2>1, Part
  <2> HIDE DEF F
  <2>3. \A i \in 1 .. n : out[i] = F[i]
    <3>1. TAKE i \in 1 .. n
    <3>2. i - 1 \in 0 .. n - 1 /\ i - 1 \in 0 .. n /\ (i - 1) + 1 = i /\ 1 + i - 1 = i /\ i \in 1 .. n - 1 + 1
      BY <1>1
    <3>3. Dequeued(g[i - 1]) = C[(i - 1) + 1]
      BY <1>4, <1>6, <3>2
    <3>4. F[i] = C[1 + i - 1]
      BY <2>2, <3>2
    <3>5. QED
      BY <3>2, <3>3, <3>4
  <2>4. \A i \in 1 .. n : F[i] \in Slot
    BY <1>1, <2>2, ElementOfSeq
  <2>5. out \in Seq(Slot) /\ Len(out) = n
    <3>1. DOMAIN out = 1 .. n /\ out = [i \in 1 .. n |-> out[i]] /\ \A i \in 1 .. n : out[i] \in Slot
      BY <2>3, <2>4
    <3> HIDE DEF out
    <3>2. out \in [1 .. n -> Slot]
      BY <3>1
    <3>3. QED
      BY <1>1, <3>2
  <2> HIDE DEF out
  <2>6. Len(F) = n
    BY <1>1, <2>2
  <2>7. out = F
    BY <2>2, <2>3, <2>5, <2>6, SeqEqual
  <2>8. QED
    BY <2>7 DEF out, F
<1>9. QED
  BY <1>2, <1>7, <1>8 DEF C, L
-----------------------------------------------------------------------------
(* Filled() keeps the first characters, or, where the ring begins at index *)
(* 0, those behind the last one that was too many.                         *)

LEMMA RestOfNext ==
  ASSUME NEW q \in Nat
  PROVE  /\ q % BUF_SIZE \in 0 .. BUF_SIZE - 1
         /\ q < BUF_SIZE => q % BUF_SIZE = q
         /\ q - (q % BUF_SIZE) \in Nat
         /\ (q + 1) % BUF_SIZE =
              IF q % BUF_SIZE = BUF_SIZE - 1 THEN 0 ELSE (q % BUF_SIZE) + 1
<1>1. PICK B \in Nat \ {0, 1} : B = BUF_SIZE
  BY Sizes
<1>2. \A k \in Int : \A r \in 0 .. B - 1 : (B * k + r) % B = r
  OBVIOUS
<1>3. PICK k \in Int, r \in 0 .. B - 1 : q = B * k + r /\ r = q % B
  OBVIOUS
<1>4. q - r \in Nat
  <2>1. q >= r
    <3>1. CASE k >= 0
      BY <1>3, <3>1
    <3>2. CASE k < 0
      BY <1>3, <3>2
    <3>3. QED
      BY <3>1, <3>2
  <2>2. QED
    BY <1>3, <2>1
<1>5. (q + 1) % B = IF r = B - 1 THEN 0 ELSE r + 1
  <2>1. CASE r = B - 1
    <3>1. q + 1 = B * (k + 1) + 0 /\ k + 1 \in Int /\ 0 \in 0 .. B - 1
      BY <1>3, <2>1
    <3>2. QED
      BY <1>2, <2>1, <3>1
  <2>2. CASE r # B - 1
    <3>1. q + 1 = B * k + (r + 1) /\ r + 1 \in 0 .. B - 1
      BY <1>3, <2>2
    <3>2. QED
      BY <1>2, <2>2, <3>1
  <2>3. QED
    BY <2>1, <2>2
<1>6. q < B => q % B = q
  OBVIOUS
<1>7. QED
  BY <1>1, <1>3, <1>4, <1>5, <1>6

(* What a ring that began at index h holds of the first q characters of T. *)
Held(h, T, q) ==
  IF h = 0 THEN SubSeq(T, q - (q % BUF_SIZE) + 1, q)
  ELSE SubSeq(T, 1, IF q < BUF_SIZE THEN q ELSE BUF_SIZE - 1)

LEMMA HeldAndNext ==
  ASSUME NEW h, NEW T \in Seq(Slot), NEW q \in 0 .. Len(T) - 1
  PROVE  Held(h, T, q + 1) =
           IF Len(Held(h, T, q)) < BUF_SIZE - 1 THEN Append(Held(h, T, q), T[q + 1])
           ELSE IF h = 0 THEN <<>> ELSE Held(h, T, q)
<1>1. Len(T) \in Nat /\ q \in Nat /\ q \in 0 .. Len(T)
  BY LenProperties
<1>2. BUF_SIZE \in Nat \ {0, 1}
  BY Sizes
<1>3. CASE h = 0
  <2>1. PICK r \in 0 .. BUF_SIZE - 1 :
          /\ r = q % BUF_SIZE
          /\ (q + 1) % BUF_SIZE = IF r = BUF_SIZE - 1 THEN 0 ELSE r + 1
          /\ q - r \in Nat
    BY <1>1, RestOfNext
  <2>2. q - r + 1 \in 1 .. q + 1 /\ q - (q - r + 1) + 1 = r
    BY <1>1, <1>2, <2>1
  <2>3. Len(SubSeq(T, q - r + 1, q)) = r
    BY <1>1, <2>2, Part
  <2>4. Held(h, T, q) = SubSeq(T, q - r + 1, q)
    BY <1>3, <2>1 DEF Held
  <2>5. CASE r = BUF_SIZE - 1
    <3>1. Held(h, T, q + 1) = SubSeq(T, (q + 1) - 0 + 1, q + 1)
      BY <1>3, <2>1, <2>5 DEF Held
    <3>2. SubSeq(T, (q + 1) - 0 + 1, q + 1) = <<>>
      BY <1>1, SubSeqEmpty
    <3>3. ~ (r < BUF_SIZE - 1)
      BY <1>2, <2>5
    <3>4. QED
      BY <1>3, <2>3, <2>4, <3>1, <3>2, <3>3
  <2>6. CASE r # BUF_SIZE - 1
    <3>1. (q + 1) - (r + 1) + 1 = q - r + 1 /\ r < BUF_SIZE - 1
      BY <1>1, <1>2, <2>1, <2>6
    <3>2. Held(h, T, q + 1) = SubSeq(T, q - r + 1, q + 1)
      BY <1>3, <2>1, <2>6, <3>1 DEF Held
    <3>3. Append(SubSeq(T, q - r + 1, q), T[q + 1]) = SubSeq(T, q - r + 1, q + 1)
      BY <2>2, PartWithNext
    <3>4. QED
      BY <2>3, <2>4, <3>1, <3>2, <3>3
  <2>7. QED
    BY <2>5, <2>6
<1>4. CASE h # 0
  <2>1. CASE q < BUF_SIZE - 1
    <3>1. Held(h, T, q) = SubSeq(T, 1, q) /\ Held(h, T, q + 1) = SubSeq(T, 1, q + 1)
      BY <1>1, <1>2, <1>4, <2>1 DEF Held
    <3>2. 1 \in 1 .. q + 1 /\ q - 1 + 1 = q
      BY <1>1
    <3>3. Len(SubSeq(T, 1, q)) = q
      BY <1>1, <3>2, Part
    <3>4. Append(SubSeq(T, 1, q), T[q + 1]) = SubSeq(T, 1, q + 1)
      BY <3>2, PartWithNext
    <3>5. QED
      BY <2>1, <3>1, <3>3, <3>4
  <2>2. CASE ~ (q < BUF_SIZE - 1)
    <3> DEFINE K == BUF_SIZE - 1
    <3>1. /\ K \in Nat /\ K \in 0 .. Len(T) /\ 1 \in 1 .. K + 1 /\ K - 1 + 1 = K /\ ~ (K < K)
      BY <1>1, <1>2, <2>2
    <3>2. Held(h, T, q) = SubSeq(T, 1, K) /\ Held(h, T, q + 1) = SubSeq(T, 1, K)
      BY <1>1, <1>2, <1>4, <2>2 DEF Held
    <3> HIDE DEF K
    <3>3. Len(SubSeq(T, 1, K)) = K
      BY <3>1, Part
    <3>4. QED
      BY <1>4, <3>1, <3>2, <3>3 DEF K
  <2>3. QED
    BY <2>1, <2>2
<1>5. QED
  BY <1>3, <1>4

LEMMA FilledHolds ==
  ASSUME NEW b \in Buffers, NEW s \in Seq(Slot)
  PROVE  /\ Filled(b, s) \in Buffers
         /\ Content(b) \o s \in Seq(Slot)
         /\ Content(Filled(b, s)) = Held(b.head, Content(b) \o s, Len(Content(b) \o s))
<1> DEFINE C == Content(b)
           L == Len(C)
           n == Len(s)
           T == C \o s
<1>1. /\ C \in Seq(Slot) /\ L \in 0 .. BUF_SIZE - 1 /\ L \in Nat /\ n \in Nat
      /\ BUF_SIZE \in Nat \ {0, 1}
  BY ContentType, QueueLength, LenProperties, Sizes DEF Index
<1>2. /\ T \in Seq(Slot) /\ Len(T) = L + n
      /\ \A i \in 1 .. L + n : T[i] = IF i <= L THEN C[i] ELSE s[i - L]
  BY <1>1, ConcatProperties
<1>3. PICK g \in [0 .. n -> Buffers] :
        /\ g[0] = b
        /\ \A i \in 1 .. n : g[i] = buf_enqueue(g[i - 1], s[i])
        /\ Filled(b, s) = g[n]
  BY FillTurns
<1>4. \A i \in 1 .. n : s[i] \in Slot
  BY ElementOfSeq
<1>5. SubSeq(T, 1, L) = C
  <2>1. 1 \in 1 .. L + 1 /\ L \in 0 .. Len(T) /\ L - 1 + 1 = L
    BY <1>1, <1>2
  <2>2. /\ SubSeq(T, 1, L) \in Seq(Slot)
        /\ Len(SubSeq(T, 1, L)) = L - 1 + 1
        /\ \A k \in 1 .. L - 1 + 1 : SubSeq(T, 1, L)[k] = T[1 + k - 1]
    BY <1>2, <2>1, Part
  <2> DEFINE R == SubSeq(T, 1, L)
  <2> HIDE DEF T, C, L, n, R
  <2>3. Len(R) = Len(C)
    BY <2>1, <2>2 DEF R, L
  <2>4. \A k \in 1 .. Len(R) : R[k] = C[k]
    <3>1. TAKE k \in 1 .. Len(R)
    <3>2. k \in 1 .. L - 1 + 1 /\ 1 + k - 1 = k /\ k \in 1 .. L + n /\ k <= L
      BY <1>1, <2>1, <2>2 DEF R
    <3>3. QED
      BY <1>2, <2>2, <3>2 DEF R
  <2>5. R = C
    BY <1>1, <2>2, <2>3, <2>4, SeqEqual DEF R
  <2>6. QED
    BY <2>5 DEF R
<1> DEFINE S == {i \in 0 .. n : g[i].head = b.head /\ Content(g[i]) = Held(b.head, T, L + i)}
<1> HIDE DEF C, L, n, T
<1>6. 0 \in S
  <2>1. Held(b.head, T, L) = SubSeq(T, 1, L)
    <3>1. L < BUF_SIZE /\ L - L + 1 = 1
      BY <1>1
    <3>2. L % BUF_SIZE = L
      BY <1>1, <3>1, RestOfNext
    <3>3. QED
      BY <3>1, <3>2 DEF Held
  <2>2. L + 0 = L /\ 0 \in 0 .. n
    BY <1>1
  <2>3. QED
    BY <1>3, <1>5, <2>1, <2>2 DEF C
<1>7. ASSUME NEW i \in 0 .. n - 1, i \in S
      PROVE  i + 1 \in S
  <2>1. /\ i \in 0 .. n /\ i + 1 \in 0 .. n /\ i + 1 \in 1 .. n /\ (i + 1) - 1 = i
        /\ L + i \in 0 .. Len(T) - 1 /\ L + (i + 1) = (L + i) + 1
        /\ (L + i) + 1 \in 1 .. L + n /\ ~ ((L + i) + 1 <= L) /\ (L + i) + 1 - L = i + 1
    BY <1>1, <1>2
  <2>2. /\ g[i] \in Buffers /\ g[i].head = b.head /\ Content(g[i]) = Held(b.head, T, L + i)
        /\ g[i + 1] = buf_enqueue(g[i], s[i + 1])
    BY <1>3, <1>7, <2>1
  <2>3. s[i + 1] \in Slot /\ T[(L + i) + 1] = s[i + 1]
    <3>1. PICK k \in 1 .. L + n : k = (L + i) + 1 /\ ~ (k <= L) /\ k - L = i + 1
      BY <1>1, <2>1
    <3>2. T[k] = s[i + 1]
      BY <1>2, <3>1
    <3>3. QED
      BY <1>4, <2>1, <3>1, <3>2
  <2>4. /\ g[i + 1].head = g[i].head
        /\ Content(g[i + 1]) =
             IF Len(Content(g[i])) < BUF_SIZE - 1 THEN Append(Content(g[i]), s[i + 1])
             ELSE IF g[i].head = 0 THEN <<>> ELSE Content(g[i])
    <3>1. PICK d \in Buffers, c \in Slot : d = g[i] /\ c = s[i + 1]
      BY <2>2, <2>3
    <3>2. /\ buf_enqueue(d, c).head = d.head
          /\ Content(buf_enqueue(d, c)) =
               IF Len(Content(d)) < BUF_SIZE - 1 THEN Append(Content(d), c)
               ELSE IF d.head = 0 THEN <<>> ELSE Content(d)
      BY Enqueue
    <3>3. QED
      BY <2>2, <3>1, <3>2
  <2>5. Held(b.head, T, (L + i) + 1) =
           IF Len(Held(b.head, T, L + i)) < BUF_SIZE - 1
           THEN Append(Held(b.head, T, L + i), T[(L + i) + 1])
           ELSE IF b.head = 0 THEN <<>> ELSE Held(b.head, T, L + i)
    BY <1>2, <2>1, HeldAndNext
  <2>6. Content(g[i + 1]) = Held(b.head, T, L + (i + 1))
    BY <2>1, <2>2, <2>3, <2>4, <2>5
  <2>7. QED
    BY <2>1, <2>2, <2>4, <2>6
<1> HIDE DEF S
<1>8. \A i \in 0 .. n : i \in S
  BY <1>1, <1>6, <1>7, UpTo
<1>9. n \in S /\ g[n] \in Buffers
  BY <1>1, <1>8
<1>10. Content(g[n]) = Held(b.head, T, Len(T))
  BY <1>2, <1>9 DEF S
<1>11. QED
  BY <1>2, <1>3, <1>9, <1>10 DEF T, C

LEMMA HeldIsKept ==
  ASSUME NEW h, NEW T \in Seq(Slot)
  PROVE  Held(h, T, Len(T)) \in Editor!Kept(T)
<1>1. Len(T) \in Nat /\ BUF_SIZE \in Nat \ {0, 1} /\ (BUF_SIZE - 1) + 1 = BUF_SIZE
  BY Sizes, LenProperties
<1>2. CASE Len(T) <= BUF_SIZE - 1
  <2>1. Len(T) - Len(T) + 1 = 1 /\ Len(T) < BUF_SIZE
    BY <1>1, <1>2
  <2>2. Len(T) % BUF_SIZE = Len(T)
    BY <1>1, <2>1, RestOfNext
  <2>3. Held(h, T, Len(T)) = SubSeq(T, 1, Len(T))
    BY <2>1, <2>2 DEF Held
  <2>4. QED
    BY <1>2, <2>3, SubSeqFull DEF Editor!Kept
<1>3. CASE ~ (Len(T) <= BUF_SIZE - 1)
  <2>1. ~ (Len(T) < BUF_SIZE)
    BY <1>1, <1>3
  <2>2. Held(h, T, Len(T)) \in {SubSeq(T, 1, BUF_SIZE - 1), SubSeq(T, Len(T) - (Len(T) % BUF_SIZE) + 1, Len(T))}
    BY <2>1 DEF Held
  <2>3. QED
    BY <1>1, <1>3, <2>2 DEF Editor!Kept
<1>4. QED
  BY <1>2, <1>3
-----------------------------------------------------------------------------
(* The invariant: the buffers are rings, and what is echoed is the line.   *)

IInv == line_buf \in Buffers /\ input_buf \in Buffers /\ EchoIsLine

LEMMA InitInv == Init => IInv
<1>1. SUFFICES ASSUME Init PROVE IInv
  OBVIOUS
<1>2. Empty \in Buffers /\ EMPTY(Empty)
  <2>1. 0 \in Index
    BY Sizes DEF Index
  <2>2. QED
    BY <2>1 DEF Empty, Buffers, EMPTY
<1>3. Content(Empty) = <<>>
  BY <1>2, Restore
<1>4. QED
  BY <1>1, <1>2, <1>3 DEF Init, IInv, EchoIsLine

(* What each step does to the two queues. *)

LEMMA TypeSteps ==
  ASSUME IInv, NEW c \in Char, Type(c)
  PROVE  IInv' /\ Editor!Type(c)
<1>1. c \in Slot
  BY DEF Slot
<1>2. /\ line_buf \in Buffers
      /\ line_buf' = buf_enqueue(line_buf, c)
      /\ input_buf' = input_buf /\ got' = got
  BY DEF IInv, Type
<1>3. /\ line_buf' \in Buffers
      /\ Content(line_buf') =
           IF Len(Content(line_buf)) < BUF_SIZE - 1 THEN Append(Content(line_buf), c)
           ELSE IF line_buf.head = 0 THEN <<>> ELSE Content(line_buf)
      /\ FULL(line_buf) <=> Len(Content(line_buf)) = BUF_SIZE - 1 /\ line_buf.head # 0
      /\ EMPTY(line_buf') <=> Content(line_buf') = <<>>
  BY <1>1, <1>2, Enqueue, Restore
<1>4. /\ Content(line_buf) \in Seq(Slot)
      /\ Len(Content(line_buf)) \in 0 .. BUF_SIZE - 1
      /\ BUF_SIZE \in Nat \ {0, 1}
  BY <1>2, ContentType, QueueLength, Sizes DEF Index
<1>5. /\ Append(Content(line_buf), c) \in Seq(Slot)
      /\ Append(Content(line_buf), c) # <<>>
      /\ Len(Append(Content(line_buf), c)) = Len(Content(line_buf)) + 1
      /\ \A i \in 1 .. Len(Content(line_buf)) : Append(Content(line_buf), c)[i] = Content(line_buf)[i]
  BY <1>1, <1>4, AppendProperties
<1>6. EchoIsLine'
  <2>1. SUFFICES ASSUME ~ line_lost'
                 PROVE  shown' = Content(line_buf')
    BY DEF EchoIsLine
  <2>2. ~ line_lost /\ shown = Content(line_buf) /\ ~ (~ FULL(line_buf) /\ EMPTY(line_buf'))
    BY <2>1 DEF Type, IInv, EchoIsLine
  <2>3. shown' = IF FULL(line_buf) THEN shown ELSE Append(shown, c)
    BY <2>1 DEF Type
  <2>4. CASE FULL(line_buf)
    BY <1>3, <1>4, <2>2, <2>3, <2>4
  <2>5. CASE ~ FULL(line_buf)
    <3>1. Len(Content(line_buf)) < BUF_SIZE - 1
      BY <1>3, <1>4, <2>2, <2>5
    <3>2. QED
      BY <1>3, <2>2, <2>3, <2>5, <3>1
  <2>6. QED
    BY <2>4, <2>5
<1>7. Content(line_buf') \in Editor!Kept(Append(Content(line_buf), c))
  <2> DEFINE C == Content(line_buf)
             A == Append(C, c)
  <2>1. CASE Len(C) < BUF_SIZE - 1
    <3>1. Len(A) <= BUF_SIZE - 1 /\ Content(line_buf') = A
      BY <1>3, <1>4, <1>5, <2>1
    <3>2. QED
      BY <3>1 DEF Editor!Kept
  <2>2. CASE ~ (Len(C) < BUF_SIZE - 1)
    <3>1. Len(C) = BUF_SIZE - 1 /\ Len(A) = BUF_SIZE /\ ~ (Len(A) <= BUF_SIZE - 1)
          /\ (BUF_SIZE - 1) + 1 = BUF_SIZE /\ Len(A) % BUF_SIZE = 0
      BY <1>4, <1>5, <2>2
    <3>2. Editor!Kept(A) = {SubSeq(A, 1, BUF_SIZE - 1), SubSeq(A, BUF_SIZE - 0 + 1, BUF_SIZE)}
      BY <3>1 DEF Editor!Kept
    <3>3. SubSeq(A, BUF_SIZE - 0 + 1, BUF_SIZE) = <<>>
      BY <1>4, SubSeqEmpty
    <3>4. SubSeq(A, 1, BUF_SIZE - 1) = C
      <4> DEFINE P == SubSeq(A, 1, BUF_SIZE - 1)
      <4>1. BUF_SIZE - 1 \in 0 .. Len(A) /\ 1 \in 1 .. (BUF_SIZE - 1) + 1
        BY <1>4, <3>1
      <4>2. /\ P \in Seq(Slot) /\ Len(P) = (BUF_SIZE - 1) - 1 + 1
            /\ \A k \in 1 .. (BUF_SIZE - 1) - 1 + 1 : P[k] = A[1 + k - 1]
        BY <1>5, <4>1, Part
      <4> HIDE DEF P, A, C
      <4>3. Len(P) = Len(C) /\ \A k \in 1 .. Len(P) : P[k] = A[k]
        BY <1>4, <3>1, <4>2
      <4>4. \A k \in 1 .. Len(P) : P[k] = C[k]
        BY <1>5, <4>3 DEF A, C
      <4>5. C \in Seq(Slot)
        BY <1>4 DEF C
      <4>6. P = C
        BY <4>2, <4>3, <4>4, <4>5, SeqEqual
      <4>7. QED
        BY <4>6 DEF P
    <3>5. Content(line_buf') \in {C, <<>>}
      BY <1>3, <2>2
    <3>6. QED
      BY <3>2, <3>3, <3>4, <3>5
  <2>3. QED
    BY <2>1, <2>2
<1>8. QED
  BY <1>2, <1>3, <1>6, <1>7 DEF IInv, Editor!Type

LEMMA EraseSteps ==
  ASSUME IInv, Erase
  PROVE  /\ IInv'
         /\ Editor!Erase \/ UNCHANGED Editor!vars
<1>1. /\ line_buf \in Buffers
      /\ line_buf' = buf_restore(line_buf)
      /\ input_buf' = input_buf /\ got' = got /\ line_lost' = line_lost
      /\ shown' = IF EMPTY(line_buf) \/ line_lost THEN shown ELSE SubSeq(shown, 1, Len(shown) - 1)
  BY DEF IInv, Erase
<1>2. /\ line_buf' \in Buffers
      /\ EMPTY(line_buf) <=> Content(line_buf) = <<>>
      /\ EMPTY(line_buf) => line_buf' = line_buf
      /\ ~ EMPTY(line_buf) =>
           Content(line_buf') = SubSeq(Content(line_buf), 1, Len(Content(line_buf)) - 1)
  BY <1>1, Restore
<1>3. ~ line_lost => shown = Content(line_buf)
  BY DEF IInv, EchoIsLine
<1>4. EchoIsLine'
  BY <1>1, <1>2, <1>3 DEF EchoIsLine
<1>5. Editor!Erase \/ UNCHANGED Editor!vars
  BY <1>1, <1>2 DEF Editor!Erase, Editor!vars
<1>6. QED
  BY <1>1, <1>2, <1>4, <1>5 DEF IInv

(* All of the queue is moved. *)
LEMMA MovedAll ==
  ASSUME NEW b \in Buffers
  PROVE  /\ Moved(b).left \in Buffers
         /\ Content(Moved(b).left) = <<>>
         /\ Moved(b).out = Content(b)
<1>1. Content(b) \in Seq(Slot) /\ Len(Content(b)) \in Nat /\ buf_queue_length(b) = Len(Content(b))
  BY ContentType, LenProperties
<1>2. Len(Content(b)) \in 0 .. Len(Content(b))
  BY <1>1
<1>3. Moved(b) = Take(b, Len(Content(b)))
  BY <1>1 DEF Moved
<1>4. /\ Moved(b).left \in Buffers
      /\ Content(Moved(b).left) = SubSeq(Content(b), Len(Content(b)) + 1, Len(Content(b)))
      /\ Moved(b).out = SubSeq(Content(b), 1, Len(Content(b)))
  BY <1>2, <1>3, Taken
<1>5. SubSeq(Content(b), Len(Content(b)) + 1, Len(Content(b))) = <<>>
  BY <1>1, SubSeqEmpty
<1>6. SubSeq(Content(b), 1, Len(Content(b))) = Content(b)
  BY <1>1, SubSeqFull
<1>7. QED
  BY <1>4, <1>5, <1>6

LEMMA EnterSteps ==
  ASSUME IInv, Enter
  PROVE  IInv' /\ Editor!Enter
<1> DEFINE full == buf_enqueue(line_buf, Newline)
           moved == Moved(full)
<1>1. /\ line_buf \in Buffers /\ input_buf \in Buffers
      /\ line_buf' = moved.left
      /\ input_buf' = Filled(input_buf, moved.out)
      /\ shown' = <<>> /\ line_lost' = FALSE /\ got' = got
  BY DEF IInv, Enter
<1>2. Newline \in Slot
  BY DEF Slot
<1>3. full \in Buffers
  BY <1>1, <1>2, Enqueue
<1> HIDE DEF full
<1>4. moved.left \in Buffers /\ Content(moved.left) = <<>> /\ moved.out = Content(full)
      /\ Content(full) \in Seq(Slot)
  BY <1>3, MovedAll, ContentType
<1> HIDE DEF moved
<1>5. Content(full) \in Editor!Kept(Append(Content(line_buf), Newline))
  <2>1. <<Newline>> \in Seq(Slot) /\ Len(<<Newline>>) = 1 /\ <<Newline>>[1] = Newline
    BY <1>2
  <2>2. Filled(line_buf, <<Newline>>) = full
    <3>1. PICK g \in [0 .. Len(<<Newline>>) -> Buffers] :
            /\ g[0] = line_buf
            /\ \A i \in 1 .. Len(<<Newline>>) : g[i] = buf_enqueue(g[i - 1], <<Newline>>[i])
            /\ Filled(line_buf, <<Newline>>) = g[Len(<<Newline>>)]
      BY <1>1, <2>1, FillTurns
    <3>2. g[1] = buf_enqueue(g[1 - 1], <<Newline>>[1])
      BY <2>1, <3>1
    <3>3. QED
      BY <2>1, <3>1, <3>2 DEF full
  <2>3. /\ Content(line_buf) \o <<Newline>> \in Seq(Slot)
        /\ Content(full) = Held(line_buf.head, Content(line_buf) \o <<Newline>>,
                                 Len(Content(line_buf) \o <<Newline>>))
    BY <1>1, <2>1, <2>2, FilledHolds
  <2>4. Append(Content(line_buf), Newline) = Content(line_buf) \o <<Newline>>
    BY <1>1, <1>2, ContentType, AppendIsConcat
  <2>5. QED
    BY <2>3, <2>4, HeldIsKept
<1>6. /\ input_buf' \in Buffers
      /\ Content(input_buf') \in Editor!Kept(Content(input_buf) \o Content(full))
  <2>1. PICK s \in Seq(Slot) : s = Content(full)
    BY <1>4
  <2>2. /\ Filled(input_buf, s) \in Buffers
        /\ Content(Filled(input_buf, s)) \in Editor!Kept(Content(input_buf) \o s)
    BY <1>1, FilledHolds, HeldIsKept
  <2>3. QED
    BY <1>1, <1>4, <2>1, <2>2
<1>7. IInv'
  BY <1>1, <1>4, <1>6 DEF IInv, EchoIsLine
<1>8. QED
  BY <1>1, <1>4, <1>5, <1>6, <1>7 DEF Editor!Enter

LEMMA WriteSteps ==
  ASSUME IInv, NEW s \in Writes, Write(s)
  PROVE  IInv' /\ Editor!Write(s)
<1> DEFINE r == SubSeq(s, 2, Len(s))
<1>1. /\ line_buf \in Buffers /\ input_buf \in Buffers
      /\ input_buf' = Filled(input_buf, r)
      /\ UNCHANGED <<line_buf, got, shown, line_lost>>
  BY DEF IInv, Write
<1>2. r \in Seq(Slot)
  <2>1. s \in Seq(Slot)
    <3>1. s \in Seq(Char \cup {Newline}) /\ Char \cup {Newline} \subseteq Slot
      BY TtyAssumption DEF Slot
    <3>2. QED
      BY <3>1, SeqMonotonic
  <2>2. Len(s) \in Int /\ 2 \in Int /\ \A i \in 2 .. Len(s) : s[i] \in Slot
    BY <2>1, LenProperties, ElementOfSeq
  <2>3. QED
    BY <2>2, SubSeqProperties
<1> HIDE DEF r
<1>3. /\ input_buf' \in Buffers
      /\ Content(input_buf') \in Editor!Kept(Content(input_buf) \o r)
  BY <1>1, <1>2, FilledHolds, HeldIsKept
<1>4. IInv'
  BY <1>1, <1>3 DEF IInv, EchoIsLine
<1>5. QED
  BY <1>1, <1>3, <1>4 DEF Editor!Write, r

LEMMA ReadSteps ==
  ASSUME IInv, NEW n \in Requests, Read(n)
  PROVE  IInv' /\ Editor!Read(n)
<1> DEFINE L == Len(Content(input_buf))
           m == IF n < L THEN n ELSE L
           taken == Take(input_buf, m)
<1>1. line_buf \in Buffers /\ input_buf \in Buffers
  BY DEF IInv
<1>2. /\ Content(input_buf) \in Seq(Slot) /\ L \in Nat /\ buf_queue_length(input_buf) = L
      /\ n \in Nat /\ m \in 0 .. L
  <2>1. Content(input_buf) \in Seq(Slot) /\ L \in Nat /\ buf_queue_length(input_buf) = L
    BY <1>1, ContentType, LenProperties
  <2>2. n \in Nat
    BY TtyAssumption
  <2> HIDE DEF L
  <2>3. QED
    BY <2>1, <2>2
<1>3. Granted(n, L) = m
  <2> HIDE DEF L
  <2>1. QED
    BY <1>2 DEF Granted
<1>4. /\ L # 0
      /\ input_buf' = taken.left /\ got' = taken.out
      /\ UNCHANGED <<line_buf, shown, line_lost>>
  BY <1>2, <1>3 DEF Read
<1>5. /\ taken.left \in Buffers
      /\ Content(taken.left) = SubSeq(Content(input_buf), m + 1, L)
      /\ taken.out = SubSeq(Content(input_buf), 1, m)
  BY <1>1, <1>2, Taken
<1>6. Content(input_buf) # <<>>
  BY <1>4, EmptySeq
<1>7. IInv'
  BY <1>1, <1>4, <1>5 DEF IInv, EchoIsLine
<1>8. QED
  BY <1>4, <1>5, <1>6, <1>7 DEF Editor!Read

LEMMA Steps ==
  ASSUME IInv, [Next]_vars
  PROVE  IInv' /\ [Editor!Next]_(Editor!vars)
<1>1. CASE \E c \in Char : Type(c)
  BY <1>1, TypeSteps DEF Editor!Next
<1>2. CASE Erase
  BY <1>2, EraseSteps DEF Editor!Next
<1>3. CASE Enter
  BY <1>3, EnterSteps DEF Editor!Next
<1>4. CASE \E s \in Writes : Write(s)
  BY <1>4, WriteSteps DEF Editor!Next
<1>5. CASE \E n \in Requests : Read(n)
  BY <1>5, ReadSteps DEF Editor!Next
<1>6. CASE UNCHANGED vars
  BY <1>6 DEF vars, IInv, EchoIsLine, Editor!vars
<1>7. QED
  BY <1>1, <1>2, <1>3, <1>4, <1>5, <1>6 DEF Next

(* What tty_input() has put on the screen for the unfinished line is what  *)
(* the newline key will hand over: for rings of every size, and wherever   *)
(* in the ring the line lies.                                              *)
THEOREM EchoedLineIsStored == Spec => []EchoIsLine
<1>1. IInv /\ [Next]_vars => IInv'
  BY Steps
<1>2. IInv => EchoIsLine
  BY DEF IInv
<1>3. QED
  BY InitInv, <1>1, <1>2, PTL DEF Spec

(* buf_enqueue(), buf_dequeue(), buf_restore() and the loops around them   *)
(* implement the two queues of the line editor, for rings of every size    *)
(* and writes of every length.                                             *)
THEOREM RingsImplementLineEditor == Spec => ImplementsLineEditor
<1>1. Init => Editor!Init
  <2>1. Init => line_buf \in Buffers /\ line_buf = Empty /\ input_buf = Empty /\ EMPTY(Empty)
    BY InitInv DEF Init, IInv, EMPTY, Empty
  <2>2. Init => Content(line_buf) = <<>> /\ Content(input_buf) = <<>>
    BY <2>1, Restore
  <2>3. QED
    BY <2>2 DEF Init, Editor!Init
<1>2. IInv /\ [Next]_vars => IInv' /\ [Editor!Next]_(Editor!vars)
  BY Steps
<1>3. QED
  BY InitInv, <1>1, <1>2, PTL DEF Spec, ImplementsLineEditor, Editor!Spec
-----------------------------------------------------------------------------
(* No character is made up, which is a fact about the line editor alone.   *)

Key == Char \cup {Newline}

Types ==
  /\ Content(line_buf) \in Seq(Char)
  /\ Content(input_buf) \in Seq(Key)
  /\ got \in Seq(Key)
  /\ shown \in Seq(Char)
  /\ line_lost \in BOOLEAN

LEMMA KeptType ==
  ASSUME NEW D, NEW T \in Seq(D)
  PROVE  Editor!Kept(T) \subseteq Seq(D)
<1> DEFINE K == BUF_SIZE - 1
           i == Len(T) - (Len(T) % (K + 1)) + 1
<1>1. Len(T) \in Nat /\ BUF_SIZE \in Nat \ {0, 1} /\ K + 1 = BUF_SIZE
  BY LenProperties, Sizes
<1>2. i \in 1 .. Len(T) + 1 /\ Len(T) \in 0 .. Len(T)
  <2>1. PICK r \in 0 .. BUF_SIZE - 1 : r = Len(T) % BUF_SIZE /\ Len(T) - r \in Nat
    BY <1>1, RestOfNext
  <2>2. i = Len(T) - r + 1
    BY <1>1, <2>1
  <2> HIDE DEF i
  <2>3. QED
    BY <1>1, <2>1, <2>2
<1> HIDE DEF i
<1>3. SubSeq(T, i, Len(T)) \in Seq(D)
  BY <1>2, Part
<1>4. ASSUME ~ (Len(T) <= K)
      PROVE  SubSeq(T, 1, K) \in Seq(D)
  <2>1. K \in 0 .. Len(T) /\ 1 \in 1 .. K + 1
    BY <1>1, <1>4
  <2> HIDE DEF K
  <2>2. QED
    BY <2>1, Part
<1>5. QED
  BY <1>3, <1>4 DEF Editor!Kept, i

LEMMA TypeInductive ==
  ASSUME IInv, Types, [Next]_vars
  PROVE  Types'
<1>1. line_buf \in Buffers /\ input_buf \in Buffers
  BY DEF IInv
<1>2. ASSUME NEW c \in Char, Type(c)
      PROVE  Types'
  <2>1. Content(line_buf') \in Seq(Char) /\ Content(input_buf') = Content(input_buf) /\ got' = got
    <3>1. /\ Content(line_buf') \in Editor!Kept(Append(Content(line_buf), c))
          /\ Content(input_buf') = Content(input_buf) /\ got' = got
      BY <1>2, TypeSteps DEF Editor!Type
    <3>2. Append(Content(line_buf), c) \in Seq(Char)
      BY AppendProperties DEF Types
    <3>3. QED
      BY <3>1, <3>2, KeptType
  <2>2. Append(shown, c) \in Seq(Char) /\ <<>> \in Seq(Char)
    BY AppendProperties, EmptySeq DEF Types
  <2>3. shown' \in Seq(Char)
    BY <1>2, <2>2 DEF Type, Types
  <2>4. line_lost' \in BOOLEAN
    BY <1>2 DEF Type, Types
  <2>5. QED
    BY <2>1, <2>3, <2>4 DEF Types
<1>3. ASSUME Erase
      PROVE  Types'
  <2>1. \A s \in Seq(Char) : s # <<>> => SubSeq(s, 1, Len(s) - 1) \in Seq(Char)
    <3>1. TAKE s \in Seq(Char)
    <3>2. SUFFICES ASSUME s # <<>>
                   PROVE  SubSeq(s, 1, Len(s) - 1) \in Seq(Char)
      OBVIOUS
    <3>3. Len(s) - 1 \in 0 .. Len(s) /\ 1 \in 1 .. (Len(s) - 1) + 1
      BY <3>2, EmptySeq
    <3>4. QED
      BY <3>3, Part
  <2>2. /\ Content(line_buf') \in Seq(Char)
        /\ Content(input_buf') = Content(input_buf) /\ got' = got
    BY <1>3, <2>1, EraseSteps DEF Editor!Erase, Editor!vars, Types
  <2>3. /\ shown' = IF EMPTY(line_buf) \/ line_lost THEN shown ELSE SubSeq(shown, 1, Len(shown) - 1)
        /\ line_lost' = line_lost
    BY <1>3 DEF Erase
  <2>4. ~ EMPTY(line_buf) /\ ~ line_lost => shown # <<>>
    BY <1>1, Restore DEF IInv, EchoIsLine
  <2>5. shown' \in Seq(Char)
    BY <2>1, <2>3, <2>4 DEF Types
  <2>6. QED
    BY <2>2, <2>3, <2>5 DEF Types
<1>4. ASSUME Enter
      PROVE  Types'
  <2>1. PICK finished \in Editor!Kept(Append(Content(line_buf), Newline)) :
          Content(input_buf') \in Editor!Kept(Content(input_buf) \o finished)
    BY <1>4, EnterSteps DEF Editor!Enter
  <2>2. Content(line_buf') = <<>> /\ got' = got
    BY <1>4, EnterSteps DEF Editor!Enter
  <2>3. finished \in Seq(Key)
    <3>1. Content(line_buf) \in Seq(Key) /\ Newline \in Key
      <4>1. Char \subseteq Key /\ Newline \in Key
        BY DEF Key
      <4>2. QED
        BY <4>1, SeqMonotonic DEF Types
    <3>2. Append(Content(line_buf), Newline) \in Seq(Key)
      BY <3>1, AppendProperties
    <3>3. QED
      BY <3>2, KeptType
  <2>4. Content(input_buf) \o finished \in Seq(Key)
    BY <2>3, ConcatProperties DEF Types
  <2>5. Content(input_buf') \in Seq(Key)
    BY <2>1, <2>4, KeptType
  <2>6. <<>> \in Seq(Char) /\ shown' = <<>> /\ line_lost' = FALSE
    BY <1>4, EmptySeq DEF Enter
  <2>7. QED
    BY <2>2, <2>5, <2>6 DEF Types
<1>5. ASSUME NEW s \in Writes, Write(s)
      PROVE  Types'
  <2>1. Content(input_buf') \in Editor!Kept(Content(input_buf) \o SubSeq(s, 2, Len(s)))
    BY <1>5, WriteSteps DEF Editor!Write
  <2>2. SubSeq(s, 2, Len(s)) \in Seq(Key)
    <3>1. s \in Seq(Key)
      BY TtyAssumption DEF Key
    <3>2. Len(s) \in Int /\ 2 \in Int /\ \A i \in 2 .. Len(s) : s[i] \in Key
      BY <3>1, LenProperties, ElementOfSeq
    <3>3. QED
      BY <3>2, SubSeqProperties
  <2>3. Content(input_buf) \o SubSeq(s, 2, Len(s)) \in Seq(Key)
    BY <2>2, ConcatProperties DEF Types
  <2>4. Content(input_buf') \in Seq(Key)
    BY <2>1, <2>3, KeptType
  <2>5. QED
    BY <1>5, <2>4 DEF Types, Write
<1>6. ASSUME NEW n \in Requests, Read(n)
      PROVE  Types'
  <2> DEFINE L == Len(Content(input_buf))
             m == IF n < L THEN n ELSE L
  <2>1. /\ got' = SubSeq(Content(input_buf), 1, m)
        /\ Content(input_buf') = SubSeq(Content(input_buf), m + 1, L)
    BY <1>6, ReadSteps DEF Editor!Read
  <2>2. Content(input_buf) \in Seq(Key) /\ L \in Nat /\ n \in Nat
    BY TtyAssumption, LenProperties DEF Types
  <2>3. L \in 0 .. L /\ m \in 0 .. L /\ 1 \in 1 .. m + 1 /\ m + 1 \in 1 .. L + 1
    <3> HIDE DEF L
    <3>1. QED
      BY <2>2
  <2> HIDE DEF m
  <2>4. got' \in Seq(Key) /\ Content(input_buf') \in Seq(Key)
    BY <2>1, <2>2, <2>3, Part
  <2>5. QED
    BY <1>6, <2>4 DEF Types, Read
<1>7. CASE UNCHANGED vars
  BY <1>7 DEF vars, Types
<1>8. QED
  BY <1>2, <1>3, <1>4, <1>5, <1>6, <1>7 DEF Next

LEMMA InitTypes == Init => Types
<1>1. SUFFICES ASSUME Init PROVE Types
  OBVIOUS
<1>2. EMPTY(Empty) /\ Empty \in Buffers
  BY <1>1, InitInv DEF Init, IInv, EMPTY, Empty
<1>3. Content(Empty) = <<>>
  BY <1>2, Restore
<1>4. QED
  BY <1>1, <1>3, EmptySeq DEF Init, Types

(* The indices stay inside the arrays, also where an unsigned index goes   *)
(* below zero, and read() returns what was typed or written.               *)
THEOREM TypeCorrect == Spec => []TypeOK
<1>1. IInv /\ Types /\ [Next]_vars => (IInv /\ Types)'
  BY Steps, TypeInductive
<1>2. IInv /\ Types => TypeOK
  BY DEF IInv, Types, TypeOK, Key
<1>3. QED
  BY InitInv, InitTypes, <1>1, <1>2, PTL DEF Spec

(* A finished line leaves line_buf whole: a backspace never reaches back   *)
(* into a line that a program may have read already.                       *)
THEOREM FinishedLinesAreGone == Spec => []LineUnfinished
<1>1. IInv /\ Types /\ [Next]_vars => (IInv /\ Types)'
  BY Steps, TypeInductive
<1>2. ASSUME Types
      PROVE  LineUnfinished
  <2>1. Newline \notin Char
    BY TtyAssumption
  <2>2. \A i \in DOMAIN Content(line_buf) : Content(line_buf)[i] \in Char
    BY <1>2, LenProperties, ElementOfSeq DEF Types
  <2>3. QED
    BY <2>1, <2>2 DEF LineUnfinished
<1>3. QED
  BY InitInv, InitTypes, <1>1, <1>2, PTL DEF Spec
=============================================================================
