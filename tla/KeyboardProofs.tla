--------------------------- MODULE KeyboardProofs ---------------------------
(***************************************************************************)
(* Theorems about Keyboard for every set of keys: when all bytes have been *)
(* handled, the modifiers are those that are held down; and on a keyboard  *)
(* with one shift key every key has given its character once, in order and *)
(* in its case.                                                            *)
(***************************************************************************)
EXTENDS Keyboard, Integers, SequenceTheorems, TLAPS

-----------------------------------------------------------------------------
(* The inductive invariant is about the bytes that the handler has still   *)
(* to read, and what it will make of them: Run(P, m0, w0, out, m, w) says  *)
(* that the bytes P take the handler from the modifiers m0 to m, and from  *)
(* waiting = w0 to w, and that it hands out the characters of `out'.  The  *)
(* witnesses are the modifiers, waiting and the number of characters       *)
(* before each byte.                                                       *)

Mods == [Field -> BOOLEAN]
Character == [code : Plain, upper : BOOLEAN]

Pending == (IF full THEN <<port>> ELSE <<>>) \o line

NewMods(m, b) ==
  IF b = Prefix THEN m
  ELSE IF b.code \in DOMAIN SetBy THEN [m EXCEPT ![SetBy[b.code]] = b.make]
  ELSE IF b.code \in DOMAIN SwitchedBy /\ b.make
    THEN [m EXCEPT ![SwitchedBy[b.code]] = ~ m[SwitchedBy[b.code]]]
  ELSE m
Gives(w, b) == b # Prefix /\ b.make /\ ~ w /\ b.code \in Plain
TypedBy(m, b) == [code |-> b.code, upper |-> m["caps"] \/ m["shift"]]

(* A byte that comes behind a prefix. *)
IsExt(b) == b # Prefix /\ \E k \in Keys : k.ext /\ k.code = b.code

(* The turn for the byte b. *)
Turn(b, m0, w0, n0, out, m, w, n) ==
  /\ m = NewMods(m0, b) /\ w = (b = Prefix)
  /\ w0 => IsExt(b)
  /\ n = IF Gives(w0, b) THEN n0 + 1 ELSE n0
  /\ Gives(w0, b) => out[n] = TypedBy(m0, b)

Run(P, m0, w0, out, m, w) ==
  /\ P \in Seq(Byte) /\ out \in Seq(Character)
  /\ \E mods \in [0 .. Len(P) -> Mods], pre \in [0 .. Len(P) -> BOOLEAN],
        num \in [0 .. Len(P) -> 0 .. Len(out)] :
       /\ mods[0] = m0 /\ pre[0] = w0 /\ num[0] = 0
       /\ mods[Len(P)] = m /\ pre[Len(P)] = w /\ num[Len(P)] = Len(out)
       /\ \A i \in 1 .. Len(P) :
            Turn(P[i], mods[i - 1], pre[i - 1], num[i - 1], out, mods[i], pre[i], num[i])
       /\ \A i, j \in 0 .. Len(P) : i <= j => num[i] <= num[j]

(* The modifiers m are those of the keys that are down. *)
FollowKeys(m) ==
  \A f \in Range(SetBy) :
    /\ m[f] => KeysOf(f) \cap down # {}
    /\ KeysOf(f) # {} /\ KeysOf(f) \subseteq down => m[f]

(* Two shift keys share one flag, which goes by the last event; a lock key *)
(* with a prefix would switch twice when its byte is read again.           *)
OrdinaryKeys ==
  /\ \A j, k \in KeysOf("shift") : j = k
  /\ \A k \in Keys : k.ext => k.code \notin DOMAIN SwitchedBy

Types ==
  /\ down \subseteq Keys /\ lock \in BOOLEAN
  /\ line \in Seq(Byte) /\ port \in Byte
  /\ full \in BOOLEAN /\ irq \in BOOLEAN /\ waiting \in BOOLEAN
  /\ State \in Mods
  /\ owed \in Seq(Character)

(* What is read a second time came behind a prefix. *)
Reread == irq /\ ~ full /\ ~ waiting => IsExt(port)
ReadOnce ==
  ~ full /\ port.code \in DOMAIN SetBy => State[SetBy[port.code]] = port.make

Coming ==
  \E m0, m \in Mods, out \in Seq(Character) :
    /\ Run(Pending, m0, waiting, out, m, FALSE)
    /\ \A f \in Range(SetBy) : m0[f] = State[f]
    /\ FollowKeys(m)
    /\ OrdinaryKeys => m0 = State /\ out = owed /\ m["caps"] = lock

IInv == Types /\ Reread /\ ReadOnce /\ Coming
-----------------------------------------------------------------------------
(* The tables.                                                             *)

LEMMA Tables ==
  /\ DOMAIN SetBy = {"0x1d", "0x38", "0x2a", "0x36"}
  /\ SetBy["0x1d"] = "control" /\ SetBy["0x38"] = "alt"
  /\ SetBy["0x2a"] = "shift" /\ SetBy["0x36"] = "shift"
  /\ DOMAIN SwitchedBy = {"0x3a", "0x45"}
  /\ SwitchedBy["0x3a"] = "caps" /\ SwitchedBy["0x45"] = "numlock"
BY DEF SetBy, SwitchedBy

LEMMA Fields ==
  /\ Range(SetBy) = {"control", "alt", "shift"}
  /\ Range(SwitchedBy) = {"caps", "numlock"}
  /\ Field = {"control", "alt", "shift", "caps", "numlock"}
  /\ \A c \in DOMAIN SetBy : SetBy[c] \in Range(SetBy) /\ SetBy[c] \in Field
                             /\ c \notin DOMAIN SwitchedBy
  /\ \A c \in DOMAIN SwitchedBy : SwitchedBy[c] \in Field /\ SwitchedBy[c] \notin Range(SetBy)
<1>1. Range(SetBy) = {"control", "alt", "shift"}
  BY Tables DEF Range
<1>2. Range(SwitchedBy) = {"caps", "numlock"}
  BY Tables DEF Range
<1>3. QED
  BY <1>1, <1>2, Tables DEF Field

LEMMA Bytes ==
  ASSUME NEW b \in Byte
  PROVE  /\ b.make \in BOOLEAN
         /\ b.code \in DOMAIN SetBy \cup DOMAIN SwitchedBy => b # Prefix
         /\ b # Prefix => b.code \in Codes
<1>1. b = Prefix \/ b \in [code : Codes, make : BOOLEAN]
  BY DEF Byte
<1>2. Prefix.make \in BOOLEAN /\ Prefix.code \notin DOMAIN SetBy \cup DOMAIN SwitchedBy
  BY Tables DEF Prefix
<1>3. QED
  BY <1>1, <1>2

LEMMA NewModsType ==
  ASSUME NEW m \in Mods, NEW b \in Byte
  PROVE  NewMods(m, b) \in Mods
BY Bytes, Fields DEF NewMods, Mods

LEMMA TypedByType ==
  ASSUME NEW m \in Mods, NEW b \in Byte, NEW w \in BOOLEAN, Gives(w, b)
  PROVE  TypedBy(m, b) \in Character
<1>1. b.code \in Plain /\ m["caps"] \in BOOLEAN /\ m["shift"] \in BOOLEAN
  BY Fields DEF Gives, Mods
<1>2. QED
  BY <1>1 DEF TypedBy, Character
-----------------------------------------------------------------------------
(* Runs: of no byte, of one byte more behind, of one byte less in front.   *)

LEMMA RunEmpty ==
  ASSUME NEW m0, NEW w0, NEW out, NEW m, NEW w, Run(<<>>, m0, w0, out, m, w)
  PROVE  m = m0 /\ w = w0 /\ out = <<>>
<1>1. out \in Seq(Character) /\ Len(<<>>) = 0
  BY DEF Run
<1>2. /\ m = m0 /\ w = w0 /\ Len(out) = 0
  BY <1>1 DEF Run
<1>3. QED
  BY <1>1, <1>2, EmptySeq

LEMMA RunBegin ==
  ASSUME NEW m \in Mods
  PROVE  Run(<<>>, m, FALSE, <<>>, m, FALSE)
<1> DEFINE mods == [i \in 0 .. 0 |-> m]
           pre == [i \in 0 .. 0 |-> FALSE]
           num == [i \in 0 .. 0 |-> 0]
<1>1. <<>> \in Seq(Byte) /\ <<>> \in Seq(Character) /\ Len(<<>>) = 0
  BY EmptySeq
<1>2. /\ mods \in [0 .. 0 -> Mods] /\ pre \in [0 .. 0 -> BOOLEAN] /\ num \in [0 .. 0 -> 0 .. 0]
      /\ mods[0] = m /\ pre[0] = FALSE /\ num[0] = 0
  OBVIOUS
<1> HIDE DEF mods, pre, num
<1>3. \A i, j \in 0 .. 0 : num[i] <= num[j]
  BY <1>2
<1>4. QED
  BY <1>1, <1>2, <1>3 DEF Run

LEMMA RunAppend ==
  ASSUME NEW P, NEW m0, NEW w0, NEW out, NEW m \in Mods, NEW w \in BOOLEAN,
         Run(P, m0, w0, out, m, w), NEW b \in Byte, w => IsExt(b)
  PROVE  Run(Append(P, b), m0, w0,
             IF Gives(w, b) THEN Append(out, TypedBy(m, b)) ELSE out,
             NewMods(m, b), b = Prefix)
<1> DEFINE Q == Append(P, b)
           N == Len(P)
           out2 == IF Gives(w, b) THEN Append(out, TypedBy(m, b)) ELSE out
           M == Len(out)
<1>1. PICK mods \in [0 .. Len(P) -> Mods], pre \in [0 .. Len(P) -> BOOLEAN],
           num \in [0 .. Len(P) -> 0 .. Len(out)] :
       /\ mods[0] = m0 /\ pre[0] = w0 /\ num[0] = 0
       /\ mods[Len(P)] = m /\ pre[Len(P)] = w /\ num[Len(P)] = Len(out)
       /\ \A i \in 1 .. Len(P) :
            Turn(P[i], mods[i - 1], pre[i - 1], num[i - 1], out, mods[i], pre[i], num[i])
       /\ \A i, j \in 0 .. Len(P) : i <= j => num[i] <= num[j]
  BY DEF Run
<1>2. /\ P \in Seq(Byte) /\ out \in Seq(Character) /\ N \in Nat /\ M \in Nat
      /\ Q \in Seq(Byte) /\ Len(Q) = N + 1 /\ Q[N + 1] = b /\ \A i \in 1 .. N : Q[i] = P[i]
  BY DEF Run
<1>3. /\ out2 \in Seq(Character) /\ Len(out2) = IF Gives(w, b) THEN M + 1 ELSE M
      /\ \A i \in 1 .. M : out2[i] = out[i]
      /\ Gives(w, b) => out2[M + 1] = TypedBy(m, b)
  BY <1>2, TypedByType
<1> DEFINE mods2 == [i \in 0 .. N + 1 |-> IF i = N + 1 THEN NewMods(m, b) ELSE mods[i]]
           pre2 == [i \in 0 .. N + 1 |-> IF i = N + 1 THEN b = Prefix ELSE pre[i]]
           num2 == [i \in 0 .. N + 1 |-> IF i = N + 1 THEN Len(out2) ELSE num[i]]
<1>4. /\ mods2 \in [0 .. N + 1 -> Mods] /\ mods2[N + 1] = NewMods(m, b)
      /\ \A i \in 0 .. N : mods2[i] = mods[i]
  BY <1>2, NewModsType
<1>5. /\ pre2 \in [0 .. N + 1 -> BOOLEAN] /\ pre2[N + 1] = (b = Prefix)
      /\ \A i \in 0 .. N : pre2[i] = pre[i]
  <2>1. (b = Prefix) \in BOOLEAN /\ N + 1 \in 0 .. N + 1
        /\ \A i \in 0 .. N : i \in 0 .. N + 1 /\ i # N + 1
    BY <1>2
  <2>2. \A i \in 0 .. N + 1 : i # N + 1 => i \in 0 .. N
    BY <1>2
  <2>3. \A i \in 0 .. N : pre[i] \in BOOLEAN
    OBVIOUS
  <2> HIDE DEF N
  <2>4. \A i \in 0 .. N + 1 : (IF i = N + 1 THEN b = Prefix ELSE pre[i]) \in BOOLEAN
    BY <2>1, <2>2, <2>3, Zenon
  <2>5. QED
    BY <2>1, <2>4, Zenon
<1>6. /\ num2 \in [0 .. N + 1 -> 0 .. Len(out2)] /\ num2[N + 1] = Len(out2)
      /\ \A i \in 0 .. N : num2[i] = num[i]
  <2> HIDE DEF out2
  <2>1. \A i \in 0 .. N : num[i] \in 0 .. M
    OBVIOUS
  <2>2. \A i \in 0 .. N : num[i] \in 0 .. Len(out2)
    BY <1>2, <1>3, <2>1
  <2>3. Len(out2) \in 0 .. Len(out2)
    BY <1>2, <1>3
  <2>4. QED
    BY <1>2, <2>2, <2>3
<1> HIDE DEF mods2, pre2, num2, out2, Q, N, M
<1>7. ASSUME NEW i \in 1 .. N + 1
      PROVE  Turn(Q[i], mods2[i - 1], pre2[i - 1], num2[i - 1], out2, mods2[i], pre2[i], num2[i])
  <2>1. CASE i = N + 1
    <3>1. /\ Q[i] = b /\ mods2[i - 1] = m /\ pre2[i - 1] = w /\ num2[i - 1] = M
          /\ mods2[i] = NewMods(m, b) /\ pre2[i] = (b = Prefix)
          /\ num2[i] = IF Gives(w, b) THEN M + 1 ELSE M
      BY <1>1, <1>2, <1>3, <1>4, <1>5, <1>6, <2>1 DEF N, M
    <3>2. QED
      BY <1>3, <3>1 DEF Turn
  <2>2. CASE i # N + 1
    <3>1. i \in 1 .. N /\ i \in 0 .. N /\ i - 1 \in 0 .. N
      BY <1>2, <2>2
    <3>2. /\ Q[i] = P[i] /\ mods2[i - 1] = mods[i - 1] /\ pre2[i - 1] = pre[i - 1]
          /\ num2[i - 1] = num[i - 1]
          /\ mods2[i] = mods[i] /\ pre2[i] = pre[i] /\ num2[i] = num[i]
      BY <1>2, <1>4, <1>5, <1>6, <3>1
    <3>3. Turn(P[i], mods[i - 1], pre[i - 1], num[i - 1], out, mods[i], pre[i], num[i])
      BY <1>1, <3>1 DEF N
    <3>4. num[i - 1] \in 0 .. M /\ num[i] \in 0 .. M
      BY <3>1 DEF N, M
    <3>5. Gives(pre[i - 1], P[i]) => num[i] \in 1 .. M
      BY <1>2, <3>3, <3>4 DEF Turn
    <3>6. Gives(pre[i - 1], P[i]) => out2[num[i]] = out[num[i]]
      BY <1>3, <3>5
    <3>7. QED
      BY <3>2, <3>3, <3>6 DEF Turn
  <2>3. QED
    BY <2>1, <2>2
<1>8. ASSUME NEW i \in 0 .. N + 1, NEW j \in 0 .. N + 1, i <= j
      PROVE  num2[i] <= num2[j]
  <2>1. CASE j = N + 1
    BY <1>2, <1>3, <1>6, <2>1
  <2>2. CASE j # N + 1
    <3>1. i \in 0 .. N /\ j \in 0 .. N
      BY <1>2, <1>8, <2>2
    <3>2. QED
      BY <1>1, <1>6, <1>8, <3>1 DEF N
  <2>3. QED
    BY <2>1, <2>2
<1>9. mods2[0] = m0 /\ pre2[0] = w0 /\ num2[0] = 0
  BY <1>1, <1>2, <1>4, <1>5, <1>6
<1>10. Run(Q, m0, w0, out2, NewMods(m, b), b = Prefix)
  <2>1. Len(Q) = N + 1
    BY <1>2
  <2>2. \A i, j \in 0 .. Len(Q) : i <= j => num2[i] <= num2[j]
    BY <1>8, <2>1, Zenon
  <2>3. \A i \in 1 .. Len(Q) :
          Turn(Q[i], mods2[i - 1], pre2[i - 1], num2[i - 1], out2, mods2[i], pre2[i], num2[i])
    BY <1>7, <2>1, Zenon
  <2>4. /\ mods2 \in [0 .. Len(Q) -> Mods] /\ mods2[Len(Q)] = NewMods(m, b)
        /\ pre2 \in [0 .. Len(Q) -> BOOLEAN] /\ pre2[Len(Q)] = (b = Prefix)
        /\ num2 \in [0 .. Len(Q) -> 0 .. Len(out2)] /\ num2[Len(Q)] = Len(out2)
    BY <1>4, <1>5, <1>6, <2>1, Zenon
  <2>5. Q \in Seq(Byte) /\ out2 \in Seq(Character)
    BY <1>2, <1>3
  <2>6. QED
    BY <1>9, <2>2, <2>3, <2>4, <2>5, Zenon DEF Run
<1>11. QED
  BY <1>10 DEF Q, out2

LEMMA RunTail ==
  ASSUME NEW P \in Seq(Byte), P # <<>>, NEW m0, NEW w0, NEW out, NEW m, NEW w,
         Run(P, m0, w0, out, m, w)
  PROVE  /\ w0 => IsExt(Head(P))
         /\ Gives(w0, Head(P)) => out # <<>> /\ Head(out) = TypedBy(m0, Head(P))
         /\ Run(Tail(P), NewMods(m0, Head(P)), Head(P) = Prefix,
                IF Gives(w0, Head(P)) THEN Tail(out) ELSE out, m, w)
<1> DEFINE Q == Tail(P)
           b == Head(P)
           N == Len(Q)
           out2 == IF Gives(w0, b) THEN Tail(out) ELSE out
           one == IF Gives(w0, b) THEN 1 ELSE 0
<1>1. PICK mods \in [0 .. Len(P) -> Mods], pre \in [0 .. Len(P) -> BOOLEAN],
           num \in [0 .. Len(P) -> 0 .. Len(out)] :
       /\ mods[0] = m0 /\ pre[0] = w0 /\ num[0] = 0
       /\ mods[Len(P)] = m /\ pre[Len(P)] = w /\ num[Len(P)] = Len(out)
       /\ \A i \in 1 .. Len(P) :
            Turn(P[i], mods[i - 1], pre[i - 1], num[i - 1], out, mods[i], pre[i], num[i])
       /\ \A i, j \in 0 .. Len(P) : i <= j => num[i] <= num[j]
  BY DEF Run
<1>2. /\ out \in Seq(Character) /\ Len(out) \in Nat
      /\ Q \in Seq(Byte) /\ N \in Nat /\ Len(P) = N + 1 /\ P[1] = b
      /\ \A i \in 1 .. N : Q[i] = P[i + 1]
  <2>1. out \in Seq(Character)
    BY DEF Run
  <2>2. QED
    BY <2>1, HeadTailProperties
<1> HIDE DEF Q, b, N
<1>3. Turn(b, m0, w0, 0, out, mods[1], pre[1], num[1])
  <2>1. 1 \in 1 .. Len(P) /\ 1 - 1 = 0
    BY <1>2
  <2>2. Turn(P[1], mods[1 - 1], pre[1 - 1], num[1 - 1], out, mods[1], pre[1], num[1])
    BY <1>1, <2>1
  <2>3. QED
    BY <1>1, <1>2, <2>1, <2>2
<1>4. /\ mods[1] = NewMods(m0, b) /\ pre[1] = (b = Prefix) /\ (w0 => IsExt(b))
      /\ num[1] = one /\ (Gives(w0, b) => out[1] = TypedBy(m0, b))
  BY <1>3 DEF Turn
<1>5. \A i \in 1 .. N + 1 : num[i] \in one .. Len(out)
  <2>1. \A i \in 1 .. N + 1 : num[1] <= num[i] /\ num[i] \in 0 .. Len(out)
    BY <1>1, <1>2
  <2>2. QED
    BY <1>2, <1>4, <2>1
<1>6. /\ out2 \in Seq(Character) /\ Len(out2) = Len(out) - one
      /\ \A i \in one + 1 .. Len(out) : out2[i - one] = out[i]
      /\ Gives(w0, b) => out # <<>> /\ Head(out) = TypedBy(m0, b)
  <2>1. CASE Gives(w0, b)
    <3>1. Len(out) >= 1 /\ out # <<>>
      BY <1>2, <1>5, <2>1, EmptySeq
    <3>2. /\ Tail(out) \in Seq(Character) /\ Len(Tail(out)) = Len(out) - 1
          /\ \A i \in 1 .. Len(out) - 1 : Tail(out)[i] = out[i + 1]
      BY <1>2, <3>1, HeadTailProperties
    <3>3. \A i \in 2 .. Len(out) : Tail(out)[i - 1] = out[i]
      <4>1. \A i \in 2 .. Len(out) : i - 1 \in 1 .. Len(out) - 1 /\ (i - 1) + 1 = i
        BY <1>2
      <4>2. QED
        BY <3>2, <4>1
    <3>4. QED
      BY <1>2, <1>4, <2>1, <3>1, <3>2, <3>3
  <2>2. CASE ~ Gives(w0, b)
    BY <1>2, <2>2
  <2>3. QED
    BY <2>1, <2>2
<1>7. one \in {0, 1}
  OBVIOUS
<1> DEFINE mods2 == [i \in 0 .. N |-> mods[i + 1]]
           pre2 == [i \in 0 .. N |-> pre[i + 1]]
           num2 == [i \in 0 .. N |-> num[i + 1] - one]
<1>8. \A i \in 0 .. N : i + 1 \in 1 .. N + 1 /\ i + 1 \in 0 .. Len(P)
  BY <1>2
<1> HIDE DEF one, out2
<1>9. /\ mods2 \in [0 .. N -> Mods] /\ \A i \in 0 .. N : mods2[i] = mods[i + 1]
      /\ pre2 \in [0 .. N -> BOOLEAN] /\ \A i \in 0 .. N : pre2[i] = pre[i + 1]
  BY <1>8
<1>10. /\ num2 \in [0 .. N -> 0 .. Len(out2)] /\ \A i \in 0 .. N : num2[i] = num[i + 1] - one
  <2>1. \A i \in 0 .. N : num[i + 1] - one \in 0 .. Len(out2)
    BY <1>2, <1>5, <1>6, <1>7, <1>8
  <2>2. QED
    BY <2>1
<1> HIDE DEF mods2, pre2, num2
<1>11. ASSUME NEW i \in 1 .. N
       PROVE  Turn(Q[i], mods2[i - 1], pre2[i - 1], num2[i - 1], out2, mods2[i], pre2[i], num2[i])
  <2>1. /\ i \in 0 .. N /\ i - 1 \in 0 .. N /\ i + 1 \in 1 .. Len(P) /\ (i - 1) + 1 = i
        /\ (i + 1) - 1 = i /\ i \in 1 .. N + 1 /\ i + 1 \in 1 .. N + 1
    BY <1>2
  <2>2. Turn(P[i + 1], mods[i], pre[i], num[i], out, mods[i + 1], pre[i + 1], num[i + 1])
    <3>1. Turn(P[i + 1], mods[(i + 1) - 1], pre[(i + 1) - 1], num[(i + 1) - 1], out,
               mods[i + 1], pre[i + 1], num[i + 1])
      BY <1>1, <2>1
    <3>2. QED
      BY <2>1, <3>1
  <2>3. /\ Q[i] = P[i + 1] /\ mods2[i - 1] = mods[i] /\ pre2[i - 1] = pre[i]
        /\ num2[i - 1] = num[i] - one
        /\ mods2[i] = mods[i + 1] /\ pre2[i] = pre[i + 1] /\ num2[i] = num[i + 1] - one
    BY <1>2, <1>9, <1>10, <2>1
  <2>4. num[i] \in one .. Len(out) /\ num[i + 1] \in one .. Len(out)
    BY <1>5, <2>1
  <2>5. Gives(pre[i], P[i + 1]) => num[i + 1] = num[i] + 1 /\ num[i + 1] \in one + 1 .. Len(out)
    BY <1>2, <1>7, <2>2, <2>4 DEF Turn
  <2>6. Gives(pre[i], P[i + 1]) => out2[num[i + 1] - one] = out[num[i + 1]]
    BY <1>6, <2>5
  <2>7. num[i + 1] - one = IF Gives(pre[i], P[i + 1]) THEN (num[i] - one) + 1 ELSE num[i] - one
    BY <1>2, <1>7, <2>2, <2>4 DEF Turn
  <2>8. QED
    BY <2>2, <2>3, <2>6, <2>7 DEF Turn
<1>12. ASSUME NEW i \in 0 .. N, NEW j \in 0 .. N, i <= j
       PROVE  num2[i] <= num2[j]
  <2>1. num[i + 1] <= num[j + 1]
    <3>1. i + 1 \in 0 .. Len(P) /\ j + 1 \in 0 .. Len(P) /\ i + 1 <= j + 1
      BY <1>2, <1>12
    <3>2. QED
      BY <1>1, <3>1
  <2>2. num[i + 1] \in one .. Len(out) /\ num[j + 1] \in one .. Len(out)
    BY <1>5, <1>8
  <2>3. num2[i] = num[i + 1] - one /\ num2[j] = num[j + 1] - one
    BY <1>10
  <2>4. num[i + 1] \in Int /\ num[j + 1] \in Int /\ one \in Int
    BY <1>2, <1>7, <2>2
  <2>5. QED
    BY <2>1, <2>3, <2>4
<1>13. /\ mods2[0] = NewMods(m0, b) /\ pre2[0] = (b = Prefix) /\ num2[0] = 0
       /\ mods2[N] = m /\ pre2[N] = w /\ num2[N] = Len(out2)
  <2>1. 0 \in 0 .. N /\ N \in 0 .. N /\ 0 + 1 = 1
    BY <1>2
  <2>2. mods2[0] = NewMods(m0, b) /\ pre2[0] = (b = Prefix)
    BY <1>4, <1>9, <2>1
  <2>3. num2[0] = 0 /\ num2[N] = Len(out2)
    <3>1. num2[0] = num[1] - one /\ num2[N] = num[N + 1] - one
      BY <1>10, <2>1
    <3>2. num[1] = one /\ num[N + 1] = Len(out)
      BY <1>1, <1>2, <1>4
    <3>3. QED
      BY <1>6, <1>7, <3>1, <3>2
  <2>4. mods2[N] = m /\ pre2[N] = w
    BY <1>1, <1>2, <1>9, <2>1
  <2>5. QED
    BY <2>2, <2>3, <2>4
<1>14. Run(Q, NewMods(m0, b), b = Prefix, out2, m, w)
  BY <1>2, <1>6, <1>9, <1>10, <1>11, <1>12, <1>13 DEF Run, N
<1>15. QED
  BY <1>4, <1>6, <1>14 DEF Q, b, out2
-----------------------------------------------------------------------------
(* What a byte does to the modifiers.                                      *)

LEMMA ModAfter ==
  ASSUME NEW m \in Mods, NEW b \in Byte, NEW f \in Range(SetBy)
  PROVE  NewMods(m, b)[f] = IF b.code \in DOMAIN SetBy /\ SetBy[b.code] = f THEN b.make ELSE m[f]
<1>1. f \in Field
  BY Fields
<1>2. CASE b = Prefix
  BY <1>2, Bytes DEF NewMods
<1>3. CASE b # Prefix /\ b.code \in DOMAIN SetBy
  <2>1. NewMods(m, b) = [m EXCEPT ![SetBy[b.code]] = b.make]
    BY <1>3 DEF NewMods
  <2>2. QED
    BY <1>1, <1>3, <2>1 DEF Mods
<1>4. CASE b # Prefix /\ b.code \notin DOMAIN SetBy
  <2>1. CASE b.code \in DOMAIN SwitchedBy /\ b.make
    <3>1. /\ NewMods(m, b) = [m EXCEPT ![SwitchedBy[b.code]] = ~ m[SwitchedBy[b.code]]]
          /\ SwitchedBy[b.code] # f
      BY <1>4, <2>1, Fields DEF NewMods
    <3>2. QED
      BY <1>1, <1>4, <3>1 DEF Mods
  <2>2. CASE ~ (b.code \in DOMAIN SwitchedBy /\ b.make)
    BY <1>4, <2>2 DEF NewMods
  <2>3. QED
    BY <2>1, <2>2
<1>5. QED
  BY <1>2, <1>3, <1>4

LEMMA CapsAfter ==
  ASSUME NEW m \in Mods, NEW b \in Byte
  PROVE  NewMods(m, b)["caps"] = IF b.code = "0x3a" /\ b.make THEN ~ m["caps"] ELSE m["caps"]
<1>1. "caps" \in Field /\ "caps" \notin Range(SetBy)
  BY Fields
<1>2. CASE b = Prefix
  BY <1>2, Bytes, Tables DEF NewMods
<1>3. CASE b # Prefix /\ b.code \in DOMAIN SetBy
  <2>1. NewMods(m, b) = [m EXCEPT ![SetBy[b.code]] = b.make] /\ SetBy[b.code] # "caps"
    BY <1>1, <1>3, Fields DEF NewMods
  <2>2. b.code # "0x3a"
    BY <1>3, Tables
  <2>3. QED
    BY <1>1, <2>1, <2>2 DEF Mods
<1>4. CASE b # Prefix /\ b.code \notin DOMAIN SetBy
  <2>1. CASE b.code \in DOMAIN SwitchedBy /\ b.make
    <3>1. /\ NewMods(m, b) = [m EXCEPT ![SwitchedBy[b.code]] = ~ m[SwitchedBy[b.code]]]
          /\ SwitchedBy[b.code] = "caps" <=> b.code = "0x3a"
      BY <1>4, <2>1, Tables DEF NewMods
    <3>2. QED
      BY <1>1, <2>1, <3>1 DEF Mods
  <2>2. CASE ~ (b.code \in DOMAIN SwitchedBy /\ b.make)
    BY <1>4, <2>2, Tables DEF NewMods
  <2>3. QED
    BY <2>1, <2>2
<1>5. QED
  BY <1>2, <1>3, <1>4
-----------------------------------------------------------------------------
(* Bytes that are sent.                                                    *)

LEMMA PendingType ==
  ASSUME Types
  PROVE  Pending \in Seq(Byte)
<1>1. <<port>> \in Seq(Byte) /\ <<>> \in Seq(Byte) /\ line \in Seq(Byte)
  BY DEF Types
<1>2. QED
  BY <1>1, ConcatProperties DEF Pending

LEMMA ConcatAppend ==
  ASSUME NEW f \in Seq(Byte), NEW s \in Seq(Byte), NEW b \in Byte
  PROVE  f \o Append(s, b) = Append(f \o s, b)
<1>1. <<b>> \in Seq(Byte)
  OBVIOUS
<1>2. f \o s \in Seq(Byte)
  BY ConcatProperties
<1>3. Append(s, b) = s \o <<b>>
  BY AppendIsConcat
<1>4. Append(f \o s, b) = (f \o s) \o <<b>>
  BY <1>2, AppendIsConcat
<1>5. (f \o s) \o <<b>> = f \o (s \o <<b>>)
  BY <1>1, ConcatAssociative
<1>6. QED
  BY <1>3, <1>4, <1>5

LEMMA Sent ==
  ASSUME Types, NEW k \in Keys, NEW make \in BOOLEAN, Send(k, make)
  PROVE  /\ [code |-> k.code, make |-> make] \in Byte
         /\ [code |-> k.code, make |-> make] # Prefix
         /\ line' \in Seq(Byte)
         /\ Pending' = Append(IF k.ext THEN Append(Pending, Prefix) ELSE Pending,
                              [code |-> k.code, make |-> make])
<1> DEFINE b == [code |-> k.code, make |-> make]
           f == IF full THEN <<port>> ELSE <<>>
<1>1. b \in Byte /\ b.code = k.code /\ b.make = make
  BY DEF Byte, Codes
<1>2. b # Prefix /\ Prefix \in Byte
  BY <1>1, KeyboardAssumption DEF Prefix, Byte
<1>3. /\ line' = (line \o (IF k.ext THEN <<Prefix>> ELSE <<>>)) \o <<b>>
      /\ UNCHANGED <<port, full>> /\ line \in Seq(Byte)
  BY DEF Send, Types
<1> HIDE DEF b
<1>4. CASE k.ext
  <2>1. line' = Append(Append(line, Prefix), b)
    BY <1>1, <1>2, <1>3, <1>4, AppendIsConcat, ConcatProperties
  <2>2. f \in Seq(Byte) /\ f \o line = Pending
    BY DEF Types, Pending
  <2>3. Append(line, Prefix) \in Seq(Byte)
    BY <1>2, <1>3
  <2> HIDE DEF f
  <2>4. f \o Append(Append(line, Prefix), b) = Append(Append(Pending, Prefix), b)
    <3>1. f \o Append(Append(line, Prefix), b) = Append(f \o Append(line, Prefix), b)
      BY <1>1, <2>2, <2>3, ConcatAppend
    <3>2. f \o Append(line, Prefix) = Append(f \o line, Prefix)
      BY <1>2, <1>3, <2>2, ConcatAppend
    <3>3. QED
      BY <2>2, <3>1, <3>2
  <2>5. Pending' = f \o line'
    BY <1>3 DEF Pending, f
  <2>6. line' \in Seq(Byte)
    BY <1>1, <2>1, <2>3
  <2>7. QED
    BY <1>1, <1>2, <1>4, <2>1, <2>4, <2>5, <2>6 DEF b
<1>5. CASE ~ k.ext
  <2>1. line' = Append(line, b)
    BY <1>1, <1>3, <1>5, AppendIsConcat, ConcatEmptySeq
  <2>2. Pending' = f \o line'
    BY <1>3 DEF Pending
  <2>3. f \o Append(line, b) = Append(Pending, b)
    <3>1. f \in Seq(Byte) /\ f \o line = Pending
      BY DEF Types, Pending
    <3>2. QED
      BY <1>1, <1>3, <3>1, ConcatAppend
  <2>4. line' \in Seq(Byte)
    BY <1>1, <1>3, <2>1
  <2>5. QED
    BY <1>1, <1>2, <1>5, <2>1, <2>2, <2>3, <2>4 DEF b
<1>6. QED
  BY <1>4, <1>5

LEMMA SendRuns ==
  ASSUME Types, NEW k \in Keys, NEW make \in BOOLEAN, Send(k, make),
         NEW m0, NEW out, NEW m \in Mods, Run(Pending, m0, waiting, out, m, FALSE),
         NEW b, b = [code |-> k.code, make |-> make]
  PROVE  Run(Pending', m0, waiting',
             IF make /\ k.code \in Plain THEN Append(out, TypedBy(m, b)) ELSE out,
             NewMods(m, b), FALSE)
<1>1. /\ b \in Byte /\ b # Prefix /\ b.code = k.code /\ b.make = make
      /\ Pending' = Append(IF k.ext THEN Append(Pending, Prefix) ELSE Pending, b)
      /\ waiting' = waiting
  <2>1. b.code = k.code /\ b.make = make /\ waiting' = waiting
    BY DEF Send
  <2>2. QED
    BY <2>1, Sent
<1>2. (b = Prefix) = FALSE
  BY <1>1
<1>3. CASE k.ext
  <2>1. ~ Gives(FALSE, Prefix) /\ NewMods(m, Prefix) = m /\ Prefix \in Byte
        /\ (Prefix = Prefix) = TRUE
    BY DEF Gives, NewMods, Byte
  <2>2. Run(Append(Pending, Prefix), m0, waiting, out, m, TRUE)
    <3>1. Run(Append(Pending, Prefix), m0, waiting,
              IF Gives(FALSE, Prefix) THEN Append(out, TypedBy(m, Prefix)) ELSE out,
              NewMods(m, Prefix), Prefix = Prefix)
      BY <2>1, RunAppend
    <3>2. QED
      BY <2>1, <3>1
  <2>3. ~ Gives(TRUE, b) /\ k.code \notin Plain /\ IsExt(b)
    BY <1>1, <1>3 DEF Gives, Plain, IsExt
  <2>4. Run(Append(Append(Pending, Prefix), b), m0, waiting,
            IF Gives(TRUE, b) THEN Append(out, TypedBy(m, b)) ELSE out,
            NewMods(m, b), b = Prefix)
    BY <1>1, <2>2, <2>3, RunAppend
  <2>5. QED
    BY <1>1, <1>2, <1>3, <2>3, <2>4
<1>4. CASE ~ k.ext
  <2>1. Gives(FALSE, b) <=> make /\ k.code \in Plain
    BY <1>1 DEF Gives
  <2>2. Run(Append(Pending, b), m0, waiting,
            IF Gives(FALSE, b) THEN Append(out, TypedBy(m, b)) ELSE out,
            NewMods(m, b), b = Prefix)
    BY <1>1, RunAppend
  <2>3. QED
    BY <1>1, <1>2, <1>4, <2>1, <2>2
<1>5. QED
  BY <1>3, <1>4
-----------------------------------------------------------------------------
(* The actions.                                                            *)

(* A key leaves the flags as they are held down, when they were before.    *)
LEMMA FollowsKey ==
  ASSUME NEW m \in Mods, FollowKeys(m), down \subseteq Keys, NEW k \in Keys,
         NEW make \in BOOLEAN, down' = IF make THEN down \cup {k} ELSE down \ {k},
         NEW b \in Byte, b.code = k.code, b.make = make
  PROVE  FollowKeys(NewMods(m, b))'
<1>1. SUFFICES ASSUME NEW f \in Range(SetBy)
               PROVE  /\ NewMods(m, b)[f] => KeysOf(f) \cap down' # {}
                      /\ KeysOf(f) # {} /\ KeysOf(f) \subseteq down' => NewMods(m, b)[f]
  BY DEF FollowKeys, KeysOf, SetBy
<1>2. /\ m[f] => KeysOf(f) \cap down # {}
      /\ KeysOf(f) # {} /\ KeysOf(f) \subseteq down => m[f]
  BY DEF FollowKeys
<1>3. NewMods(m, b)[f] = IF b.code \in DOMAIN SetBy /\ SetBy[b.code] = f THEN b.make ELSE m[f]
  BY ModAfter
<1>4. k \in KeysOf(f) <=> b.code \in DOMAIN SetBy /\ SetBy[b.code] = f
  BY DEF KeysOf
<1>5. QED
  BY <1>2, <1>3, <1>4

LEMMA InitIInv == Init => IInv
<1> SUFFICES ASSUME Init PROVE IInv
  OBVIOUS
<1>1. State \in Mods /\ Types
  BY EmptySeq DEF Init, Types, Mods, Byte
<1>2. Reread /\ ReadOnce
  BY Tables DEF Init, Reread, ReadOnce, Prefix
<1>3. Pending = <<>> /\ waiting = FALSE /\ owed = <<>>
  BY EmptySeq, ConcatEmptySeq DEF Init, Pending
<1>4. Run(Pending, State, waiting, owed, State, FALSE)
  BY <1>1, <1>3, RunBegin
<1>5. FollowKeys(State)
  BY Fields DEF FollowKeys, Init
<1>6. State["caps"] = lock
  BY Fields DEF Init
<1>7. Coming
  BY <1>1, <1>4, <1>5, <1>6 DEF Coming, Types
<1>8. QED
  BY <1>1, <1>2, <1>7 DEF IInv

(* What the user types joins what is owed. *)
LEMMA PressIInv ==
  ASSUME IInv, NEW k \in Keys, Press(k)
  PROVE  IInv'
<1> DEFINE b == [code |-> k.code, make |-> TRUE]
           c == [code |-> k.code, upper |-> lock \/ ShiftDown]
<1>1. /\ Types /\ Send(k, TRUE) /\ UNCHANGED <<port, full, irq, waiting, State>>
      /\ down' = down \cup {k}
      /\ lock' = (IF k.code = "0x3a" THEN ~ lock ELSE lock)
      /\ owed' = IF k.code \in Plain THEN Append(owed, c) ELSE owed
  BY DEF IInv, Press, Send
<1>2. b \in Byte /\ b # Prefix /\ b.code = k.code /\ b.make = TRUE /\ line' \in Seq(Byte)
  BY <1>1, Sent
<1>3. Types'
  <2>1. (lock \/ ShiftDown) \in BOOLEAN /\ lock' \in BOOLEAN
    BY <1>1 DEF Types
  <2>2. owed \in Seq(Character) /\ (k.code \in Plain => c \in Character)
    BY <1>1, <2>1 DEF Types, Character
  <2>3. owed' \in Seq(Character)
    <3> HIDE DEF c
    <3>1. QED
      BY <1>1, <2>2
  <2>4. QED
    BY <1>1, <1>2, <2>1, <2>3 DEF Types
<1>4. Reread' /\ ReadOnce'
  BY <1>1 DEF IInv, Reread, ReadOnce
<1>5. PICK m0 \in Mods, m \in Mods, out \in Seq(Character) :
        /\ Run(Pending, m0, waiting, out, m, FALSE)
        /\ \A f \in Range(SetBy) : m0[f] = State[f]
        /\ FollowKeys(m)
        /\ OrdinaryKeys => m0 = State /\ out = owed /\ m["caps"] = lock
  BY DEF IInv, Coming
<1> HIDE DEF b
<1> DEFINE out2 == IF k.code \in Plain THEN Append(out, TypedBy(m, b)) ELSE out
<1>6. Run(Pending', m0, waiting', out2, NewMods(m, b), FALSE)
  BY <1>1, <1>5, SendRuns DEF b
<1>7. NewMods(m, b) \in Mods /\ out2 \in Seq(Character)
  BY <1>2, <1>6, NewModsType DEF Run
<1>8. FollowKeys(NewMods(m, b))'
  <2>1. down \subseteq Keys /\ down' = (IF TRUE THEN down \cup {k} ELSE down \ {k})
    BY <1>1 DEF Types
  <2>2. QED
    BY <1>2, <1>5, <2>1, FollowsKey
<1>9. ASSUME OrdinaryKeys
      PROVE  m0 = State' /\ out2 = owed' /\ NewMods(m, b)["caps"] = lock'
  <2>1. m0 = State /\ out = owed /\ m["caps"] = lock
    BY <1>5, <1>9
  <2>2. NewMods(m, b)["caps"] = lock'
    BY <1>1, <1>2, <2>1, CapsAfter
  <2>3. m["shift"] <=> ShiftDown
    BY <1>1, <1>5, <1>9, Fields DEF FollowKeys, OrdinaryKeys, KeysOf, ShiftDown, Types
  <2>4. m["shift"] \in BOOLEAN /\ m["caps"] \in BOOLEAN /\ lock \in BOOLEAN
    BY <1>1, Fields DEF Mods, Types
  <2>5. TypedBy(m, b) = c
    <3>1. (m["caps"] \/ m["shift"]) = (lock \/ ShiftDown)
      BY <2>1, <2>3, <2>4
    <3>2. QED
      BY <1>2, <3>1, Zenon DEF TypedBy
  <2>6. QED
    BY <1>1, <2>1, <2>2, <2>5
<1> HIDE DEF out2
<1>10. Coming'
  BY <1>1, <1>5, <1>6, <1>7, <1>8, <1>9 DEF Coming, OrdinaryKeys, KeysOf, SetBy, SwitchedBy
<1>11. QED
  BY <1>3, <1>4, <1>10 DEF IInv

LEMMA ReleaseIInv ==
  ASSUME IInv, NEW k \in Keys, Release(k)
  PROVE  IInv'
<1> DEFINE b == [code |-> k.code, make |-> FALSE]
<1>1. /\ Types /\ Send(k, FALSE) /\ UNCHANGED <<port, full, irq, waiting, State>>
      /\ down' = down \ {k} /\ UNCHANGED <<lock, owed>>
  BY DEF IInv, Release, Send
<1>2. b \in Byte /\ b # Prefix /\ b.code = k.code /\ b.make = FALSE /\ line' \in Seq(Byte)
  BY <1>1, Sent
<1>3. Types'
  BY <1>1, <1>2 DEF Types
<1>4. Reread' /\ ReadOnce'
  BY <1>1 DEF IInv, Reread, ReadOnce
<1>5. PICK m0 \in Mods, m \in Mods, out \in Seq(Character) :
        /\ Run(Pending, m0, waiting, out, m, FALSE)
        /\ \A f \in Range(SetBy) : m0[f] = State[f]
        /\ FollowKeys(m)
        /\ OrdinaryKeys => m0 = State /\ out = owed /\ m["caps"] = lock
  BY DEF IInv, Coming
<1> HIDE DEF b
<1>6. Run(Pending', m0, waiting', out, NewMods(m, b), FALSE)
  BY <1>1, <1>5, SendRuns DEF b
<1>7. NewMods(m, b) \in Mods
  BY <1>2, NewModsType
<1>8. FollowKeys(NewMods(m, b))'
  <2>1. down \subseteq Keys /\ down' = (IF FALSE THEN down \cup {k} ELSE down \ {k})
    BY <1>1 DEF Types
  <2>2. QED
    BY <1>2, <1>5, <2>1, FollowsKey
<1>9. ASSUME OrdinaryKeys
      PROVE  m0 = State' /\ out = owed' /\ NewMods(m, b)["caps"] = lock'
  BY <1>1, <1>2, <1>5, <1>9, CapsAfter
<1>10. Coming'
  BY <1>1, <1>5, <1>6, <1>7, <1>8, <1>9 DEF Coming, OrdinaryKeys, KeysOf, SetBy, SwitchedBy
<1>11. QED
  BY <1>3, <1>4, <1>10 DEF IInv

(* A byte moves from the line into the port, or a request is dropped:      *)
(* the handler still gets the same bytes.                                  *)
LEMMA MoveIInv ==
  ASSUME IInv, Arrive \/ Drop
  PROVE  IInv'
<1>1. Types /\ UNCHANGED <<user, waiting, State, owed>>
  BY DEF IInv, Arrive, Drop
<1>2. Types' /\ Pending' = Pending
  <2>1. CASE Arrive
    <3>1. /\ line # <<>> /\ full = FALSE /\ full' = TRUE /\ irq' = TRUE
          /\ line \in Seq(Byte) /\ line' = Tail(line) /\ port' = Head(line)
      BY <1>1, <2>1 DEF Arrive, Types
    <3>2. line' \in Seq(Byte) /\ port' \in Byte /\ <<Head(line)>> \o Tail(line) = line
      BY <3>1
    <3>3. Pending = line
      BY <3>1, ConcatEmptySeq DEF Pending
    <3>4. Types'
      BY <1>1, <3>1, <3>2 DEF Types, user
    <3>5. QED
      BY <3>1, <3>2, <3>3, <3>4 DEF Pending
  <2>2. CASE Drop
    BY <1>1, <2>2 DEF Drop, Types, Pending, user
  <2>3. QED
    BY <2>1, <2>2
<1>3. Reread' /\ ReadOnce'
  BY <1>1 DEF IInv, Reread, ReadOnce, Arrive, Drop
<1>4. Coming'
  <2>1. PICK m0 \in Mods, m \in Mods, out \in Seq(Character) :
          /\ Run(Pending, m0, waiting, out, m, FALSE)
          /\ \A f \in Range(SetBy) : m0[f] = State[f]
          /\ FollowKeys(m)
          /\ OrdinaryKeys => m0 = State /\ out = owed /\ m["caps"] = lock
    BY DEF IInv, Coming
  <2>2. /\ waiting' = waiting /\ State' = State /\ owed' = owed /\ lock' = lock /\ down' = down
    BY <1>1 DEF user
  <2>3. FollowKeys(m)'
    BY <2>1, <2>2 DEF FollowKeys
  <2>4. QED
    BY <1>2, <2>1, <2>2, <2>3 DEF Coming
<1>5. QED
  BY <1>2, <1>3, <1>4 DEF IInv

(* The handler does one turn with the byte in the port.                    *)
LEMMA Handled ==
  ASSUME Types, HandleInput
  PROVE  /\ MayRead /\ full' = FALSE /\ irq' = (irq /\ waiting)
         /\ UNCHANGED <<user, line, port>>
         /\ waiting' = (port = Prefix)
         /\ State' = NewMods(State, port)
         /\ owed' = IF ~ Gives(waiting, port) THEN owed
                    ELSE IF owed # <<>> /\ Head(owed) = TypedBy(State, port) THEN Tail(owed)
                    ELSE <<TypedBy(State, port)>> \o owed
         /\ Types'
<1>1. /\ MayRead /\ full' = FALSE /\ irq' = (irq /\ waiting)
      /\ UNCHANGED <<user, line, port>>
  BY DEF HandleInput
<1>2. /\ waiting' = (port = Prefix)
      /\ State' = NewMods(State, port)
      /\ owed' = IF ~ Gives(waiting, port) THEN owed
                 ELSE IF owed # <<>> /\ Head(owed) = TypedBy(State, port) THEN Tail(owed)
                 ELSE <<TypedBy(State, port)>> \o owed
  <2>1. CASE ReadPrefix
    BY <2>1 DEF ReadPrefix, NewMods, Gives
  <2>2. CASE ReadCode
    <3>1. port # Prefix /\ waiting' = FALSE
      BY <2>2 DEF ReadCode, Loops
    <3>2. State' = NewMods(State, port)
      <4>1. CASE port.code \in DOMAIN SetBy
        BY <2>2, <3>1, <4>1, Fields DEF ReadCode, NewMods, Make
      <4>2. CASE port.code \in DOMAIN SwitchedBy
        BY <2>2, <3>1, <4>2, Fields DEF ReadCode, NewMods, Make
      <4>3. CASE port.code \notin DOMAIN SetBy \cup DOMAIN SwitchedBy
        BY <2>2, <3>1, <4>3 DEF ReadCode, NewMods, Make
      <4>4. QED
        BY <4>1, <4>2, <4>3
    <3>3. /\ Gives(waiting, port) <=> Make /\ ~ waiting /\ port.code \in Plain
          /\ Typed = TypedBy(State, port)
      BY <3>1 DEF Gives, Make, Typed, TypedBy
    <3>4. CASE Gives(waiting, port)
      BY <2>2, <3>1, <3>2, <3>3, <3>4 DEF ReadCode, HandOver, tty_input
    <3>5. CASE ~ Gives(waiting, port)
      BY <2>2, <3>1, <3>2, <3>3, <3>5 DEF ReadCode, HandOver
    <3>6. QED
      BY <3>4, <3>5
  <2>3. QED
    BY <2>1, <2>2 DEF HandleInput
<1>3. Types'
  <2>1. /\ down' \subseteq Keys /\ lock' \in BOOLEAN
        /\ line' \in Seq(Byte) /\ port' \in Byte
        /\ full' \in BOOLEAN /\ irq' \in BOOLEAN /\ waiting' \in BOOLEAN
    BY <1>1, <1>2 DEF Types, user
  <2>2. State' \in Mods
    BY <1>2, NewModsType DEF Types
  <2>3. owed' \in Seq(Character)
    <3>1. CASE ~ Gives(waiting, port)
      BY <1>2, <3>1 DEF Types
    <3>2. CASE Gives(waiting, port)
      <4>1. TypedBy(State, port) \in Character /\ owed \in Seq(Character)
        BY <3>2, TypedByType DEF Types
      <4>2. /\ owed # <<>> => Tail(owed) \in Seq(Character)
            /\ <<TypedBy(State, port)>> \o owed \in Seq(Character)
        BY <4>1, ConcatProperties, HeadTailProperties
      <4>3. QED
        BY <1>2, <3>2, <4>1, <4>2
    <3>3. QED
      BY <3>1, <3>2
  <2>4. QED
    BY <2>1, <2>2, <2>3 DEF Types
<1>4. QED
  BY <1>1, <1>2, <1>3

LEMMA HandleIInv ==
  ASSUME IInv, HandleInput
  PROVE  IInv'
<1>1. /\ Types /\ port \in Byte /\ State \in Mods /\ line \in Seq(Byte)
      /\ full \in BOOLEAN /\ waiting \in BOOLEAN
  BY DEF IInv, Types
<1>2. /\ MayRead /\ full' = FALSE /\ irq' = (irq /\ waiting)
      /\ down' = down /\ lock' = lock /\ line' = line /\ port' = port
      /\ waiting' = (port = Prefix)
      /\ State' = NewMods(State, port)
      /\ owed' = IF ~ Gives(waiting, port) THEN owed
                 ELSE IF owed # <<>> /\ Head(owed) = TypedBy(State, port) THEN Tail(owed)
                 ELSE <<TypedBy(State, port)>> \o owed
      /\ Types'
  BY <1>1, Handled DEF user
<1>3. PICK m0 \in Mods, m \in Mods, out \in Seq(Character) :
        /\ Run(Pending, m0, waiting, out, m, FALSE)
        /\ \A f \in Range(SetBy) : m0[f] = State[f]
        /\ FollowKeys(m)
        /\ OrdinaryKeys => m0 = State /\ out = owed /\ m["caps"] = lock
  BY DEF IInv, Coming
<1>4. FollowKeys(m)'
  BY <1>2, <1>3 DEF FollowKeys
<1>5. ReadOnce'
  <2>1. ASSUME port.code \in DOMAIN SetBy
        PROVE  State'[SetBy[port.code]] = port.make
    BY <1>1, <1>2, <2>1, Fields, ModAfter
  <2>2. QED
    BY <1>2, <2>1 DEF ReadOnce
<1>6. Pending' = line
  BY <1>1, <1>2, ConcatEmptySeq DEF Pending
<1>7. CASE full
  <2>1. Pending \in Seq(Byte) /\ Pending # <<>> /\ Head(Pending) = port /\ Tail(Pending) = line
    <3>1. Pending = <<port>> \o line
      BY <1>7 DEF Pending
    <3>2. QED
      BY <1>1, <3>1
  <2> DEFINE out2 == IF Gives(waiting, port) THEN Tail(out) ELSE out
  <2>2. /\ waiting => IsExt(port)
        /\ Gives(waiting, port) => out # <<>> /\ Head(out) = TypedBy(m0, port)
        /\ Run(line, NewMods(m0, port), port = Prefix, out2, m, FALSE)
    <3>1. /\ waiting => IsExt(Head(Pending))
          /\ Gives(waiting, Head(Pending)) =>
               out # <<>> /\ Head(out) = TypedBy(m0, Head(Pending))
          /\ Run(Tail(Pending), NewMods(m0, Head(Pending)), Head(Pending) = Prefix,
                 IF Gives(waiting, Head(Pending)) THEN Tail(out) ELSE out, m, FALSE)
      BY <1>3, <2>1, RunTail
    <3>2. QED
      BY <2>1, <3>1
  <2>3. Reread'
    BY <1>2, <2>2 DEF Reread, IsExt
  <2>4. NewMods(m0, port) \in Mods /\ out2 \in Seq(Character)
    BY <1>1, <2>2, NewModsType DEF Run
  <2>5. \A f \in Range(SetBy) : NewMods(m0, port)[f] = State'[f]
    BY <1>1, <1>2, <1>3, ModAfter
  <2>6. OrdinaryKeys => NewMods(m0, port) = State' /\ out2 = owed' /\ m["caps"] = lock'
    BY <1>2, <1>3, <2>2
  <2> HIDE DEF out2
  <2>7. Run(Pending', NewMods(m0, port), waiting', out2, m, FALSE)
    BY <1>2, <1>6, <2>2
  <2>8. Coming'
    BY <1>4, <2>4, <2>5, <2>6, <2>7 DEF Coming
  <2>9. QED
    BY <1>2, <1>5, <2>3, <2>8 DEF IInv
<1>8. CASE ~ full
  <2>1. /\ waiting = FALSE /\ irq /\ IsExt(port) /\ Pending = line
    BY <1>1, <1>2, <1>8, ConcatEmptySeq DEF MayRead, IInv, Reread, Pending
  <2>2. /\ port # Prefix /\ waiting' = FALSE /\ irq' = FALSE /\ ~ Gives(waiting, port)
        /\ owed' = owed
    BY <1>2, <2>1 DEF IsExt, Gives, Plain
  <2>3. port.code \in DOMAIN SetBy => State[SetBy[port.code]] = port.make
    BY <1>8 DEF IInv, ReadOnce
  <2>4. \A f \in Range(SetBy) : State'[f] = State[f]
    BY <1>1, <1>2, <2>3, ModAfter
  <2>5. OrdinaryKeys => State' = State
    <3>1. OrdinaryKeys => port.code \notin DOMAIN SwitchedBy
      BY <2>1 DEF OrdinaryKeys, IsExt
    <3>2. CASE port.code \in DOMAIN SetBy
      BY <1>1, <1>2, <2>2, <2>3, <3>2 DEF NewMods, Mods
    <3>3. CASE port.code \notin DOMAIN SetBy
      BY <1>2, <2>2, <3>1, <3>3 DEF NewMods
    <3>4. QED
      BY <3>2, <3>3
  <2>6. Run(Pending', m0, waiting', out, m, FALSE)
    BY <1>3, <1>6, <2>1, <2>2
  <2>7. Coming'
    BY <1>2, <1>3, <1>4, <2>2, <2>4, <2>5, <2>6 DEF Coming
  <2>8. QED
    BY <1>2, <1>5, <2>2, <2>7 DEF IInv, Reread
<1>9. QED
  BY <1>7, <1>8

LEMMA Inductive == IInv /\ [Next]_vars => IInv'
<1> SUFFICES ASSUME IInv, [Next]_vars PROVE IInv'
  OBVIOUS
<1>1. CASE \E k \in Keys : Press(k) \/ Release(k)
  BY <1>1, PressIInv, ReleaseIInv
<1>2. CASE Arrive \/ Drop
  BY <1>2, MoveIInv
<1>3. CASE HandleInput
  BY <1>3, HandleIInv
<1>4. CASE UNCHANGED vars
  <2>1. /\ UNCHANGED <<down, lock, line, port, full, irq, waiting, State, owed>>
    BY <1>4 DEF vars, user
  <2>2. Pending' = Pending
    BY <2>1 DEF Pending
  <2>3. Types' /\ Reread' /\ ReadOnce'
    BY <2>1 DEF IInv, Types, Reread, ReadOnce
  <2>4. \A m : FollowKeys(m) => FollowKeys(m)'
    BY <2>1 DEF FollowKeys
  <2>5. PICK m0 \in Mods, m \in Mods, out \in Seq(Character) :
          /\ Run(Pending, m0, waiting, out, m, FALSE)
          /\ \A f \in Range(SetBy) : m0[f] = State[f]
          /\ FollowKeys(m)
          /\ OrdinaryKeys => m0 = State /\ out = owed /\ m["caps"] = lock
    BY DEF IInv, Coming
  <2>6. FollowKeys(m)'
    BY <2>1, <2>5 DEF FollowKeys
  <2>7. Coming'
    BY <2>1, <2>2, <2>5, <2>6 DEF Coming
  <2>8. QED
    BY <2>3, <2>7 DEF IInv
<1>5. QED
  BY <1>1, <1>2, <1>3, <1>4 DEF Next

(* Nothing is on its way: the run is empty.                                *)
LEMMA AtRest ==
  ASSUME IInv, Quiet
  PROVE  FollowKeys(State) /\ (OrdinaryKeys => owed = <<>>)
<1>1. Pending = <<>>
  BY ConcatEmptySeq DEF Pending, Quiet
<1>2. PICK m0 \in Mods, m \in Mods, out \in Seq(Character) :
        /\ Run(Pending, m0, waiting, out, m, FALSE)
        /\ \A f \in Range(SetBy) : m0[f] = State[f]
        /\ FollowKeys(m)
        /\ OrdinaryKeys => m0 = State /\ out = owed /\ m["caps"] = lock
  BY DEF IInv, Coming
<1>3. m = m0 /\ out = <<>>
  <2>1. PICK w : w = FALSE
    OBVIOUS
  <2>2. Run(<<>>, m0, waiting, out, m, w)
    BY <1>1, <1>2, <2>1
  <2>3. QED
    BY <2>2, RunEmpty
<1>4. QED
  BY <1>2, <1>3 DEF FollowKeys
-----------------------------------------------------------------------------
(* When every byte has been handled, a modifier of the kernel is set if    *)
(* all its keys are held down and clear if none is, for every keyboard:    *)
(* also with two keys for one modifier, and with extended ones, whose code *)
(* the handler may set again (get_scan_code(), handle_keyboard_input()).   *)
THEOREM ModifiersAreThoseHeld == Spec => []ModifiersFollowKeys
<1>1. IInv => ModifiersFollowKeys
  BY AtRest DEF ModifiersFollowKeys, FollowKeys
<1>2. QED
  BY InitIInv, Inductive, <1>1, PTL DEF Spec

(* On a keyboard with one shift key, and no lock key with a prefix, every  *)
(* plain key that was pressed has given its character to tty_input() once, *)
(* in order, and in the case that shift and caps lock gave it when it was  *)
(* pressed.  With two shift keys the one flag goes by the last event: the  *)
(* letter behind the release of one has the wrong case.                    *)
THEOREM EveryKeyOnceInOrder ==
  ASSUME OrdinaryKeys
  PROVE  Spec => []KeysTypedInOrder
<1>1. IInv => KeysTypedInOrder
  BY AtRest, OrdinaryKeys DEF KeysTypedInOrder
<1>2. QED
  BY InitIInv, Inductive, <1>1, PTL DEF Spec
=============================================================================
