------------------------------ MODULE CString ------------------------------
(***************************************************************************)
(* The string functions of the C library (libc/lib/string, atoi.c), bc's   *)
(* own itoa, and the kernel's kprintf.  A string is the sequence of its    *)
(* characters before the NUL, a pointer into a string the sequence from    *)
(* there on, and an int has the values -INT_MAX - 1 .. INT_MAX.            *)
(***************************************************************************)
EXTENDS Integers, SequencesExt

CONSTANT INT_MAX  (* 2^31 - 1 *)

ASSUME IntAssumption == INT_MAX \in Nat /\ INT_MAX > 9

NUL == "NUL"       \* the byte 0
NULL == <<"NULL">> \* the null pointer; no string contains that character
INT_MIN == - INT_MAX - 1
Int32 == INT_MIN .. INT_MAX

(* What is left of a result that does not fit: add, sub and imul wrap.     *)
Wrap(n) == ((n - INT_MIN) % (2 * (INT_MAX + 1))) + INT_MIN

(* The division of the CPU rounds toward zero. *)
Quotient(a, b) ==
  LET abs(n) == IF n < 0 THEN - n ELSE n
      q == abs(a) \div abs(b)
  IN  IF (a < 0) = (b < 0) THEN q ELSE - q
-----------------------------------------------------------------------------
strlen(s) == Len(s)

(* The offset of the byte behind the first c in s and its NUL; 0: NULL. *)
strchr(s, c) == SelectInSeq(Append(s, NUL), LAMBDA x : x = c)

(* 0 when the strings agree up to n characters; the sign is left out. *)
strncmp(s1, s2, n) ==
  LET upto(s) == SubSeq(s, 1, IF Len(s) < n THEN Len(s) ELSE n)
  IN  IF upto(s1) = upto(s2) THEN 0 ELSE 1

(* memcpy(dest, src, strlen(src)) leaves dest without its NUL: the string  *)
(* goes on with what lies behind dest.                                     *)
memcpy(s, behind) == s \o behind

(* strtok(s1, s2) when tok_next is next: the token and the new tok_next.   *)
(* Only what precedes the first token is skipped: a delimiter behind a     *)
(* delimiter, or at the end, makes an empty token.                         *)
strtok(s1, next, s2) ==
  LET s == IF s1 = NULL THEN next ELSE s1
      delimiter(i) == strchr(s2, s[i]) # 0
      first == IF s1 = NULL THEN 1
               ELSE CHOOSE i \in 1 .. Len(s) + 1 :
                      /\ i = Len(s) + 1 \/ ~ delimiter(i)
                      /\ \A j \in 1 .. i - 1 : delimiter(j)
      end == CHOOSE i \in first .. Len(s) + 1 :
               /\ i = Len(s) + 1 \/ delimiter(i)
               /\ \A j \in first .. i - 1 : ~ delimiter(j)
  IN  IF s = NULL \/ (s1 # NULL /\ first > Len(s))
        THEN [token |-> NULL, next |-> next]
        ELSE [token |-> SubSeq(s, first, end - 1),
              next |-> IF end > Len(s) THEN NULL ELSE SubSeq(s, end + 1, Len(s))]
-----------------------------------------------------------------------------
Digits == <<"0", "1", "2", "3", "4", "5", "6", "7", "8", "9">>
DigitValue(c) == SelectInSeq(Digits, LAMBDA d : d = c) - 1

(* atoi(): 0 as soon as a character is no digit. *)
atoi(str) ==
  LET is_neg == str # <<>> /\ str[1] = "-"
      digits == IF is_neg THEN Tail(str) ELSE str
      ret == FoldLeft(LAMBDA n, c : Wrap(n * 10 + DigitValue(c)), 0, digits)
  IN  IF \E i \in DOMAIN digits : DigitValue(digits[i]) = -1 THEN 0
      ELSE IF is_neg THEN Wrap(- ret) ELSE ret

(* The digits of n in base, as one loop counts and the other writes them;  *)
(* of a negative number there is one, from before digit[].                 *)
Digits16 == Digits \o <<"A", "B", "C", "D", "E", "F">>
Prefix(base) == IF base = 16 THEN <<"0", "x">> ELSE <<>>
Written(n, base) ==
  LET count == CHOOSE k \in 1 .. n + 1 :
                 /\ n < base ^ k
                 /\ k = 1 \/ base ^ (k - 1) <= n
  IN  IF n < 0 THEN <<"?">>
      ELSE [k \in 1 .. count |-> Digits16[((n \div base ^ (count - k)) % base) + 1]]

(* itoa() of bc, and of the kernel.  -INT_MIN is INT_MIN again. *)
itoa(n, base) ==
  IF n < 0 THEN <<"-">> \o Prefix(base) \o Written(Wrap(- n), base)
  ELSE Prefix(base) \o Written(n, base)
uitoa(n, base) == Prefix(base) \o Written(n, base)

(* kprintf(): the characters for a format and its arguments.  In a run of  *)
(* '%' every second one is itself converted; of a letter that is no        *)
(* conversion nothing is written.                                          *)
TakesArgument == {"i", "d", "u", "x", "X", "s"}
Converted(c, arg) ==
  CASE c \in {"i", "d"} -> itoa(arg, 10)
    [] c = "u" -> uitoa(arg, 10)
    [] c \in {"x", "X"} -> uitoa(arg, 16)
    [] c = "s" -> arg
kprintf(format, args) ==
  LET introduced == [i \in DOMAIN format |->
        Cardinality({j \in 1 .. i - 1 : \A k \in j .. i - 1 : format[k] = "%"}) % 2 = 1]
      consumers == {i \in DOMAIN format : introduced[i] /\ format[i] \in TakesArgument}
      piece(i) ==
        IF i \in consumers
          THEN Converted(format[i], args[Cardinality({j \in consumers : j <= i})])
        ELSE IF introduced[i] = (format[i] = "%") THEN <<format[i]>>
        ELSE <<>>
  IN  FlattenSeq([i \in DOMAIN format |-> piece(i)])
=============================================================================
