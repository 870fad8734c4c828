-------------------------------- MODULE CLib --------------------------------
(***************************************************************************)
(* The loops of the kernel's C library (lib.c) over memory and strings.    *)
(* A memory is a function from addresses to bytes; the assembly loops are  *)
(* written in their three parts: bytes up to an aligned destination,       *)
(* 32-bit words, and the bytes that are left.                              *)
(***************************************************************************)
EXTENDS Integers, Sequences, SequencesExt

CONSTANTS
  MEM,    \* bound: bytes of memory in the checks
  VALUES  \* bound: the largest number itoa is asked for

ASSUME CLibAssumption == MEM \in Nat /\ VALUES \in Nat

Address == 0 .. MEM - 1

\* Bytes to the next multiple of four, but not more than n.
ToAligned(a, n) == LET k == (4 - (a % 4)) % 4 IN IF k < n THEN k ELSE n

\* movb: n bytes one by one; movsl: n words, each read as a whole before it is
\* written.
MoveBytes(m, d, s, n) ==
  LET after[i \in 0 .. n] ==
        IF i = 0 THEN m ELSE [after[i - 1] EXCEPT ![d + i - 1] = after[i - 1][s + i - 1]]
  IN after[n]
MoveWords(m, d, s, n) ==
  LET after[i \in 0 .. n] ==
        IF i = 0 THEN m
        ELSE [a \in DOMAIN m |->
               IF a \in d + 4 * (i - 1) .. d + 4 * i - 1 THEN after[i - 1][s + a - d]
               ELSE after[i - 1][a]]
  IN after[n]

\* Mutant: the bytes behind the last whole word are forgotten.
LeftOver_None(n) == 0

\* andl $3: the bytes behind the last whole word.
LeftOver(n) == n % 4

memcpy(m, d, s, n) ==
  LET h == ToAligned(d, n)
      w == (n - h) \div 4
      t == IF h = n THEN 0 ELSE LeftOver(n - h)
  IN MoveBytes(MoveWords(MoveBytes(m, d, s, h), d + h, s + h, w),
               d + h + 4 * w, s + h + 4 * w, t)

Fill(m, a, c, n) == [x \in DOMAIN m |-> IF x \in a .. a + n - 1 THEN c ELSE m[x]]

memset(m, a, c, n) ==
  LET h == ToAligned(a, n)
      w == (n - h) \div 4
      t == IF h = n THEN 0 ELSE LeftOver(n - h)
  IN Fill(Fill(Fill(m, a, c, h), a + h, c, 4 * w), a + h + 4 * w, c, t)

\* Strings: a sequence of bytes that ends with its first 0.
strlen(s) == SelectInSeq(s, LAMBDA b : b = 0) - 1
String(s) == SubSeq(s, 1, strlen(s))

\* The swaps of strrev, from the ends to the middle.
strrev(s) ==
  LET n == strlen(s)
      swapped[beg \in 0 .. n \div 2] ==
        IF beg = 0 THEN s
        ELSE [swapped[beg - 1] EXCEPT ![beg] = swapped[beg - 1][n + 1 - beg],
                                      ![n + 1 - beg] = swapped[beg - 1][beg]]
  IN swapped[n \div 2]

lookup == [d \in 0 .. 35 |-> IF d < 10 THEN 48 + d ELSE 55 + d]

\* itoa: the digits from the lowest on, a terminating 0, and strrev.
itoa(value, radix) ==
  LET digits[v \in 0 .. value] ==
        IF v = 0 THEN << >> ELSE <<lookup[v % radix]>> \o digits[v \div radix]
  IN IF value = 0 THEN <<48, 0>> ELSE strrev(Append(digits[value], 0))

----------------------------------------------------------------------------

Marked == [a \in Address |-> a + 1]   \* every byte of it different

\* The number a string of digits stands for, read from the left.
Digit(b) == CHOOSE d \in 0 .. 35 : lookup[d] = b
NumberOf(s, radix) ==
  LET read[k \in 0 .. Len(s)] == IF k = 0 THEN 0 ELSE radix * read[k - 1] + Digit(s[k])
  IN read[Len(s)]

\* Areas of n bytes: every alignment, and for memcpy also overlapping areas whose
\* destination is the lower one.
AreasRight(n) ==
  \A d \in 0 .. MEM - n :
    /\ memset(Marked, d, 0, n) = [a \in Address |-> IF a \in d .. d + n - 1 THEN 0 ELSE a + 1]
    /\ \A s \in 0 .. MEM - n :
         d <= s \/ s + n <= d =>
           memcpy(Marked, d, s, n) =
             [a \in Address |-> IF a \in d .. d + n - 1 THEN s + (a - d) + 1 ELSE a + 1]

\* A string of n different bytes, and numbers in the radixes printf uses, and 2.
StringsRight(n) ==
  LET s == [k \in 1 .. n |-> k] IN strrev(Append(s, 0)) = Append(Reverse(s), 0)
NumbersRight ==
  \A v \in 0 .. VALUES, radix \in {2, 10, 16} :
    LET s == String(itoa(v, radix)) IN NumberOf(s, radix) = v /\ (v > 0 => s[1] # lookup[0])
============================================================================
