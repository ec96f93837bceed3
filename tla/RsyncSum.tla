-------------------------------- MODULE RsyncSum --------------------------------
(***************************************************************************)
(* The 32 bit checksum RsyncSum (src/util/rsyncsum.hh, rsyncsum.cc), whose *)
(* two halves are kept in one word, and addBackNtimes() of both checksums, *)
(* which adds a byte n times with two multiplications.                     *)
(*                                                                         *)
(* Half stands for 2^16 and Half^2 for 2^32; unsigned long, which has 64   *)
(* bits here, is kept modulo Half^4.  Every operation is taken modulo the  *)
(* width of its type, in the order of the code.                            *)
(***************************************************************************)
EXTENDS Integers, Sequences, SequencesExt

CONSTANTS
  Half,
  Bytes,
  CHAR_OFFSET,
  CharTable,        \* of RsyncSum64
  MaxArea           \* bound: size of the area

RsyncAssumption ==
  /\ Half \in Nat \ {0} /\ CHAR_OFFSET \in 0..(Half - 1) /\ MaxArea \in Nat
  /\ Bytes \subseteq Nat /\ CharTable \in [Bytes -> 0..(Half * Half - 1)]

Word == Half * Half
LongWord == Word * Word

VARIABLES
  area,             \* the bytes that are covered
  sum,              \* of RsyncSum
  sumLo, sumHi      \* of RsyncSum64

vars == <<area, sum, sumLo, sumHi>>

Init == area = << >> /\ sum = 0 /\ sumLo = 0 /\ sumHi = 0

-----------------------------------------------------------------------------
(* RsyncSum *)

Packed(a, b) == ((a % Half) + b * Half) % Word

\* addBack(mem, len); of one byte, addBack(x)
AddBack(s, mem) ==
  LET Step(x, p) == LET a == (p[1] + x + CHAR_OFFSET) % Word
                    IN <<a, (p[2] + a) % Word>>
      p == FoldLeft(LAMBDA acc, x : Step(x, acc), <<s, s \div Half>>, mem)
  IN Packed(p[1], p[2])

AddBackNtimes(s, x, n) ==
  LET tn == n % Word
      gauss == ((tn * (tn + 1)) % Word) \div 2
      b == (s \div Half + tn * s + gauss * (x + CHAR_OFFSET)) % Word
      a == (s + tn * (x + CHAR_OFFSET)) % Word
  IN Packed(a, b)

\* removeFront(x, areaSize)
RemoveByte(s, x, areaSize) ==
  LET b == (s \div Half - areaSize * (x + CHAR_OFFSET)) % Word
      a == (s - (x + CHAR_OFFSET)) % Word
  IN Packed(a, b)

\* Mutant of RemoveFront: all of the sum of the front for its upper half.
RemoveFrontWord(s, mem, areaSize) ==
  LET front == AddBack(0, mem)
      a == (s - front) % LongWord
      b == (s \div Half - (front + (areaSize - Len(mem)) * front)) % LongWord
  IN Packed(a, b)

\* removeFront(mem, len, areaSize)
RemoveFront(s, mem, areaSize) ==
  LET front == AddBack(0, mem)
      a == (s - front) % LongWord
      b == (s \div Half
              - (front \div Half + (areaSize - Len(mem)) * front)) % LongWord
  IN Packed(a, b)

-----------------------------------------------------------------------------
(* RsyncSum64 *)

\* Mutant of GaussProd: "/2" after "*"
GaussProdLate(tn) == ((tn * (tn + 1)) % Word) \div 2

\* n * (n + 1) / 2 modulo 2^32: what is even is halved before it is multiplied.
GaussProd(tn) ==
  IF tn % 2 = 0 THEN ((tn \div 2) * (tn + 1)) % Word
  ELSE (((tn + 1) \div 2) * tn) % Word

AddBackNtimesHi(lo, hi, x, n) ==
  (hi + (n % Word) * lo + GaussProd(n % Word) * CharTable[x]) % Word

AddBackNtimesLo(lo, x, n) == (lo + (n % Word) * CharTable[x]) % Word

\* The sums of RsyncSum64 with single bytes; all of it is module RsyncSum64.
AddBack64(lo, hi, mem) ==
  FoldLeft(LAMBDA p, x : LET a == (p[1] + CharTable[x]) % Word
                         IN <<a, (p[2] + a) % Word>>, <<lo, hi>>, mem)

RemoveFront64(lo, hi, mem, areaSize) ==
  LET front == AddBack64(0, 0, mem)
  IN <<(lo - front[1]) % Word,
       (hi - front[2] - (areaSize - Len(mem)) * front[1]) % Word>>

-----------------------------------------------------------------------------
(* The calls *)

Becomes64(p) == sumLo' = p[1] /\ sumHi' = p[2]

Add(mem) ==
  /\ Len(area) + Len(mem) <= MaxArea
  /\ area' = area \o mem
  /\ sum' = AddBack(sum, mem)
  /\ Becomes64(AddBack64(sumLo, sumHi, mem))

AddNtimes(x, n) ==
  /\ Len(area) + n <= MaxArea
  /\ area' = area \o [k \in 1..n |-> x]
  /\ sum' = AddBackNtimes(sum, x, n)
  /\ sumLo' = AddBackNtimesLo(sumLo, x, n)
  /\ sumHi' = AddBackNtimesHi(sumLo, sumHi, x, n)

RemoveOne ==
  /\ area # << >>
  /\ area' = Tail(area)
  /\ sum' = RemoveByte(sum, Head(area), Len(area))
  /\ Becomes64(RemoveFront64(sumLo, sumHi, <<Head(area)>>, Len(area)))

RemoveMany(len) ==
  /\ len <= Len(area)
  /\ area' = SubSeq(area, len + 1, Len(area))
  /\ sum' = RemoveFront(sum, SubSeq(area, 1, len), Len(area))
  /\ Becomes64(RemoveFront64(sumLo, sumHi, SubSeq(area, 1, len), Len(area)))

Next ==
  \/ \E x \in Bytes : Add(<<x>>)
  \/ \E x \in Bytes, y \in Bytes : Add(<<x, y, x>>)
  \/ \E x \in Bytes, n \in 0..MaxArea : AddNtimes(x, n)
  \/ RemoveOne
  \/ \E len \in 0..MaxArea : RemoveMany(len)

Spec == Init /\ [][Next]_vars

-----------------------------------------------------------------------------
(* Properties *)

\* What a checksum of the area is: each value once, and each as often as the
\* area is long from there on.
Plain(Value(_)) ==
  FoldLeft(LAMBDA acc, k : acc + Value(area[k]), 0, [k \in 1..Len(area) |-> k])
Weighted(Value(_)) ==
  FoldLeft(LAMBDA acc, k : acc + (Len(area) - k + 1) * Value(area[k]), 0,
           [k \in 1..Len(area) |-> k])

\* The carry from one half of the word never gets into the other, whatever was
\* added and removed, one by one or together.
SumRight ==
  LET Value(x) == x + CHAR_OFFSET
  IN sum = (Plain(Value) % Half) + (Weighted(Value) % Half) * Half

\* Adding a byte n times is adding it n times, though n * (n + 1) does not fit
\* in 32 bits.
Sum64Right ==
  LET Value(x) == CharTable[x]
  IN sumLo = Plain(Value) % Word /\ sumHi = Weighted(Value) % Word
=============================================================================
