------------------------------- MODULE Base64 -------------------------------
(***************************************************************************)
(* Base64Out and Base64In (src/util/mimestream.hh): checksums as text, the *)
(* names of files and the labels in .jigdo files; and what class JigdoIO   *)
(* does with a label it reads (src/job/jigdo-io.cc, sections [Parts] and   *)
(* [Image]): decode it into an array, encode it again and compare.         *)
(*                                                                         *)
(* Both directions shift bits through a 32-bit word and remember how many  *)
(* are left over.  A character is the number it stands for; the decoder    *)
(* also knows "+" and "/" for "-" and "_" and ignores anything else.       *)
(***************************************************************************)
EXTENDS Integers, Sequences, SequencesExt

CONSTANTS
  Bytes,            \* values that are written, a subset of 0..255
  MaxBytes,         \* bound: how many of them
  Chars,            \* characters of labels
  MaxLabel,         \* bound: the length of labels
  ArrayLen          \* of MD5::sum; 16 in the program

Base64Assumption ==
  /\ Bytes \subseteq 0..255 /\ MaxBytes \in Nat /\ MaxLabel \in Nat
  /\ Chars \subseteq 0..255 /\ ArrayLen \in Nat \ {0}

VARIABLES
  hex,              \* the flag of the class Base64Out
  enc,              \* [bits, data, out]: the encoder and its string
  written,          \* the bytes it was given since the string was erased
  flushed,          \* has flush() been called since?
  dec,              \* [bits, data, out]: a decoder that keeps all bytes
  read,             \* characters it was given since it was reset
  label,            \* a label of a .jigdo file
  verdict           \* what JigdoIO::entry says of it

vars == <<hex, enc, written, flushed, dec, read, label, verdict>>

\* The word: bits further up are never looked at again.
Word == 65536
Alternative(c) == c + 64
Junk == 255

\* A new object, of either class.
New == [bits |-> 0, data |-> 0, out |-> << >>]

Init ==
  /\ hex \in BOOLEAN
  /\ enc = New
  /\ written = << >> /\ flushed = TRUE
  /\ dec = New /\ read = 0
  /\ label = << >> /\ verdict = "none"

-----------------------------------------------------------------------------
(* Base64Out *)

Shifted(data, n) == data \div 2^n
Code(data, n) == Shifted(data, n) % 64

\* Mutant of PutByte: a full group of six bits stays behind.
PutByteLate(e, x) ==
  LET data == (e.data * 256 + x) % Word
      bits == e.bits + 2
      one == Append(e.out, Code(data, bits))
  IN IF bits > 6
     THEN [bits |-> bits - 6, data |-> data,
           out |-> Append(one, Code(data, bits - 6))]
     ELSE [bits |-> bits, data |-> data, out |-> one]

\* put() of one byte: one character, or two when six bits were left over.
PutByte(e, x) ==
  LET data == (e.data * 256 + x) % Word
      bits == e.bits + 2
      one == Append(e.out, Code(data, bits))
  IN IF bits >= 6
     THEN [bits |-> bits - 6, data |-> data,
           out |-> Append(one, Code(data, bits - 6))]
     ELSE [bits |-> bits, data |-> data, out |-> one]

PutHex(e, x) == [e EXCEPT !.out = @ \o <<x \div 16, x % 16>>]

Put(e, x) == IF hex THEN PutHex(e, x) ELSE PutByte(e, x)

\* Mutant of Flushed: the bits are not moved to the upper end.
FlushedLow(e) ==
  IF e.bits = 0 THEN e
  ELSE [bits |-> 0, data |-> e.data,
        out |-> Append(e.out, e.data % 2^e.bits)]

\* flush()
Flushed(e) ==
  IF e.bits = 0 THEN e
  ELSE LET data == (e.data * 2^(6 - e.bits)) % Word
       IN [bits |-> 0, data |-> data, out |-> Append(e.out, Code(data, 0))]

\* write() of n bytes.
Write(e, bytes) == FoldLeft(Put, e, bytes)

\* The bytes of put(uint32) have the lowest first; here of two bytes.
PutInt(x, y) ==
  /\ Len(written) + 2 =< MaxBytes
  /\ enc' = Write(enc, <<x, y>>)
  /\ written' = written \o <<x, y>> /\ flushed' = FALSE
  /\ UNCHANGED <<hex, dec, read, label, verdict>>

PutOne(x) ==
  /\ Len(written) < MaxBytes
  /\ enc' = Put(enc, x)
  /\ written' = Append(written, x) /\ flushed' = FALSE
  /\ UNCHANGED <<hex, dec, read, label, verdict>>

\* The string is read after this; more bytes go into a new one.
Flush ==
  /\ ~flushed
  /\ enc' = Flushed(enc) /\ flushed' = TRUE
  /\ UNCHANGED <<hex, written, dec, read, label, verdict>>

\* m.result().erase(), before the next use.
Erase ==
  /\ flushed /\ written # << >> /\ read = 0
  /\ enc' = [enc EXCEPT !.out = << >>] /\ written' = << >>
  /\ UNCHANGED <<hex, flushed, dec, read, label, verdict>>

\* Mutant of Trailer: as many as there are bytes in the last group.
TrailerSwapped(n) == n % 3

\* trailer(n)
Trailer(n) == CASE n % 3 = 1 -> 2
                [] n % 3 = 2 -> 1
                [] OTHER     -> 0

-----------------------------------------------------------------------------
(* Base64In *)

Table(c) == CASE c \in 0..63 -> c
              [] c \in {Alternative(62), Alternative(63)} -> c - 64
              [] OTHER -> Junk

\* put() of one character.
Take(d, c) ==
  IF Table(c) = Junk THEN d
  ELSE LET data == (d.data * 64 + Table(c)) % Word
           bits == d.bits + 6
       IN IF bits >= 8
          THEN [bits |-> bits - 8, data |-> data,
                out |-> Append(d.out, Shifted(data, bits - 8) % 256)]
          ELSE [d EXCEPT !.bits = bits, !.data = data]

\* The decoder is given what the encoder wrote, in pieces; in between it
\* meets characters of which it makes nothing, and the other two.
Feed ==
  /\ ~hex /\ flushed /\ read < Len(enc.out)
  /\ \E n \in 1..(Len(enc.out) - read), noise \in BOOLEAN :
       LET piece == SubSeq(enc.out, read + 1, read + n)
           seen == IF noise THEN <<Junk>> \o [i \in 1..n |->
                                   IF piece[i] > 61 THEN Alternative(piece[i])
                                   ELSE piece[i]]
                   ELSE piece
       IN dec' = FoldLeft(Take, dec, seen) /\ read' = read + n
  /\ UNCHANGED <<hex, enc, written, flushed, label, verdict>>

\* Mutant of Reset: the bits that were left over stay.
ResetOutput(d) == [d EXCEPT !.out = << >>]

Reset(d) == [d EXCEPT !.bits = 0, !.out = << >>]

\* reset(); the vector is cleared by hand.
ResetDecoder ==
  /\ read > 0 /\ read = Len(enc.out)
  /\ dec' = Reset(dec) /\ read' = 0
  /\ enc' = [enc EXCEPT !.out = << >>] /\ written' = << >>
  /\ UNCHANGED <<hex, flushed, label, verdict>>

-----------------------------------------------------------------------------
(* JigdoIO::entry: a label that is to be a checksum *)

\* ArrayOut: one byte too many makes the pointers null, for good.
ArrayPut(cur, n) == IF cur = ArrayLen \/ cur = -1 THEN -1 ELSE cur + 1

\* cur after n bytes
Cur(n) == FoldLeft(ArrayPut, 0, [i \in 1..n |-> i])

Decoded(chars) == FoldLeft(Take, New, chars).out

Encoded(bytes) == Flushed(FoldLeft(PutByte, New, bytes)).out

\* Mutant of Accepts: "For security, double-check the value" left out.
AcceptsAny(chars) == Cur(Len(Decoded(chars))) = ArrayLen

Accepts(chars) ==
  /\ Cur(Len(Decoded(chars))) = ArrayLen
  /\ Encoded(Decoded(chars)) = chars

\* Bound: the objects that decode labels are new ones; the others are looked
\* at in their initial state meanwhile.
ReadChar ==
  /\ Len(label) < MaxLabel /\ verdict = "none" /\ enc = New /\ dec = New
  /\ ~hex
  /\ \E c \in Chars : label' = Append(label, c)
  /\ UNCHANGED <<hex, enc, written, flushed, dec, read, verdict>>

Entry ==
  /\ label # << >> /\ verdict = "none"
  /\ verdict' = IF Accepts(label) THEN "part" ELSE "invalid"
  /\ UNCHANGED <<hex, enc, written, flushed, dec, read, label>>

\* The line has been dealt with.
NextLine ==
  /\ verdict # "none"
  /\ label' = << >> /\ verdict' = "none"
  /\ UNCHANGED <<hex, enc, written, flushed, dec, read>>

\* Every caller reads the string after flush() and starts with an empty one.
Next ==
  \/ /\ label = << >>
     /\ \/ Flush \/ Erase \/ Feed \/ ResetDecoder
        \/ \E x \in Bytes :
             /\ read = 0 /\ (flushed => written = << >>)
             /\ PutOne(x) \/ \E y \in Bytes : PutInt(x, y)
  \/ ReadChar \/ Entry \/ NextLine

Spec == Init /\ [][Next]_vars

-----------------------------------------------------------------------------
(* Properties *)

\* Reference definitions: bit i of some bytes, the highest first, and the
\* characters of which each stands for six of them.
BitOf(bytes, i) ==
  IF i > 8 * Len(bytes) THEN 0
  ELSE (bytes[(i + 7) \div 8] \div 2^((8 - (i % 8)) % 8)) % 2
CharCount(n) == (8 * n + 5) \div 6
CharAt(bytes, j) ==
  32 * BitOf(bytes, 6*j - 5) + 16 * BitOf(bytes, 6*j - 4)
  + 8 * BitOf(bytes, 6*j - 3) + 4 * BitOf(bytes, 6*j - 2)
  + 2 * BitOf(bytes, 6*j - 1) + BitOf(bytes, 6*j)
Reference(bytes) == [j \in 1..CharCount(Len(bytes)) |-> CharAt(bytes, j)]

\* Types: at most four bits are left over in either direction.
TypeOK ==
  /\ hex \in BOOLEAN /\ flushed \in BOOLEAN
  /\ enc.bits \in {0, 2, 4} /\ enc.data \in 0..(Word - 1)
  /\ dec.bits \in {0, 2, 4, 6} /\ dec.data \in 0..(Word - 1)
  /\ Range(dec.out) \subseteq 0..255

\* The string is the one of the definition of Base64, or the hexadecimal one,
\* however the bytes are put, and also when the object is used again after
\* flush() (Base64Out).
EncodedRight ==
  flushed =>
    IF hex
    THEN /\ Len(enc.out) = 2 * Len(written)
         /\ \A i \in DOMAIN written :
              written[i] = 16 * enc.out[2*i - 1] + enc.out[2*i]
    ELSE enc.out = Reference(written)

\* Whatever the pieces and whatever characters without a meaning are in
\* between, all that was read so far is decoded, and no bit of a string
\* before (Base64In).
DecodedRight ==
  dec.out = SubSeq(written, 1, (6 * read) \div 8)

\* With the trailer the length is a multiple of four.
TrailerRight ==
  flushed /\ ~hex => (Len(enc.out) + Trailer(Len(written))) % 4 = 0

\* A label is taken for a checksum if and only if it is the one string that
\* stands for it: the right length, the right alphabet, and zeros in the bits
\* that are too many.  So two parts never share a checksum unseen, and the
\* file of the cache has one name ("For security, double-check the value").
OneLabelEach ==
  verdict # "none" =>
    (verdict = "part" <=>
       /\ Len(label) = CharCount(ArrayLen)
       /\ \A i \in DOMAIN label : label[i] \in 0..63
       /\ Last(label) % 2^(6 * CharCount(ArrayLen) - 8 * ArrayLen) = 0)
=============================================================================
