--------------------------------- MODULE Gunzip ---------------------------------
(***************************************************************************)
(* .gz files are unpacked while they are downloaded (src/util/gunzip.cc,   *)
(* gunzip.hh): inject() gets the next bytes, as many as there happen to    *)
(* be, and goes through the states of the header, the data and the         *)
(* trailer.  A case of the switch may fall through to the next one, which  *)
(* reads on without asking whether there is any input left.                *)
(*                                                                         *)
(* In a file, compressed data are bytes Packed; the last of each stream is *)
(* PackedEnd.  What they unpack to is in `members'; it ends somewhere when *)
(* inflate() reads PackedBad, which is not what zlib may find there.       *)
(***************************************************************************)
EXTENDS Naturals, Sequences, SequencesExt

CONSTANTS
  Files,            \* set of [bytes, members, out, bad]
  OutSize           \* size of the buffer the listener supplies

VARIABLES
  file,
  pc,               \* "idle"; in inject(): "loop" at its while, "case" where
                    \* one case falls through to the next, "zlib" and
                    \* "transparent" in their loops; "failed"
  next,             \* next_in: how many bytes of the file were read
  availIn,
  state, headerFlags, skip, data,
  member,           \* the stream that is unpacked, and how much of it was
  given,
  crc,              \* the bytes the checksum is of
  availOut,
  out               \* what the listener has got

vars == <<file, pc, next, availIn, state, headerFlags, skip, data, member,
          given, crc, availOut, out>>

Packed == 200
PackedEnd == 201
PackedBad == 202

Init ==
  /\ file \in Files /\ pc = "idle" /\ next = 0 /\ availIn = 0
  /\ state = "INIT0" /\ headerFlags = 0 /\ skip = 0 /\ data = 0
  /\ member = 1 /\ given = 0 /\ crc = << >> /\ availOut = 0 /\ out = << >>

-----------------------------------------------------------------------------

Lowest(x, y) == IF x < y THEN x ELSE y

Byte == file.bytes[next + 1]
Bit(n) == (headerFlags \div 2^n) % 2 = 1

\* nextInByte()
Eat(n) == next' = next + n /\ availIn' = availIn - n

Nothing == UNCHANGED <<next, availIn>>

\* Where the code goes on after a byte was read: if it was the last one, back
\* to the while; else in the next case
Fall == pc' = IF availIn' = 0 THEN "loop" ELSE "case"

Break == pc' = "loop"

Header == UNCHANGED <<file, member, given, availOut>>

\* A stand-in for the k-th byte of the CRC
CrcByte(bytes, k) == 100 + ((k + FoldSeq(LAMBDA x, n : x + n, 0, bytes)) % 8)

In(s) == pc = "case" /\ state = s

-----------------------------------------------------------------------------
(* inject() and its loop *)

\* The caller has the next n bytes of the file.
Inject(n) ==
  /\ pc = "idle" /\ next + n <= Len(file.bytes)
  /\ availIn' = n /\ pc' = "loop"
  /\ UNCHANGED <<file, next, state, headerFlags, skip, data, member, given, crc,
                 availOut, out>>

Skip ==
  /\ pc = "loop" /\ availIn > 0 /\ skip > 0
  /\ Eat(Lowest(skip, availIn)) /\ skip' = skip - Lowest(skip, availIn)
  /\ pc' = IF availIn' = 0 THEN "idle" ELSE "case"
  /\ UNCHANGED <<state, headerFlags, data, crc, out>> /\ Header

Switch ==
  /\ pc = "loop" /\ availIn > 0 /\ skip = 0 /\ pc' = "case"
  /\ UNCHANGED <<next, availIn, state, headerFlags, skip, data, crc, out>>
  /\ Header

Return ==
  /\ pc = "loop" /\ availIn = 0 /\ pc' = "idle"
  /\ UNCHANGED <<next, availIn, state, headerFlags, skip, data, crc, out>>
  /\ Header

-----------------------------------------------------------------------------
(* The header *)

\* outputByte(), for each of the bytes
Output(bytes) ==
  /\ out' = out \o bytes
  /\ availOut' = FoldLeft(LAMBDA room, x : (IF room = 0 THEN OutSize ELSE room) - 1,
                          availOut, bytes)
  /\ UNCHANGED <<file, member, given>>

Init0 ==
  /\ In("INIT0") /\ crc' = << >>
  /\ IF Byte # 31 THEN state' = "TRANSPARENT" /\ Nothing /\ Break
     ELSE state' = "INIT1" /\ Eat(1) /\ Fall
  /\ UNCHANGED <<headerFlags, skip, data, out>> /\ Header

\* Mutant of Init1: the first byte is not given out.
Init1Lost ==
  /\ In("INIT1")
  /\ IF Byte # 139
     THEN state' = "TRANSPARENT" /\ Nothing /\ Break
     ELSE state' = "HEADER_CM" /\ Eat(1) /\ Fall
  /\ UNCHANGED <<headerFlags, skip, data, crc, out>> /\ Header

Init1 ==
  /\ In("INIT1")
  /\ IF Byte # 139
     THEN Output(<<31>>) /\ state' = "TRANSPARENT" /\ Nothing /\ Break
     ELSE state' = "HEADER_CM" /\ Eat(1) /\ Fall /\ Header /\ UNCHANGED out
  /\ UNCHANGED <<headerFlags, skip, data, crc>>

HeaderCm ==
  /\ In("HEADER_CM")
  /\ IF Byte # 8
     THEN Output(<<31, 139>>) /\ state' = "TRANSPARENT" /\ Nothing /\ Break
     ELSE state' = "HEADER_FLG" /\ Eat(1) /\ Fall /\ Header /\ UNCHANGED out
  /\ UNCHANGED <<headerFlags, skip, data, crc>>

Fail == state' = "ERROR" /\ pc' = "failed"

HeaderFlg ==
  /\ In("HEADER_FLG")
  /\ headerFlags' = Byte /\ Eat(1)
  /\ IF Byte >= 32 THEN Fail /\ UNCHANGED skip
     ELSE state' = "HEADER_FEXTRA0" /\ skip' = 4 + 1 + 1 /\ Break
  /\ UNCHANGED <<data, crc, out>> /\ Header

\* Mutant of HeaderFextra0: it is not asked whether that was the last byte.
HeaderFextra0Last ==
  /\ In("HEADER_FEXTRA0")
  /\ IF Bit(2) THEN data' = Byte /\ Eat(1) /\ state' = "HEADER_FEXTRA1" /\ pc' = "case"
     ELSE state' = "HEADER_FNAME" /\ Nothing /\ Break /\ UNCHANGED data
  /\ UNCHANGED <<headerFlags, skip, crc, out>> /\ Header

HeaderFextra0 ==
  /\ In("HEADER_FEXTRA0")
  /\ IF Bit(2) THEN data' = Byte /\ Eat(1) /\ state' = "HEADER_FEXTRA1" /\ Fall
     ELSE state' = "HEADER_FNAME" /\ Nothing /\ Break /\ UNCHANGED data
  /\ UNCHANGED <<headerFlags, skip, crc, out>> /\ Header

HeaderFextra1 ==
  /\ In("HEADER_FEXTRA1")
  /\ data' = data + 256 * Byte /\ skip' = data' /\ Eat(1)
  /\ state' = "HEADER_FNAME" /\ Break
  /\ UNCHANGED <<headerFlags, crc, out>> /\ Header

\* How many bytes a loop reads that goes on until it has read a zero, and
\* whether it has
ToZero ==
  LET zeros == {n \in 1..availIn : file.bytes[next + n] = 0}
  IN IF zeros = {} THEN [n |-> availIn, found |-> FALSE]
     ELSE [n |-> CHOOSE n \in zeros : \A m \in zeros : n <= m, found |-> TRUE]

HeaderFname ==
  /\ In("HEADER_FNAME")
  /\ IF Bit(3)
     THEN /\ Eat(ToZero.n) /\ Fall
          /\ state' = IF ToZero.found THEN "HEADER_FCOMMENT" ELSE state
     ELSE state' = "HEADER_FCOMMENT" /\ Nothing /\ Break
  /\ UNCHANGED <<headerFlags, skip, data, crc, out>> /\ Header

\* The header is over.
ToZlib == state' = "ZLIB" /\ skip' = IF Bit(1) THEN 2 ELSE skip

HeaderFcomment ==
  /\ In("HEADER_FCOMMENT") /\ Break
  /\ IF Bit(4)
     THEN /\ Eat(ToZero.n)
          /\ IF ToZero.found THEN ToZlib ELSE UNCHANGED <<state, skip>>
     ELSE ToZlib /\ Nothing
  /\ UNCHANGED <<headerFlags, data, crc, out>> /\ Header

-----------------------------------------------------------------------------
(* The data *)

\* needOutByte()
Room == IF availOut = 0 THEN OutSize ELSE availOut

\* Z_DATA_ERROR: the last of the u bytes that inflate() has read
Refuses(u) == file.bytes[next + u] = PackedBad

\* What inflate() may read and give out: it stops when its input is used up,
\* its output full, the stream at its end or not to be understood.  It may have
\* read the last byte before it had room for all that byte stands for.
Inflated ==
  LET stops == {n \in 0..(Len(file.bytes) - next) :
                 file.bytes[next + n] \in {PackedEnd, PackedBad}}
      rest == CHOOSE n \in stops : \A m \in stops : n <= m
      left == Len(file.members[member]) - given
  IN {<<u, n>> \in (0..Lowest(availIn, rest)) \X (0..Lowest(Room, left)) :
        u = availIn \/ n = Room \/ (u = rest /\ n = left) \/ Refuses(u)}

ZlibEnters ==
  /\ In("ZLIB") /\ pc' = "zlib"
  /\ UNCHANGED <<next, availIn, state, headerFlags, skip, data, crc, out>>
  /\ Header

Zlib ==
  /\ pc = "zlib" /\ availIn > 0
  /\ \E <<u, n>> \in Inflated :
       LET new == SubSeq(file.members[member], given + 1, given + n)
           atEnd == file.bytes[next + u] = PackedEnd
                    /\ given + n = Len(file.members[member])
       IN /\ Eat(u) /\ availOut' = Room - n
          /\ crc' = crc \o new /\ out' = out \o new
          /\ given' = IF atEnd THEN 0 ELSE given + n
          /\ member' = IF atEnd THEN member + 1 ELSE member
          /\ IF Refuses(u) THEN Fail
             ELSE /\ state' = IF atEnd THEN "TRAILER_CRC0" ELSE state
                  /\ pc' = IF atEnd \/ availIn' = 0 THEN "loop" ELSE "zlib"
  /\ UNCHANGED <<file, headerFlags, skip, data>>

Trailers == <<"TRAILER_CRC0", "TRAILER_CRC1", "TRAILER_CRC2", "TRAILER_CRC3">>

\* Mutant of Trailer: the length is not skipped.
TrailerOnly(k) ==
  /\ In(Trailers[k]) /\ Eat(1)
  /\ IF Byte # CrcByte(crc, k) THEN Fail
     ELSE /\ state' = IF k < 4 THEN Trailers[k + 1] ELSE "INIT0"
          /\ IF k < 4 THEN Fall ELSE Break
  /\ UNCHANGED <<headerFlags, skip, data, crc, out>> /\ Header

\* The four bytes of the checksum; the length is not looked at, and another
\* file may follow.
Trailer(k) ==
  /\ In(Trailers[k]) /\ Eat(1)
  /\ IF Byte # CrcByte(crc, k) THEN Fail /\ UNCHANGED skip
     ELSE IF k < 4 THEN state' = Trailers[k + 1] /\ Fall /\ UNCHANGED skip
     ELSE state' = "INIT0" /\ Break /\ skip' = 4
  /\ UNCHANGED <<headerFlags, data, crc, out>> /\ Header

TransparentEnters ==
  /\ In("TRANSPARENT") /\ pc' = "transparent"
  /\ UNCHANGED <<next, availIn, state, headerFlags, skip, data, crc, out>>
  /\ Header

\* Mutant of Transparent: the room of the output is not looked at.
TransparentAll ==
  /\ pc = "transparent" /\ availIn > 0
  /\ Eat(Lowest(availIn, OutSize)) /\ availOut' = Room - Lowest(availIn, OutSize)
  /\ out' = out \o SubSeq(file.bytes, next + 1, next + Lowest(availIn, OutSize))
  /\ pc' = IF availIn' = 0 THEN "loop" ELSE "transparent"
  /\ UNCHANGED <<file, state, headerFlags, skip, data, member, given, crc>>

\* Mutant of Transparent: no new output is asked for when there is no room.
TransparentStuck ==
  /\ pc = "transparent" /\ availIn > 0
  /\ LET s == Lowest(availIn, availOut)
     IN /\ Eat(s) /\ availOut' = availOut - s
        /\ out' = out \o SubSeq(file.bytes, next + 1, next + s)
  /\ pc' = IF availIn' = 0 THEN "loop" ELSE "transparent"
  /\ UNCHANGED <<file, state, headerFlags, skip, data, member, given, crc>>

Transparent ==
  /\ pc = "transparent" /\ availIn > 0
  /\ LET s == Lowest(availIn, Room)
     IN /\ Eat(s) /\ availOut' = Room - s
        /\ out' = out \o SubSeq(file.bytes, next + 1, next + s)
  /\ pc' = IF availIn' = 0 THEN "loop" ELSE "transparent"
  /\ UNCHANGED <<file, state, headerFlags, skip, data, member, given, crc>>

-----------------------------------------------------------------------------

InInject ==
  \/ Skip \/ Switch \/ Return
  \/ Init0 \/ Init1 \/ HeaderCm \/ HeaderFlg \/ HeaderFextra0 \/ HeaderFextra1
  \/ HeaderFname \/ HeaderFcomment
  \/ ZlibEnters \/ Zlib \/ (\E k \in 1..4 : Trailer(k))
  \/ TransparentEnters \/ Transparent

\* After an error further calls return at once.
Ended == (pc = "failed" \/ next = Len(file.bytes)) /\ pc # "loop" /\ UNCHANGED vars

Next == InInject \/ (\E n \in 1..Len(file.bytes) : Inject(n)) \/ Ended

Spec == Init /\ [][Next]_vars /\ WF_vars(InInject)

-----------------------------------------------------------------------------
(* Properties *)

TypeOK ==
  /\ pc \in {"idle", "loop", "case", "zlib", "transparent", "failed"}
  /\ next \in 0..Len(file.bytes) /\ availIn \in 0..Len(file.bytes)
  /\ skip \in Nat /\ data \in Nat /\ availOut \in 0..OutSize

\* No case reads beyond the bytes it was given, wherever they end.
InputThere == pc = "case" => availIn > 0

\* The listener gets what is in the file, in order, however its bytes come in;
\* an error is found where there is one.
OutputRight == IsPrefix(out, file.out) /\ (pc = "failed" => file.bad)

\* When all bytes were injected, all that they stand for was given out.
AllGiven == pc = "idle" /\ next = Len(file.bytes) => out = file.out /\ ~file.bad

\* "Otherwise, it is assumed that the file is not compressed and it is passed to
\* the output IO object unmodified."
Unmodified ==
  pc = "idle" /\ next = Len(file.bytes) /\ file.members = << >> => out = file.bytes

\* Every call of inject() returns: []<>Idle.
Idle == pc \in {"idle", "failed"}
=============================================================================
