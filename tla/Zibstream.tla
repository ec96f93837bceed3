------------------------------- MODULE Zibstream -------------------------------
(***************************************************************************)
(* The compressed parts of a template are read (src/zstream.cc,            *)
(* zstream-gz.hh, zstream-bz.hh).  read() goes around a loop: inflate what *)
(* is in the buffer, or read the header of the next part, and fill the     *)
(* buffer.  Where a call ends has nothing to do with where parts, or what  *)
(* fits the buffer, end.                                                   *)
(*                                                                         *)
(* A part is what its header says and `len' units of compressed data; the  *)
(* last unit is the trailer of zlib or libbz2.  The file may have been cut *)
(* anywhere, or damaged; a header is one unit of it.                       *)
(***************************************************************************)
EXTENDS Naturals, Sequences, SequencesExt

CONSTANTS
  Parts,            \* sequence of [id, len, unc], before the DESC part
  BufSize,
  MaxRead           \* bound: bytes asked for in one call

ZibstreamAssumption ==
  /\ Parts \in Seq([id : {"gz", "bz"}, len : Nat \ {0}, unc : Nat])
  /\ BufSize \in Nat \ {0} /\ MaxRead \in Nat \ {0}

VARIABLES
  pc,               \* "idle", or "loop" in read(); "closed", "crashed"
  good,             \* buf # 0
  failed,           \* the last call has thrown
  whole,            \* the file was neither cut nor damaged
  left,             \* units of it that were not read
  part,             \* the last part whose header was read
  dataLen, dataUnc,
  z,                \* the inflater: "none", "gz" or "bz"
  used, given,      \* units it has got of the part, bytes it has given
  availIn, availOut,
  got               \* the bytes the caller has got, <<part, number>>

vars == <<pc, good, failed, whole, left, part, dataLen, dataUnc, z, used, given,
          availIn, availOut, got>>

Lowest(a, b) == IF a < b THEN a ELSE b

FileLen == FoldFunction(LAMBDA p, n : n + 1 + p.len, 0, Parts)

Content == FlattenSeq([i \in 1..Len(Parts) |->
                         [k \in 1..Parts[i].unc |-> <<i, k>>]])

\* open(); how much of the file there is, and whether the data are right
Init ==
  /\ pc = "idle" /\ good = TRUE /\ failed = FALSE
  /\ left \in 0..FileLen /\ whole \in {FALSE, left = FileLen}
  /\ part = 0 /\ dataLen = 0 /\ dataUnc = 0
  /\ z = "none" /\ used = 0 /\ given = 0 /\ availIn = 0 /\ availOut = 0
  /\ got = << >>

-----------------------------------------------------------------------------
(* The inflaters *)

\* What a call of inflate() may do: it stops when its input is used up or its
\* output full.  The trailer is not read before all bytes were given; libbz2
\* gives none before it has all of the block.
Inflated ==
  LET len == Parts[part].len
      rest == Parts[part].unc - given
  IN {<<u, n>> \in (0..availIn) \X (0..Lowest(availOut, rest)) :
        /\ u = availIn \/ n = availOut
        /\ used + u = len => n = rest
        /\ z = "bz" /\ n > 0 => used + u >= len - 1}

AtEnd == used >= Parts[part].len

\* Mutant of Inflate: when the output is full, dataUnc is left alone.
InflateFull ==
  /\ pc = "loop" /\ availIn # 0
  /\ IF AtEnd THEN UNCHANGED <<used, given, availIn, availOut, dataUnc, got>>
     ELSE \E <<u, n>> \in Inflated :
            /\ used' = used + u /\ availIn' = availIn - u
            /\ given' = given + n /\ availOut' = availOut - n
            /\ dataUnc' = IF n = availOut THEN dataUnc ELSE dataUnc - n
            /\ got' = got \o [k \in 1..n |-> <<part, given + k>>]
  /\ pc' = IF availOut' = 0 THEN "idle" ELSE "loop"
  /\ UNCHANGED <<good, failed, whole, left, part, dataLen, z>>

\* Mutant of Inflate: read() ends with the buffer.
InflateShort ==
  /\ pc = "loop" /\ availIn # 0
  /\ IF AtEnd THEN UNCHANGED <<used, given, availIn, availOut, dataUnc, got>>
     ELSE \E <<u, n>> \in Inflated :
            /\ used' = used + u /\ availIn' = availIn - u
            /\ given' = given + n /\ availOut' = availOut - n
            /\ dataUnc' = dataUnc - n
            /\ got' = got \o [k \in 1..n |-> <<part, given + k>>]
  /\ pc' = IF availOut' = 0 \/ availIn' = 0 THEN "idle" ELSE "loop"
  /\ UNCHANGED <<good, failed, whole, left, part, dataLen, z>>

\* What is in the buffer is inflated; that goes first.  After its end zlib says
\* again that it is at the end, and reads nothing.
Inflate ==
  /\ pc = "loop" /\ availIn # 0
  /\ IF AtEnd THEN UNCHANGED <<used, given, availIn, availOut, dataUnc, got>>
     ELSE \E <<u, n>> \in Inflated :
            /\ used' = used + u /\ availIn' = availIn - u
            /\ given' = given + n /\ availOut' = availOut - n
            /\ dataUnc' = dataUnc - n
            /\ got' = got \o [k \in 1..n |-> <<part, given + k>>]
  /\ pc' = IF availOut' = 0 THEN "idle" ELSE "loop"
  /\ UNCHANGED <<good, failed, whole, left, part, dataLen, z>>

\* The data of a file that is not whole may be such that zlib or libbz2 does
\* not understand them: what the call has given is of no use.
DataError ==
  /\ pc = "loop" /\ availIn # 0 /\ ~AtEnd /\ ~whole
  /\ failed' = TRUE /\ pc' = "idle"
  /\ UNCHANGED <<good, whole, left, part, dataLen, dataUnc, z, used, given, availIn,
                 availOut, got>>

-----------------------------------------------------------------------------
(* Reading the file *)

\* An exception: read() is never possible again.
Throw ==
  /\ good' = FALSE /\ failed' = TRUE /\ pc' = "idle"
  /\ UNCHANGED <<availOut, got>>

\* Mutant of Fill: the whole part is read.
FillWhole(len, there) ==
  /\ availIn' = len /\ dataLen' = 0
  /\ left' = there - Lowest(len, there)
  /\ IF len > there THEN Throw
     ELSE UNCHANGED <<pc, good, failed, availOut, got>>

\* The buffer is filled, from len units of the part and `there' of the file.
Fill(len, there) ==
  LET n == Lowest(len, BufSize)
  IN /\ availIn' = n /\ dataLen' = len - n
     /\ left' = there - Lowest(n, there)
     /\ IF n > there THEN Throw
        ELSE UNCHANGED <<pc, good, failed, availOut, got>>

Reading == pc = "loop" /\ availIn = 0

\* More of the same part
Refill ==
  /\ Reading /\ dataLen # 0
  /\ Fill(dataLen, left)
  /\ UNCHANGED <<whole, part, dataUnc, z, used, given>>

\* A header of a part that is not empty can be read.
PartFollows == left > 0 /\ part < Len(Parts) /\ Parts[part + 1].unc > 0

\* The file ends, or the DESC part follows, or the part is empty.
NoPart ==
  /\ Reading /\ dataLen = 0
  /\ ~PartFollows
  /\ Throw
  /\ UNCHANGED <<whole, left, part, dataLen, dataUnc, z, used, given, availIn>>

\* Mutant of NextPart: an inflater that can be used again is not reset.
NextPartAsIs ==
  /\ Reading /\ dataLen = 0
  /\ PartFollows
  /\ part' = part + 1 /\ dataUnc' = Parts[part + 1].unc
  /\ z' = Parts[part + 1].id
  /\ IF z' = z THEN UNCHANGED <<used, given>> ELSE used' = 0 /\ given' = 0
  /\ Fill(Parts[part + 1].len, left - 1) /\ UNCHANGED whole

\* Mutant of NextPart: what was left in the buffer is forgotten.
NextPartFirst ==
  /\ pc = "loop" /\ dataLen = 0
  /\ PartFollows
  /\ part' = part + 1 /\ dataUnc' = Parts[part + 1].unc
  /\ z' = Parts[part + 1].id /\ used' = 0 /\ given' = 0
  /\ Fill(Parts[part + 1].len, left - 1) /\ UNCHANGED whole

\* Mutant of NextPart: the header is counted as part of the data.
NextPartLonger ==
  /\ Reading /\ dataLen = 0
  /\ PartFollows
  /\ part' = part + 1 /\ dataUnc' = Parts[part + 1].unc
  /\ z' = Parts[part + 1].id /\ used' = 0 /\ given' = 0
  /\ Fill(Parts[part + 1].len + 1, left - 1) /\ UNCHANGED whole

\* The next part: an inflater of its kind is created, or the old one reset.
NextPart ==
  /\ Reading /\ dataLen = 0
  /\ PartFollows
  /\ part' = part + 1 /\ dataUnc' = Parts[part + 1].unc
  /\ z' = Parts[part + 1].id /\ used' = 0 /\ given' = 0
  /\ Fill(Parts[part + 1].len, left - 1) /\ UNCHANGED whole

-----------------------------------------------------------------------------
(* The calls *)

\* No caller goes on after an exception.
Read(n) ==
  /\ pc = "idle" /\ good /\ ~failed
  /\ pc' = "loop" /\ availOut' = n /\ failed' = FALSE
  /\ UNCHANGED <<good, whole, left, part, dataLen, dataUnc, z, used, given, availIn,
                 got>>

\* close(), of the destructor at the latest: the error of z is looked at, even
\* if there is no z.
Close ==
  /\ pc = "idle"
  /\ pc' = IF z = "none" THEN "crashed" ELSE "closed"
  /\ good' = FALSE /\ failed' = FALSE
  /\ UNCHANGED <<whole, left, part, dataLen, dataUnc, z, used, given, availIn,
                 availOut, got>>

Ended == pc \in {"closed", "crashed"} /\ UNCHANGED vars

InRead == Inflate \/ DataError \/ Refill \/ NoPart \/ NextPart

Next == InRead \/ (\E n \in 1..MaxRead : Read(n)) \/ Close \/ Ended

Spec == Init /\ [][Next]_vars /\ WF_vars(InRead)

-----------------------------------------------------------------------------
(* Properties *)

TypeOK ==
  /\ pc \in {"idle", "loop", "closed", "crashed"}
  /\ good \in BOOLEAN /\ whole \in BOOLEAN /\ failed \in BOOLEAN /\ left \in 0..FileLen
  /\ part \in 0..Len(Parts) /\ dataLen \in Nat /\ dataUnc \in Nat
  /\ z \in {"none", "gz", "bz"} /\ availIn \in 0..BufSize
  /\ availOut \in 0..MaxRead

\* The caller gets the bytes of all parts, none twice, none left out.
InOrder == IsPrefix(got, Content)

\* Assert(dataUnc == 0): when the compressed data of a part is used up, all of
\* its bytes were given, though they are counted in different places.
LengthsAgree == Reading /\ dataLen = 0 => dataUnc = 0

\* A call that has not failed has given all that was asked for.
ReadsAll == pc = "idle" /\ ~failed => availOut = 0

\* A file that is whole can be read to its last byte.
WholeFile == failed /\ whole => got = Content

\* No call hangs: []<>Idle.
Idle == pc # "loop"

\* A template need not have any compressed part.
CloseWorks == pc # "crashed"
=============================================================================
