------------------------------- MODULE Zobstream -------------------------------
(***************************************************************************)
(* The compressed parts of a template are written (src/zstream.cc,         *)
(* zstream-gz.cc, zstream-bz.cc).  Single bytes are collected in todoBuf;  *)
(* the compressor gets them and all that is written at once.  When it has  *)
(* seen (bzip2) or given out (zlib) enough, the part is finished and       *)
(* written with a header.                                                  *)
(*                                                                         *)
(* Bytes are numbered in the order in which they are sent.                 *)
(***************************************************************************)
EXTENDS Naturals, Sequences, SequencesExt

CONSTANTS
  Format,           \* "gz" or "bz"
  ChunkLim,         \* for zlib of the output, for bzip2 of the input
  TodoBufSize, ZIPDATA_SIZE,
  MaxBytes,         \* bound: bytes sent
  MaxWrite          \* bound: bytes in one call of write()

ZobstreamAssumption ==
  /\ Format \in {"gz", "bz"} /\ ChunkLim \in Nat \ {0}
  /\ TodoBufSize \in Nat \ {0} /\ ZIPDATA_SIZE \in Nat \ {0}
  /\ MaxBytes \in Nat /\ MaxWrite \in Nat

VARIABLES
  isOpen,
  sent,             \* how many bytes were sent
  todo,             \* todoBuf
  zin,              \* what the compressor has got of this part
  totalOut,         \* what it has given out of it
  zipBufs,          \* length of the list of output buffers
  parts             \* what is in the file

vars == <<isOpen, sent, todo, zin, totalOut, zipBufs, parts>>

Init ==
  /\ isOpen = TRUE /\ sent = 0 /\ todo = << >> /\ zin = << >>
  /\ totalOut = 0 /\ zipBufs = 0 /\ parts = << >>

World == [zin |-> zin, out |-> totalOut, bufs |-> zipBufs, parts |-> parts]

Becomes(w) ==
  /\ zin' = w.zin /\ totalOut' = w.out /\ zipBufs' = w.bufs /\ parts' = w.parts

-----------------------------------------------------------------------------
(* writeZipped() *)

\* How many buffers a given output takes
Buffers(out, bufs) ==
  LET needed == (out + ZIPDATA_SIZE - 1) \div ZIPDATA_SIZE
  IN IF needed > bufs THEN needed ELSE bufs

\* Mutant of BytesWritten: a buffer that is just full is taken for the last.
BytesWrittenShort(out, bufs) ==
  LET loop[n \in Nat, left \in Nat] ==
        LET len == IF n < ZIPDATA_SIZE THEN n ELSE ZIPDATA_SIZE
        IN IF left <= 1 \/ len <= ZIPDATA_SIZE THEN len
           ELSE len + loop[n - ZIPDATA_SIZE, left - 1]
  IN loop[out, bufs]

\* The loop over the list, which may be longer than this part needs
BytesWritten(out, bufs) ==
  LET loop[n \in Nat, left \in Nat] ==
        LET len == IF n < ZIPDATA_SIZE THEN n ELSE ZIPDATA_SIZE
        IN IF left <= 1 \/ len < ZIPDATA_SIZE THEN len
           ELSE len + loop[n - ZIPDATA_SIZE, left - 1]
  IN loop[out, bufs]

\* The compressor is finished: out bytes in all.
WriteZipped(w, out) ==
  LET bufs == Buffers(out, w.bufs)
      part == [data |-> w.zin, length |-> out,
               written |-> BytesWritten(out, bufs)]
  IN [zin |-> << >>, out |-> 0, bufs |-> bufs, parts |-> Append(w.parts, part)]

\* Bounds of the size of compressed data
Sizes(w, lowest) == lowest..(Len(w.zin) + 1)

-----------------------------------------------------------------------------
(* zip2() *)

\* ZobstreamGz::zip2()
GzZip(w, data, finish) ==
  LET fed == [w EXCEPT !.zin = @ \o data]
  IN IF finish \/ w.out > ChunkLim
     THEN {WriteZipped(fed, out) : out \in Sizes(fed, w.out)}
     ELSE {[fed EXCEPT !.out = out, !.bufs = Buffers(out, @)] :
             out \in {o \in Sizes(fed, w.out) : o <= Len(fed.zin)}}

AtLimit(w, data) ==
  Len(w.zin) <= ChunkLim /\ ChunkLim <= Len(w.zin) + Len(data)

\* Mutant of BzRun: avail_in is not adjusted.
BzRunWhole(w, data) ==
  LET fed == [w EXCEPT !.zin = @ \o data]
  IN IF data # << >> /\ AtLimit(w, data)
     THEN {WriteZipped(fed, out) : out \in Sizes(fed, 1)}
     ELSE {fed}

\* The data up to the limit make a part; what follows is compressed with
\* BZ_RUN, whatever the call has asked for.
RECURSIVE BzRun(_, _)
BzRun(w, data) ==
  IF data # << >> /\ AtLimit(w, data)
  THEN LET n == ChunkLim - Len(w.zin)
           fed == [w EXCEPT !.zin = @ \o SubSeq(data, 1, n)]
       IN UNION {BzRun(WriteZipped(fed, out), SubSeq(data, n + 1, Len(data))) :
                   out \in Sizes(fed, 1)}
  ELSE {[w EXCEPT !.zin = @ \o data]}

\* ZobstreamBz::zip2()
BzZip(w, data, finish) ==
  IF AtLimit(w, data) \/ ~finish THEN BzRun(w, data)
  ELSE LET fed == [w EXCEPT !.zin = @ \o data]
       IN {WriteZipped(fed, out) : out \in Sizes(fed, 1)}

ZipNow(w, data, finish) ==
  IF data = << >> /\ ~finish THEN {w}
  ELSE IF Format = "gz" THEN GzZip(w, data, finish) ELSE BzZip(w, data, finish)

-----------------------------------------------------------------------------
(* The calls *)

\* Mutant of Put: it is seen too late that todoBuf is full.
PutPast ==
  /\ isOpen /\ sent < MaxBytes /\ sent' = sent + 1
  /\ IF Len(todo) > TodoBufSize
     THEN /\ \E w \in ZipNow(World, todo, FALSE) : Becomes(w)
          /\ todo' = <<sent + 1>>
     ELSE /\ todo' = Append(todo, sent + 1)
          /\ UNCHANGED <<zin, totalOut, zipBufs, parts>>
  /\ UNCHANGED isOpen

\* put(): one byte
Put ==
  /\ isOpen /\ sent < MaxBytes /\ sent' = sent + 1
  /\ IF Len(todo) >= TodoBufSize
     THEN /\ \E w \in ZipNow(World, todo, FALSE) : Becomes(w)
          /\ todo' = <<sent + 1>>
     ELSE /\ todo' = Append(todo, sent + 1)
          /\ UNCHANGED <<zin, totalOut, zipBufs, parts>>
  /\ UNCHANGED isOpen

\* Mutant of Write: what was put before is left in todoBuf.
WritePast(n) ==
  /\ isOpen /\ sent + n <= MaxBytes /\ sent' = sent + n
  /\ \E w \in ZipNow(World, [i \in 1..n |-> sent + i], FALSE) : Becomes(w)
  /\ UNCHANGED <<isOpen, todo>>

\* write(): todoBuf first
Write(n) ==
  /\ isOpen /\ sent + n <= MaxBytes /\ sent' = sent + n
  /\ \E w1 \in ZipNow(World, todo, FALSE) :
       \E w2 \in ZipNow(w1, [i \in 1..n |-> sent + i], FALSE) : Becomes(w2)
  /\ todo' = << >> /\ UNCHANGED isOpen

\* Mutant of Close: the compressor is finished without todoBuf.
CloseUnflushed ==
  /\ isOpen /\ isOpen' = FALSE
  /\ \E w \in ZipNow(World, << >>, TRUE) : Becomes([w EXCEPT !.zin = << >>])
  /\ todo' = << >> /\ UNCHANGED sent

\* Mutant of Close: nothing more is compressed.
CloseOnly ==
  /\ isOpen /\ isOpen' = FALSE
  /\ Becomes([World EXCEPT !.zin = << >>])
  /\ todo' = << >> /\ UNCHANGED sent

\* close(): what the compressor has not finished is thrown away.
Close ==
  /\ isOpen /\ isOpen' = FALSE
  /\ \E w \in ZipNow(World, todo, TRUE) : Becomes([w EXCEPT !.zin = << >>])
  /\ todo' = << >> /\ UNCHANGED sent

Closed == ~isOpen /\ UNCHANGED vars

Next == Put \/ (\E n \in 1..MaxWrite : Write(n)) \/ Close \/ Closed

Spec == Init /\ [][Next]_vars

\* jigdo-file only calls write().
WriteOnly == (\E n \in 1..MaxWrite : Write(n)) \/ Close \/ Closed

WriteSpec == Init /\ [][WriteOnly]_vars

-----------------------------------------------------------------------------
(* Properties *)

TypeOK ==
  /\ isOpen \in BOOLEAN /\ sent \in 0..MaxBytes /\ Len(todo) <= TodoBufSize
  /\ totalOut \in Nat /\ zipBufs \in Nat /\ Len(zin) <= MaxBytes

InFile == FlattenSeq([i \in 1..Len(parts) |-> parts[i].data])

Everything == [i \in 1..sent |-> i]

\* The parts, what the compressor holds, and todoBuf are what was sent, in
\* the order in which it was sent.
NothingLost == isOpen => InFile \o zin \o todo = Everything

\* "Forces any remaining data to be compressed and written out"
AllWritten == ~isOpen => InFile = Everything

\* "No raw data sections may be present at all if the description data
\* contains no type==2 entries."
NothingForNothing == ~isOpen /\ sent = 0 => parts = << >>

\* The length in the header of a part is that of its data, also if they fill
\* the buffers exactly.
LengthRight == \A i \in 1..Len(parts) : parts[i].written = parts[i].length

\* A part of bzip2 has never more than the limit, and all but the last have it
\* exactly: "to hit the bzip2 block size exactly".
BlockExact ==
  Format = "bz" =>
    \A i \in 1..Len(parts) :
      /\ Len(parts[i].data) <= ChunkLim
      /\ i < Len(parts) => Len(parts[i].data) = ChunkLim
=============================================================================
