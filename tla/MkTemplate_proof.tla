-------------------------- MODULE MkTemplate_proof --------------------------
(***************************************************************************)
(* What scanImage() does to the ranges of the image, for every image, set  *)
(* of files, block length, buffer and queue size: types, contiguity of the *)
(* disposed areas and the sums of the DESC section.  The argument is the   *)
(* inductive invariant Inv; its heart is Claims, which says when data that *)
(* is no longer buffered can still be re-read.                             *)
(***************************************************************************)
EXTENDS MkTemplate, TLAPS, WellFoundedInduction, SequenceTheorems, FiniteSetTheorems

-----------------------------------------------------------------------------
(* The operators of PartialMatchQueue: which entries a queue has after an    *)
(* operation, and that the operators that choose an entry, a place or a      *)
(* sector length always find one.  T stands for the set of possible entries. *)

\* The set of the entries of a queue.
Entries(q) == {q[i] : i \in 1..Len(q)}

\* The same without the entry at index i.
Others(q, i) == {q[j] : j \in 1..Len(q) \ {i}}

\* findLowestStartOffset() finds an entry, and it has the lowest startOff.
LEMMA LowestStartOffsetFacts ==
  ASSUME NEW T, \A m \in T : m.startOff \in Nat,
         NEW q \in Seq(T), q # << >>
  PROVE  /\ LowestStartOffset(q) \in 1..Len(q)
         /\ \A j \in 1..Len(q) :
              q[LowestStartOffset(q)].startOff <= q[j].startOff
<1> DEFINE starts == {q[j].startOff : j \in 1..Len(q)}
<1>1. Len(q) \in Nat \ {0} /\ DOMAIN q = 1..Len(q)
  BY EmptySeq, LenProperties
<1>2. \A j \in 1..Len(q) : q[j] \in T /\ q[j].startOff \in Nat
  BY ElementOfSeq
<1>3. PICK low \in starts : \A s \in starts : low <= s
  <2>1. starts \subseteq Nat
    BY <1>2
  <2>2. q[1].startOff \in starts
    BY <1>1
  <2> QED
    BY <2>1, <2>2, MinExists
<1> DEFINE I == {j \in 1..Len(q) : q[j].startOff = low}
<1>4. PICK i \in I : \A j \in I : i <= j
  <2>1. I \subseteq Nat /\ I # {}
    BY <1>1, <1>3
  <2> QED
    BY <2>1, MinExists
<1>5. \A j \in 1..Len(q) : q[i].startOff <= q[j].startOff
  BY <1>3, <1>4
<1>6. ASSUME NEW j \in 1..(i - 1) PROVE q[i].startOff < q[j].startOff
  <2>1. j \in 1..Len(q) /\ j < i
    BY <1>1, <1>4
  <2>2. q[j].startOff # low
    BY <1>4, <2>1
  <2> QED
    BY <1>2, <1>4, <1>5, <2>1, <2>2
<1>7. \E k \in DOMAIN q :
        /\ \A j \in DOMAIN q : q[k].startOff <= q[j].startOff
        /\ \A j \in 1..(k - 1) : q[k].startOff < q[j].startOff
  BY <1>1, <1>4, <1>5, <1>6
<1> QED
  BY <1>1, <1>7 DEF LowestStartOffset

\* An insertion adds one entry, wherever it is put.
LEMMA InsertAtEntries ==
  ASSUME NEW T, NEW q \in Seq(T), NEW i \in 1..(Len(q) + 1), NEW e \in T
  PROVE  Entries(InsertAt(q, i, e)) = Entries(q) \cup {e}
<1> DEFINE r == InsertAt(q, i, e)
<1>1. Len(q) \in Nat /\ i \in Nat
  BY LenProperties
<1>2. /\ Len(r) = Len(q) + 1
      /\ \A k \in 1..(i - 1) : r[k] = q[k]
      /\ r[i] = e
      /\ \A k \in (i + 1)..(Len(q) + 1) : r[k] = q[k - 1]
  BY InsertAtFacts, SMTT(30)
<1> HIDE DEF r
<1>3. ASSUME NEW k \in 1..Len(r) PROVE r[k] \in Entries(q) \cup {e}
  <2>1. CASE k < i
    <3>1. k \in 1..Len(q) /\ r[k] = q[k]
      BY <1>1, <1>2, <2>1
    <3> QED
      BY <3>1 DEF Entries
  <2>2. CASE k = i
    BY <1>2, <2>2
  <2>3. CASE k > i
    <3>1. k - 1 \in 1..Len(q) /\ r[k] = q[k - 1]
      BY <1>1, <1>2, <2>3
    <3> QED
      BY <3>1 DEF Entries
  <2> QED
    BY <1>1, <1>2, <2>1, <2>2, <2>3
<1>4. ASSUME NEW j \in 1..Len(q) PROVE q[j] \in Entries(r)
  <2>1. CASE j < i
    <3>1. j \in 1..Len(r) /\ r[j] = q[j]
      BY <1>1, <1>2, <2>1
    <3> QED
      BY <3>1 DEF Entries
  <2>2. CASE j >= i
    <3>1. j + 1 \in 1..Len(r) /\ r[j + 1] = q[j]
      BY <1>1, <1>2, <2>2
    <3> QED
      BY <3>1 DEF Entries
  <2> QED
    BY <1>1, <2>1, <2>2
<1>5. e \in Entries(r)
  <2>1. i \in 1..Len(r) /\ r[i] = e
    BY <1>1, <1>2
  <2> QED
    BY <2>1 DEF Entries
<1>6. Entries(r) = Entries(q) \cup {e}
  BY <1>3, <1>4, <1>5 DEF Entries
<1> QED
  BY <1>6 DEF r

\* So does setNextEvent() for a new entry.
LEMMA InsertByEventFacts ==
  ASSUME NEW T, \A m \in T : m.nextEv \in Nat,
         NEW q \in Seq(T), NEW e \in T
  PROVE  /\ InsertByEvent(q, e) \in Seq(T)
         /\ Len(InsertByEvent(q, e)) = Len(q) + 1
         /\ Entries(InsertByEvent(q, e)) = Entries(q) \cup {e}
<1>1. PICK i \in 1..(Len(q) + 1) : i = InsertPosition(q, e.nextEv)
  BY InsertPositionFacts
<1>2. InsertByEvent(q, e) = InsertAt(q, i, e)
  BY <1>1 DEF InsertByEvent
<1> QED
  BY <1>2, InsertAtFacts, InsertAtEntries

\* A removal takes away the entry at its index, and only that.
LEMMA RemoveAtEntries ==
  ASSUME NEW T, NEW q \in Seq(T), NEW i \in 1..Len(q)
  PROVE  Entries(RemoveAt(q, i)) = Others(q, i)
<1> DEFINE r == RemoveAt(q, i)
<1>1. Len(q) \in Nat /\ i \in Nat
  BY LenProperties
<1>2. /\ Len(r) = Len(q) - 1
      /\ \A k \in 1..(Len(q) - 1) : r[k] = IF k < i THEN q[k] ELSE q[k + 1]
  BY RemoveAtFacts, Zenon
<1> HIDE DEF r
<1>3. ASSUME NEW k \in 1..Len(r)
      PROVE  r[k] \in Others(q, i)
  <2>1. CASE k < i
    <3>1. k \in 1..Len(q) \ {i} /\ r[k] = q[k]
      BY <1>1, <1>2, <2>1
    <3> QED
      BY <3>1 DEF Others
  <2>2. CASE k >= i
    <3>1. k + 1 \in 1..Len(q) \ {i} /\ r[k] = q[k + 1]
      BY <1>1, <1>2, <2>2
    <3> QED
      BY <3>1 DEF Others
  <2> QED
    BY <1>1, <1>2, <2>1, <2>2
<1>4. ASSUME NEW j \in 1..Len(q) \ {i} PROVE q[j] \in Entries(r)
  <2>1. CASE j < i
    <3>1. j \in 1..Len(r) /\ r[j] = q[j]
      BY <1>1, <1>2, <2>1
    <3> QED
      BY <3>1 DEF Entries
  <2>2. CASE j > i
    <3>1. j - 1 \in 1..Len(r) /\ r[j - 1] = q[j]
      BY <1>1, <1>2, <2>2
    <3> QED
      BY <3>1 DEF Entries
  <2> QED
    BY <1>1, <2>1, <2>2
<1>5. Entries(r) = Others(q, i)
  BY <1>3, <1>4 DEF Entries, Others
<1> QED
  BY <1>5 DEF r

\* eraseFront() takes away the first entry.
LEMMA EraseFrontFacts ==
  ASSUME NEW T, NEW q \in Seq(T), q # << >>
  PROVE  /\ EraseFront(q) \in Seq(T)
         /\ Len(EraseFront(q)) = Len(q) - 1
         /\ Entries(EraseFront(q)) = Others(q, 1)
<1> DEFINE r == EraseFront(q)
<1>1. Len(q) \in Nat \ {0}
  BY EmptySeq
<1>2. /\ r \in Seq(T) /\ Len(r) = Len(q) - 1
      /\ \A k \in 1..Len(r) : r[k] = q[k + 1]
  BY HeadTailProperties DEF EraseFront
<1> HIDE DEF r
<1>3. ASSUME NEW j \in 1..Len(q) \ {1} PROVE q[j] \in Entries(r)
  <2>1. j - 1 \in 1..Len(r) /\ r[j - 1] = q[j]
    BY <1>1, <1>2
  <2> QED
    BY <2>1 DEF Entries
<1>4. ASSUME NEW k \in 1..Len(r)
      PROVE  r[k] \in Others(q, 1)
  <2>1. k + 1 \in 1..Len(q) \ {1} /\ r[k] = q[k + 1]
    BY <1>1, <1>2
  <2> QED
    BY <2>1 DEF Others
<1>5. Entries(r) = Others(q, 1)
  BY <1>3, <1>4 DEF Entries, Others
<1> QED
  BY <1>2, <1>5 DEF r

\* eraseStartOffsetLess() empties a queue whose entries all start before o.
LEMMA EraseStartOffsetLessAll ==
  ASSUME NEW T, \A m \in T : m.startOff \in Nat,
         NEW q \in Seq(T), NEW o \in Nat,
         \A m \in Entries(q) : m.startOff < o
  PROVE  EraseStartOffsetLess(q, o) = << >>
<1>1. DOMAIN q = 1..Len(q) /\ Len(q) \in Nat
  BY LenProperties
<1>2. \A i \in 1..Len(q) : q[i].startOff \in Nat /\ q[i].startOff < o
  BY ElementOfSeq DEF Entries
<1> DEFINE kept == {i \in DOMAIN q : q[i].startOff >= o}
           chosen(k) == q[CHOOSE i \in kept :
                            Cardinality({j \in kept : j <= i}) = k]
<1>3. kept = {}
  BY <1>1, <1>2
<1>4. Cardinality(kept) = 0
  BY <1>3, FS_EmptySet
<1>5. EraseStartOffsetLess(q, o) = [k \in 1..Cardinality(kept) |-> chosen(k)]
  BY DEF EraseStartOffsetLess
<1> HIDE DEF kept, chosen
<1> QED
  BY <1>4, <1>5

\* The doubling loop of findDropCandidate() stops.
LEMMA DropSectorLengthFacts ==
  ASSUME NEW q, NEW s0 \in SectorLengths, NEW newStart
  PROVE  DropSectorLength(q, s0, newStart) \in SectorLengths
<1> DEFINE S == {s \in SectorLengths : s >= s0 /\ StopsAt(q, s, newStart)}
<1>1. SectorLengths \subseteq Nat /\ MaxSectorLength \in SectorLengths
  BY QueueAssumption DEF SectorLengths
<1>2. MaxSectorLength >= s0
  BY QueueAssumption DEF SectorLengths
<1>3. MaxSectorLength \in S
  BY <1>1, <1>2 DEF StopsAt
<1>4. PICK s \in S : \A r \in S : s <= r
  BY <1>1, <1>3, MinExists
<1>5. \A r \in SectorLengths : r >= s0 /\ r < s => ~StopsAt(q, r, newStart)
  BY <1>1, <1>4
<1>6. \E t \in SectorLengths :
        /\ t >= s0 /\ StopsAt(q, t, newStart)
        /\ \A r \in SectorLengths : r >= s0 /\ r < t => ~StopsAt(q, r, newStart)
  BY <1>4, <1>5
<1> QED
  BY <1>6 DEF DropSectorLength

\* findDropCandidate() returns no entry, or one that is not the first with
\* the lowest startOff.
LEMMA DropCandidateFacts ==
  ASSUME NEW T, NEW q \in Seq(T), NEW s \in SectorLengths, NEW newStart,
         DropCandidate(q, s, newStart) # 0
  PROVE  DropCandidate(q, s, newStart) \in 1..Len(q) \ {LowestStartOffset(q)}
<1> DEFINE D == Droppable(q, s)
<1>1. D \subseteq 1..Len(q) \ {LowestStartOffset(q)}
  BY LenProperties DEF Droppable
<1>2. D # {}
  BY DEF DropCandidate
<1>3. D \subseteq Nat
  BY <1>1, LenProperties
<1>4. \E i \in D : \A j \in D : i <= j
  BY <1>2, <1>3, MinExists
<1>5. DropCandidate(q, s, newStart) = CHOOSE i \in D : \A j \in D : i <= j
  BY DEF DropCandidate
<1>6. DropCandidate(q, s, newStart) \in D
  BY <1>4, <1>5, Zenon
<1> QED
  BY <1>1, <1>6

-----------------------------------------------------------------------------
(* The scan *)

\* The queue's entries are about the image scanned so far.
EntryOK(m) ==
  /\ m.startOff + BlockLength <= off
  /\ m.nextEv <= m.startOff + Len(Content[m.filePart])

\* Everything before out.start is dealt with, nothing after it; if a pending
\* match starts before the oldest byte in the buffer, one starts at out.start,
\* so that its file can provide the data.
Claims ==
  /\ out.start <= off
  /\ \A m \in Entries(matches) : out.start <= m.startOff /\ EntryOK(m)
  /\ \/ \E m \in Entries(matches) : m.startOff = out.start
     \/ \A m \in Entries(matches) : m.startOff >= off + n - BufferLength

\* The areas up to o.start have been disposed of one after the other.
Settled(o) == o.areaEnd = o.start /\ o.descOff = o.start /\ ~o.failed

LoopOK ==
  /\ n <= ReadAmount
  /\ pc \in {"read", "end"} => n = 0
  /\ pc = "roll" => nextEvent <= off + n

Inv ==
  /\ TypeOK /\ image \in Images
  /\ LoopOK
  /\ Settled(out)
  /\ pc # "done" => Claims /\ result = "none"
  /\ DescCoversImage

-----------------------------------------------------------------------------
(* Facts about the constants and the operators *)

\* What ScanAssumption says, without the files and images.
LEMMA Constants ==
  /\ BlockLength \in Nat \ {0} /\ CsumBlockLength \in Nat
  /\ ReadAmount \in Nat \ {0} /\ Word \in Nat \ {0}
  /\ MaxMatches \in Nat \ {0}
  BY ScanAssumption, QueueAssumption

\* Sizes of files.
LEMMA FileFacts ==
  ASSUME NEW f \in Files
  PROVE  /\ Content[f] \in Seq(Byte) /\ Len(Content[f]) \in Nat
         /\ Len(Content[f]) + BufferLength <= Word
  BY ScanAssumption, LenProperties

\* The positions in Hashed are positions of files.
LEMMA HashedFacts ==
  ASSUME NEW i \in Hashed
  PROVE  FileSeq[i] \in Files
  BY ScanAssumption, LenProperties DEF Hashed

\* run() makes the buffer large enough for a window and a read.
LEMMA BufferLengthBounds ==
  /\ BufferLength \in Nat \ {0}
  /\ BufferLength >= ReadAmount + BlockLength
<1> DEFINE b == 2 * BufferHalf
           q == (b + ReadAmount - 1) \div ReadAmount
<1>1. /\ BufferHalf \in Nat /\ BufferHalf >= BlockLength
      /\ BufferHalf >= ReadAmount /\ ReadAmount \in Nat \ {0}
      /\ BlockLength \in Nat
  BY ScanAssumption DEF BufferHalf, Max2
<1>2. q \in Int
  BY <1>1
<1>3. \A x \in Int, y \in Nat \ {0} : ((x + y - 1) \div y) * y >= x
  OBVIOUS
<1>4. q * ReadAmount >= b /\ q * ReadAmount \in Int
  BY <1>1, <1>2, <1>3
<1>5. BufferLength = q * ReadAmount
  BY DEF BufferLength
<1> HIDE DEF q
<1> QED
  BY <1>1, <1>4, <1>5

\* Min2 is a lower bound, and one of its arguments.
LEMMA Min2Facts ==
  ASSUME NEW a \in Int, NEW b \in Int
  PROVE  /\ Min2(a, b) \in {a, b} /\ Min2(a, b) <= a /\ Min2(a, b) <= b
  BY DEF Min2

\* modAdd() stays in the buffer.
LEMMA ModAddFacts ==
  ASSUME NEW a \in 0..(BufferLength - 1), NEW b \in 0..BufferLength
  PROVE  ModAdd(a, b) \in 0..(BufferLength - 1)
  BY BufferLengthBounds DEF ModAdd

\* Whatever the offsets, writeBuf() writes bytes.
LEMMA BufRangeType ==
  ASSUME buf \in [0..(BufferLength - 1) -> Byte],
         NEW begin \in Int, NEW end \in Int
  PROVE  BufRange(begin, end) \in Seq(Byte)
<1> DEFINE k == IF begin < end THEN end - begin ELSE BufferLength - begin + end
           e(i) == buf[(begin + i - 1) % BufferLength]
<1>1. BufferLength \in Nat \ {0} /\ k \in Int
  BY BufferLengthBounds
<1>2. \A i \in Int : e(i) \in Byte
  BY <1>1
<1>3. BufRange(begin, end) = [i \in 1..k |-> e(i)]
  BY DEF BufRange
<1> HIDE DEF k, e
<1>4. [i \in 1..k |-> e(i)] \in Seq(Byte)
  <2>1. CASE k < 0
    <3>1. 1..k = 1..0
      BY <1>1, <2>1
    <3>2. [i \in 1..0 |-> e(i)] \in Seq(Byte)
      BY <1>2
    <3> QED
      BY <3>1, <3>2
  <2>2. CASE k >= 0
    BY <1>1, <1>2, <2>2
  <2> QED
    BY <1>1, <2>1, <2>2
<1> QED
  BY <1>3, <1>4

\* So does every part of the buffer that is written out.
LEMMA BufferedType ==
  ASSUME TypeOK, NEW start \in Int, NEW len \in Int
  PROVE  Buffered(start, len) \in Seq(Byte)
<1>1. off \in Int /\ data \in Int /\ BufferLength \in Int
  BY BufferLengthBounds DEF TypeOK
<1>2. ModSub(data, off - start) \in Int
  BY <1>1 DEF ModSub
<1>3. ModAdd(ModSub(data, off - start), len) \in Int
  BY <1>1, <1>2 DEF ModAdd
<1> QED
  BY <1>2, <1>3, BufRangeType DEF Buffered, TypeOK

\* rereadUnmatched() gets bytes out of a file.
LEMMA RereadType ==
  ASSUME NEW f \in Files, NEW count \in Int
  PROVE  RereadData(f, count) \in Seq(Byte)
<1> DEFINE k == Min2(count, Len(Content[f]))
<1>1. k \in Int /\ k <= Len(Content[f])
  BY FileFacts DEF Min2
<1> HIDE DEF k
<1>2. \A i \in 1..k : Content[f][i] \in Byte
  BY <1>1, FileFacts, ElementOfSeq
<1>3. SubSeq(Content[f], 1, k) \in Seq(Byte)
  BY <1>1, <1>2, SubSeqProperties
<1> QED
  BY <1>3 DEF RereadData, k

-----------------------------------------------------------------------------
(* Facts about the template *)

\* Desc::unmatchedData() adds an entry or lets the last one grow.
LEMMA AddUnmatchedType ==
  ASSUME NEW d \in Seq(DescEntry), NEW o \in Nat, NEW len \in Nat
  PROVE  AddUnmatched(d, o, len) \in Seq(DescEntry)
<1>1. Unmatched(o, len) \in DescEntry
  BY DEF Unmatched, DescEntry
<1>2. CASE d # << >> /\ d[Len(d)].type = "unmatched"
  <2>1. Len(d) \in 1..Len(d)
    BY <1>2, EmptySeq
  <2>2. d[Len(d)] \in DescEntry
    BY <2>1, ElementOfSeq
  <2>3. d[Len(d)] \in [type : {"unmatched"}, offset : Nat, size : Nat]
    BY <1>2, <2>2 DEF DescEntry
  <2>4. [d[Len(d)] EXCEPT !.size = @ + len] \in DescEntry
    BY <2>3 DEF DescEntry
  <2>5. [d EXCEPT ![Len(d)] = [d[Len(d)] EXCEPT !.size = @ + len]] \in Seq(DescEntry)
    BY <2>1, <2>4, ExceptSeq
  <2> QED
    BY <1>2, <2>5 DEF AddUnmatched
<1>3. CASE ~(d # << >> /\ d[Len(d)].type = "unmatched")
  BY <1>1, <1>3 DEF AddUnmatched
<1> QED
  BY <1>2, <1>3

\* An area that starts where the last one ended.
LEMMA AreaFacts ==
  ASSUME NEW o \in Output, Settled(o), NEW to \in Nat, o.start <= to,
         NEW bytes \in Seq(Byte)
  PROVE  /\ Area(o, o.start, to, bytes) \in Output
         /\ Settled(Area(o, o.start, to, bytes))
         /\ Area(o, o.start, to, bytes).start = to
<1>1. /\ o.start \in Nat /\ o.desc \in Seq(DescEntry) /\ o.descOff \in Nat
      /\ o.zip \in Seq(Byte) /\ o.failed \in BOOLEAN
  BY DEF Output
<1>2. to - o.start \in Nat
  BY <1>1
<1>3. AddUnmatched(o.desc, o.descOff, to - o.start) \in Seq(DescEntry)
  BY <1>1, <1>2, AddUnmatchedType
<1>4. o.zip \o bytes \in Seq(Byte)
  BY <1>1, ConcatProperties
<1>5. o.descOff + (to - o.start) = to
  BY <1>1 DEF Settled
<1>6. ~(o.failed \/ o.areaEnd # o.start)
  BY DEF Settled
<1>7. Area(o, o.start, to, bytes) =
        [start |-> to, desc |-> AddUnmatched(o.desc, o.descOff, to - o.start),
         descOff |-> to, zip |-> o.zip \o bytes, areaEnd |-> to,
         failed |-> FALSE]
  BY <1>5, <1>6 DEF Area
<1> QED
  BY <1>3, <1>4, <1>7 DEF Output, Settled

\* The flush of buffered data.
LEMMA FlushFacts ==
  ASSUME TypeOK, NEW o \in Output, Settled(o), NEW to \in Nat
  PROVE  /\ Flush(o, to) \in Output
         /\ Settled(Flush(o, to))
         /\ Flush(o, to).start = IF o.start < to THEN to ELSE o.start
<1>1. o.start \in Nat
  BY DEF Output
<1>2. CASE o.start < to
  <2>1. Buffered(o.start, to - o.start) \in Seq(Byte)
    BY <1>1, BufferedType
  <2> QED
    BY <1>1, <1>2, <2>1, AreaFacts DEF Flush
<1>3. CASE ~(o.start < to)
  BY <1>3 DEF Flush
<1> QED
  BY <1>2, <1>3

\* A match that starts where the last area ended and ends at off.
LEMMA MatchAreaFacts ==
  ASSUME NEW o \in Output, Settled(o), NEW f \in Files, off \in Nat,
         o.start + Len(Content[f]) = off
  PROVE  /\ MatchArea(o, o.start, f) \in Output
         /\ Settled(MatchArea(o, o.start, f))
         /\ MatchArea(o, o.start, f).start = off
<1>1. /\ o.start \in Nat /\ o.desc \in Seq(DescEntry) /\ o.descOff \in Nat
      /\ o.zip \in Seq(Byte) /\ o.failed \in BOOLEAN
  BY DEF Output
<1>2. Matched(o.descOff, f) \in DescEntry
  BY <1>1, FileFacts DEF Matched, DescEntry
<1>3. Append(o.desc, Matched(o.descOff, f)) \in Seq(DescEntry)
  BY <1>1, <1>2
<1>4. o.descOff + Len(Content[f]) = off /\ o.areaEnd = o.start /\ ~o.failed
  BY DEF Settled
<1>5. MatchArea(o, o.start, f) =
        [o EXCEPT !.start = off, !.desc = Append(o.desc, Matched(o.descOff, f)),
                  !.descOff = off, !.areaEnd = off, !.failed = FALSE]
  BY <1>4 DEF MatchArea
<1> QED
  BY <1>3, <1>5 DEF Output, Settled

-----------------------------------------------------------------------------
(* Facts about the entries of the queue *)

\* Types of an entry's fields.
LEMMA MatchTypes ==
  \A m \in Match : /\ m.startOff \in Nat /\ m.nextEv \in Nat
                   /\ m.blockOff \in Nat /\ m.blockNr \in Nat
                   /\ m.filePart \in Files
  BY DEF Match

\* Every entry of the queue is a Match.
LEMMA EntryTypes ==
  ASSUME NEW q \in Seq(Match)
  PROVE  Entries(q) \subseteq Match
  BY ElementOfSeq DEF Entries

\* An index of the queue is that of an entry.
LEMMA EntryAt ==
  ASSUME NEW q, NEW i \in 1..Len(q)
  PROVE  q[i] \in Entries(q)
  BY DEF Entries

\* Entries of an empty queue.
LEMMA NoEntries == Entries(<< >>) = {}
  BY DEF Entries

\* front() of a queue that is not empty.
LEMMA FrontFacts ==
  ASSUME NEW q \in Seq(Match), q # << >>
  PROVE  /\ Len(q) \in Nat \ {0} /\ 1 \in 1..Len(q)
         /\ q[1] \in Match /\ q[1] \in Entries(q)
  BY EmptySeq, ElementOfSeq, EntryAt

\* lowestStartOffset() of a queue that is not empty.
LEMMA OldestFacts ==
  ASSUME NEW q \in Seq(Match), q # << >>
  PROVE  /\ LowestStartOffset(q) \in 1..Len(q)
         /\ q[LowestStartOffset(q)] \in Match
         /\ q[LowestStartOffset(q)] \in Entries(q)
         /\ \A m \in Entries(q) : q[LowestStartOffset(q)].startOff <= m.startOff
<1>1. /\ LowestStartOffset(q) \in 1..Len(q)
      /\ \A j \in 1..Len(q) : q[LowestStartOffset(q)].startOff <= q[j].startOff
  BY MatchTypes, LowestStartOffsetFacts
<1> QED
  BY <1>1, ElementOfSeq DEF Entries

-----------------------------------------------------------------------------
(* The invariant holds initially and is preserved by every action *)

\* Nothing is scanned, queued or written yet.
LEMMA InitInv == Init => Inv
<1> SUFFICES ASSUME Init PROVE Inv
  OBVIOUS
<1>1. BufferLength - BlockLength \in 0..(BufferLength - 1)
  BY Constants, BufferLengthBounds
<1>2. buf \in [0..(BufferLength - 1) -> Byte]
  BY ScanAssumption DEF Init
<1>3. out \in Output
  BY DEF Init, Output
<1>4. image \in Seq(Byte) /\ Len(image) \in Nat
  BY ScanAssumption, LenProperties DEF Init
<1>5. fpState \in [Files -> {"head", "all", "deleted"}]
  BY DEF Init
<1>6. TypeOK
  <2>1. /\ matches \in Seq(Match) /\ Len(matches) = 0
        /\ matchedParts \in Seq(Files)
    BY EmptySeq DEF Init
  <2>2. /\ data \in 0..BufferLength /\ rsumBack \in 0..(BufferLength - 1)
        /\ off \in Nat /\ n \in Nat /\ data + n <= BufferLength
        /\ off + n <= Len(image) /\ nextEvent \in Nat
    BY <1>1, <1>4, BufferLengthBounds DEF Init
  <2>3. sectorLength \in SectorLengths /\ 0 <= MaxMatches
    BY QueueAssumption, Constants DEF Init
  <2>4. todo \subseteq Hashed /\ lost \subseteq Files
    BY DEF Init
  <2>5. /\ pc = "read" /\ result = "none"
        /\ eof \in BOOLEAN /\ fast \in BOOLEAN /\ dropped \in BOOLEAN
    BY DEF Init
  <2> QED
    BY <1>2, <1>3, <1>4, <1>5, <2>1, <2>2, <2>3, <2>4, <2>5 DEF TypeOK
<1>7. LoopOK
  BY Constants DEF Init, LoopOK
<1>8. Settled(out)
  BY DEF Init, Settled
<1>9. Claims
  BY NoEntries DEF Init, Claims
<1> QED
  BY <1>6, <1>7, <1>8, <1>9 DEF Init, Inv, DescCoversImage, Settled

\* The flush before a read keeps what a pending match may need: either the
\* oldest match now starts at out.start, or it is within the buffer.
LEMMA ReadChunkInv ==
  ASSUME Inv, ReadChunk
  PROVE  Inv'
<1> DEFINE amount == Min2(ReadAmount, BufferLength - data)
           got    == Min2(amount, Len(image) - off)
           limit  == IF off > BlockLength THEN off - BlockLength ELSE 0
<1>1. /\ TypeOK /\ LoopOK /\ Settled(out) /\ Claims /\ n = 0 /\ image \in Images
      /\ result = "none"
  BY DEF Inv, ReadChunk, LoopOK
<1>2. /\ off \in Nat /\ data \in 0..BufferLength /\ out \in Output
      /\ out.start \in Nat /\ matches \in Seq(Match) /\ image \in Seq(Byte)
      /\ Len(image) \in Nat /\ off <= Len(image)
      /\ buf \in [0..(BufferLength - 1) -> Byte]
  BY <1>1, LenProperties DEF TypeOK, Output
<1>3. /\ amount \in Nat /\ amount <= ReadAmount /\ data + amount <= BufferLength
  BY <1>2, Constants, BufferLengthBounds DEF Min2
<1>4. /\ got \in Nat /\ got <= amount /\ off + got <= Len(image)
  BY <1>2, <1>3 DEF Min2
<1>5. /\ limit \in Nat /\ limit <= off /\ off - BlockLength <= limit
  BY <1>2, Constants
<1>6. /\ NewUnmatchedStart \in Nat /\ NewUnmatchedStart <= limit
      /\ \A m \in Entries(matches) : NewUnmatchedStart <= m.startOff
      /\ matches # << >> =>
           \/ NewUnmatchedStart = limit
           \/ \E m \in Entries(matches) : m.startOff = NewUnmatchedStart
  <2>1. CASE matches = << >>
    BY <1>5, <2>1, NoEntries DEF NewUnmatchedStart
  <2>2. CASE matches # << >>
    <3> DEFINE low == matches[LowestStartOffset(matches)]
    <3>1. /\ low \in Entries(matches) /\ low.startOff \in Nat
          /\ \A m \in Entries(matches) : m.startOff \in Nat /\ low.startOff <= m.startOff
      BY <1>2, <2>2, OldestFacts, EntryTypes, MatchTypes
    <3>2. NewUnmatchedStart = Min2(limit, low.startOff)
      BY <2>2 DEF NewUnmatchedStart
    <3> HIDE DEF low, limit
    <3> QED
      BY <1>5, <3>1, <3>2 DEF Min2
  <2> QED
    BY <2>1, <2>2
<1>7. /\ out' \in Output /\ Settled(out')
      /\ out'.start = IF out.start < NewUnmatchedStart THEN NewUnmatchedStart
                      ELSE out.start
  BY <1>1, <1>2, <1>6, FlushFacts DEF ReadChunk
<1>8. /\ n' = got /\ off' = off /\ matches' = matches /\ data' = data
      /\ image' = image /\ pc' = IF got = 0 THEN "end" ELSE "scan"
      /\ buf' = [i \in DOMAIN buf |-> IF data <= i /\ i < data + got
                                     THEN image[off + (i - data) + 1] ELSE buf[i]]
      /\ eof' = (got < amount) /\ result' = "none"
  BY <1>1 DEF ReadChunk, queueVars
<1> HIDE DEF amount, got, limit
<1>9. buf' \in [0..(BufferLength - 1) -> Byte]
  <2>1. \A i \in DOMAIN buf : data <= i /\ i < data + got =>
          image[off + (i - data) + 1] \in Byte
    BY <1>2, <1>4, BufferLengthBounds, ElementOfSeq
  <2> QED
    BY <1>2, <1>8, <2>1
<1>10. TypeOK'
  <2>1. /\ image' \in Seq(Byte) /\ eof' \in BOOLEAN /\ data' \in 0..BufferLength
        /\ off' \in Nat /\ n' \in Nat /\ data' + n' <= BufferLength
        /\ off' + n' <= Len(image') /\ pc' \in {"end", "scan"}
    BY <1>2, <1>3, <1>4, <1>8, BufferLengthBounds
  <2> QED
    BY <1>1, <1>7, <1>9, <2>1
    DEF TypeOK, ReadChunk, queueVars, fileVars
<1>11. LoopOK'
  BY <1>3, <1>4, <1>8, Constants DEF LoopOK
<1>12. Claims'
  <2>1. out'.start <= off
    BY <1>1, <1>2, <1>5, <1>6, <1>7 DEF Claims
  <2>2. \A m \in Entries(matches) : out'.start <= m.startOff
    BY <1>1, <1>6, <1>7 DEF Claims
  <2>3. \/ \E m \in Entries(matches) : m.startOff = out'.start
        \/ \A m \in Entries(matches) : m.startOff >= off + got - BufferLength
    <3>1. CASE matches = << >>
      BY <3>1, NoEntries
    <3>2. CASE matches # << >> /\ NewUnmatchedStart = limit
      <4>1. \A m \in Entries(matches) : m.startOff \in Nat /\ m.startOff >= limit
        BY <1>2, <1>6, <3>2, EntryTypes, MatchTypes
      <4> QED
        BY <1>2, <1>3, <1>4, <1>5, <4>1, Constants, BufferLengthBounds
    <3>3. CASE \E m \in Entries(matches) : m.startOff = NewUnmatchedStart
      <4>1. PICK m \in Entries(matches) : m.startOff = NewUnmatchedStart
        BY <3>3
      <4>2. out.start <= m.startOff
        BY <1>1 DEF Claims
      <4> QED
        BY <1>2, <1>6, <1>7, <4>1, <4>2
    <3> QED
      BY <1>6, <3>1, <3>2, <3>3
  <2>4. \A m \in Entries(matches) : EntryOK(m)'
    BY <1>1, <1>8 DEF Claims, EntryOK
  <2> QED
    BY <1>8, <2>1, <2>2, <2>3, <2>4 DEF Claims
<1> QED
  BY <1>1, <1>7, <1>8, <1>10, <1>11, <1>12 DEF Inv, DescCoversImage, Settled

\* The parts of Inv that an action leaves alone when it touches neither the
\* queue nor the output.
LEMMA ClaimsKept ==
  ASSUME TypeOK, Claims, matches' = matches, out' = out,
         NEW len \in Nat, off' = off + len, n' = n - len
  PROVE  Claims'
<1>1. off \in Nat /\ n \in Nat /\ out.start \in Nat /\ matches \in Seq(Match)
  BY DEF TypeOK, Output
<1>2. \A m \in Entries(matches) : m.startOff \in Nat
  BY <1>1, EntryTypes, MatchTypes
<1>3. out'.start <= off'
  BY <1>1 DEF Claims
<1>4. \A m \in Entries(matches) : EntryOK(m)'
  BY <1>1, <1>2, Constants DEF Claims, EntryOK
<1>5. \A m \in Entries(matches) : out'.start <= m.startOff
  BY DEF Claims
<1>6. \/ \E m \in Entries(matches) : m.startOff = out'.start
      \/ \A m \in Entries(matches) : m.startOff >= off' + n' - BufferLength
  <2>1. off' + n' - BufferLength <= off + n - BufferLength
    BY <1>1, BufferLengthBounds
  <2>2. \/ \E m \in Entries(matches) : m.startOff = out.start
        \/ \A m \in Entries(matches) : m.startOff >= off + n - BufferLength
    BY DEF Claims
  <2> QED
    BY <1>1, <1>2, <2>1, <2>2, BufferLengthBounds
<1> QED
  BY <1>3, <1>4, <1>5, <1>6 DEF Claims

\* The innermost loop is never to run past what has been read.
LEMMA ScheduleInv ==
  ASSUME Inv, Schedule
  PROVE  Inv'
<1>1. /\ TypeOK /\ LoopOK /\ Claims
      /\ pc' = "roll" /\ off' = off /\ n' = n /\ matches' = matches /\ out' = out
  BY DEF Inv, Schedule, bufVars
<1>2. off \in Nat /\ n \in Nat /\ matches \in Seq(Match)
  BY <1>1 DEF TypeOK
<1>3. nextEvent' \in Nat /\ nextEvent' <= off + n
  <2>1. CASE matches = << >>
    BY <1>2, <2>1 DEF Schedule
  <2>2. CASE matches # << >>
    <3>1. matches[1].nextEv \in Nat
      BY <1>2, <2>2, FrontFacts, MatchTypes
    <3> QED
      BY <1>2, <2>2, <3>1 DEF Schedule, Min2
  <2> QED
    BY <2>1, <2>2
<1>4. sectorLength' \in SectorLengths /\ fast' \in BOOLEAN
  BY <1>1, QueueAssumption DEF Schedule, TypeOK, Full
<1>5. TypeOK'
  BY <1>1, <1>3, <1>4 DEF Schedule, TypeOK, imageVars, bufVars, fileVars
<1>6. LoopOK'
  BY <1>1, <1>3 DEF LoopOK
<1>7. Claims'
  <2>1. off' = off + 0 /\ n' = n - 0
    BY <1>1, <1>2
  <2> QED
    BY <1>1, <2>1, ClaimsKept
<1> QED
  BY <1>1, <1>5, <1>6, <1>7
  DEF Inv, Schedule, DescCoversImage, Settled, imageVars

\* Both innermost loops: they go on by len bytes, at most up to the next event.
LEMMA AdvanceInv ==
  ASSUME Inv, pc = "roll", NEW len \in Nat, len <= nextEvent - off, Advance(len),
         todo' \subseteq Hashed, dropped' \in BOOLEAN,
         UNCHANGED <<imageVars, buf, pc, nextEvent, fast, matches, sectorLength,
                     out, matchedParts, fileVars, result>>
  PROVE  Inv'
<1>1. /\ TypeOK /\ LoopOK /\ Claims
      /\ off' = off + len /\ n' = n - len /\ data' = data + len
      /\ rsumBack' = ModAdd(rsumBack, len)
      /\ nextEvent <= off + n
  BY DEF Inv, LoopOK, Advance
<1>2. /\ off \in Nat /\ n \in Nat /\ nextEvent \in Nat /\ data \in 0..BufferLength
      /\ data + n <= BufferLength /\ rsumBack \in 0..(BufferLength - 1)
      /\ off + n <= Len(image) /\ image \in Seq(Byte) /\ Len(image) \in Nat
  BY <1>1, LenProperties DEF TypeOK
<1>3. len <= n
  BY <1>1, <1>2
<1>4. /\ off' \in Nat /\ n' \in Nat /\ data' \in 0..BufferLength
      /\ data' + n' <= BufferLength /\ off' + n' = off + n
      /\ off' + n' <= Len(image) /\ n' <= n
  BY <1>1, <1>2, <1>3, BufferLengthBounds
<1>5. rsumBack' \in 0..(BufferLength - 1)
  <2>1. len \in 0..BufferLength
    BY <1>2, <1>3, BufferLengthBounds
  <2> QED
    BY <1>1, <1>2, <2>1, ModAddFacts
<1>6. TypeOK'
  BY <1>1, <1>4, <1>5 DEF TypeOK, imageVars, fileVars
<1>7. LoopOK'
  BY <1>1, <1>2, <1>4, Constants DEF LoopOK
<1>8. Claims'
  BY <1>1, ClaimsKept
<1> QED
  BY <1>6, <1>7, <1>8 DEF Inv, DescCoversImage, Settled, imageVars

\* Rolling the window by one byte.
LEMMA RollByteInv ==
  ASSUME Inv, RollByte
  PROVE  Inv'
<1>1. off \in Nat /\ nextEvent \in Nat /\ off < nextEvent
  BY DEF Inv, TypeOK, RollByte
<1>2. todo' \subseteq Hashed /\ dropped' \in BOOLEAN
  BY DEF RollByte, HashHits, queueVars, Inv, TypeOK
<1> QED
  BY <1>1, <1>2, AdvanceInv DEF RollByte, queueVars

\* fastForward's jump is never empty and never backwards.
LEMMA JumpFacts ==
  ASSUME TypeOK
  PROVE  NextAlignedOff \in Int /\ NextAlignedOff > off
<1>1. /\ off \in Int /\ BlockLength \in Int
      /\ sectorLength \in Nat \ {0}
  BY Constants, QueueAssumption DEF TypeOK, SectorLengths
<1>2. \A a \in Int, s \in Nat \ {0} : /\ ((a + s) \div s) * s \in Int
                                      /\ ((a + s) \div s) * s > a
  OBVIOUS
<1> DEFINE j == ((off - BlockLength + sectorLength) \div sectorLength) * sectorLength
<1>3. j \in Int /\ j > off - BlockLength
  BY <1>1, <1>2
<1>4. NextAlignedOff = j + BlockLength
  BY DEF NextAlignedOff
<1> HIDE DEF j
<1> QED
  BY <1>1, <1>3, <1>4

\* Jumping to the next multiple of the sector length, or to the next event.
LEMMA FastForwardInv ==
  ASSUME Inv, FastForward
  PROVE  Inv'
<1> DEFINE len == Min2(NextAlignedOff - off, nextEvent - off)
<1>1. off \in Nat /\ nextEvent \in Nat /\ off < nextEvent /\ TypeOK
  BY DEF Inv, TypeOK, FastForward
<1>2. len \in Nat /\ len <= nextEvent - off
  BY <1>1, JumpFacts DEF Min2
<1>3. Advance(len)
  BY DEF FastForward
<1>4. todo' \subseteq Hashed /\ dropped' \in BOOLEAN
  BY <1>1 DEF FastForward, HashHits, TypeOK
<1> HIDE DEF len
<1> QED
  BY <1>2, <1>3, <1>4, AdvanceInv DEF FastForward

\* The entry for a file whose head may be at the current window.
LEMMA NewMatchFacts ==
  ASSUME TypeOK, NEW f \in Files, ~StartImpossible
  PROVE  /\ NewMatch(f) \in Match
         /\ NewMatch(f).startOff = off - BlockLength
         /\ out.start <= NewMatch(f).startOff
         /\ EntryOK(NewMatch(f))
<1>1. /\ off \in Nat /\ out.start \in Nat /\ BlockLength \in Nat
      /\ CsumBlockLength \in Nat /\ rsumBack \in Nat
  BY Constants DEF TypeOK, Output
<1>2. off - BlockLength \in Nat /\ out.start <= off - BlockLength
  BY <1>1 DEF StartImpossible
<1>3. Size(f) \in Nat /\ Size(f) <= Len(Content[f]) /\ Len(Content[f]) \in Nat
  BY FileFacts DEF Size
<1> DEFINE sz == Min2(Size(f), CsumBlockLength)
<1>4. sz \in Nat /\ sz <= Len(Content[f])
  BY <1>1, <1>3 DEF Min2
<1>5. NewMatch(f) = [startOff |-> off - BlockLength,
                     nextEv |-> (off - BlockLength) + sz,
                     blockOff |-> rsumBack, blockNr |-> 0, filePart |-> f]
  BY DEF NewMatch
<1> HIDE DEF sz
<1>6. NewMatch(f) \in Match
  BY <1>1, <1>2, <1>4, <1>5 DEF Match
<1>7. (off - BlockLength) + BlockLength <= off
  BY <1>1
<1> QED
  BY <1>1, <1>2, <1>3, <1>4, <1>5, <1>6, <1>7 DEF EntryOK

\* setNextEvent() on a queue of Match records.
LEMMA SetNextEventMatch ==
  ASSUME NEW q \in Seq(Match), NEW i \in 1..Len(q), NEW m \in Match
  PROVE  /\ SetNextEvent(q, i, m) \in Seq(Match)
         /\ Len(SetNextEvent(q, i, m)) = Len(q)
         /\ Entries(SetNextEvent(q, i, m)) = Others(q, i) \cup {m}
<1>1. Len(q) \in Nat
  BY LenProperties
<1>2. RemoveAt(q, i) \in Seq(Match) /\ Len(RemoveAt(q, i)) = Len(q) - 1
  BY RemoveAtFacts, Zenon
<1>3. Entries(RemoveAt(q, i)) = Others(q, i)
  BY RemoveAtEntries, Zenon
<1> DEFINE r == RemoveAt(q, i)
<1>4. SetNextEvent(q, i, m) = InsertByEvent(r, m)
  BY DEF SetNextEvent
<1>5. /\ InsertByEvent(r, m) \in Seq(Match)
      /\ Len(InsertByEvent(r, m)) = Len(r) + 1
      /\ Entries(InsertByEvent(r, m)) = Entries(r) \cup {m}
  <2> HIDE DEF r
  <2>1. r \in Seq(Match)
    BY <1>2 DEF r
  <2> QED
    BY <2>1, MatchTypes, InsertByEventFacts
<1> HIDE DEF r
<1> QED
  BY <1>1, <1>2, <1>3, <1>4, <1>5 DEF r

\* checkRsyncSumMatch2 either leaves the queue alone, or adds the new entry, or
\* replaces an entry by it that is not the oldest one.
LEMMA EnqueueFacts ==
  ASSUME TypeOK, NEW f \in Files, Enqueue(f)
  PROVE  /\ matches' \in Seq(Match) /\ Len(matches') <= MaxMatches
         /\ sectorLength' \in SectorLengths /\ dropped' \in BOOLEAN
         /\ nextEvent' \in Nat /\ nextEvent' <= nextEvent
         /\ \/ matches' = matches
            \/ /\ ~StartImpossible
               /\ Entries(matches') = Entries(matches) \cup {NewMatch(f)}
            \/ /\ ~StartImpossible
               /\ matches # << >>
               /\ \E i \in 1..Len(matches) \ {LowestStartOffset(matches)} :
                    Entries(matches') =
                      Others(matches, i) \cup {NewMatch(f)}
<1> DEFINE m    == NewMatch(f)
           s    == DropSectorLength(matches, sectorLength, m.startOff)
           drop == DropCandidate(matches, s, m.startOff)
<1>1. /\ matches \in Seq(Match) /\ Len(matches) \in Nat /\ Len(matches) <= MaxMatches
      /\ sectorLength \in SectorLengths /\ dropped \in BOOLEAN /\ nextEvent \in Nat
      /\ MaxMatches \in Nat \ {0}
  BY LenProperties, Constants DEF TypeOK
<1>2. s \in SectorLengths
  BY <1>1, DropSectorLengthFacts
<1>3. CASE StartImpossible
  BY <1>1, <1>3 DEF Enqueue
<1>4. CASE ~StartImpossible
  <2>1. m \in Match /\ m.nextEv \in Nat
    BY <1>4, NewMatchFacts, MatchTypes
  <2>2. Min2(nextEvent, m.nextEv) \in Nat /\ Min2(nextEvent, m.nextEv) <= nextEvent
    BY <1>1, <2>1 DEF Min2
  <2>3. CASE ~Full(matches)
    <3>1. /\ matches' = InsertByEvent(matches, m)
          /\ nextEvent' = Min2(nextEvent, m.nextEv)
          /\ sectorLength' = sectorLength /\ dropped' = dropped
      BY <1>4, <2>3 DEF Enqueue
    <3> HIDE DEF m
    <3>2. /\ InsertByEvent(matches, m) \in Seq(Match)
          /\ Len(InsertByEvent(matches, m)) = Len(matches) + 1
          /\ Entries(InsertByEvent(matches, m)) = Entries(matches) \cup {m}
      BY <1>1, <2>1, MatchTypes, InsertByEventFacts
    <3>3. Len(matches) + 1 <= MaxMatches
      BY <1>1, <2>3 DEF Full
    <3> QED
      BY <1>1, <1>4, <2>2, <3>1, <3>2, <3>3 DEF m
  <2>4. CASE Full(matches)
    <3>1. sectorLength' = s /\ dropped' = TRUE
      BY <1>4, <2>4 DEF Enqueue
    <3>2. matches # << >>
      BY <1>1, <2>4, EmptySeq DEF Full
    <3>3. CASE drop = 0 \/ matches[drop].filePart = f
      <4>1. matches' = matches /\ nextEvent' = nextEvent
        BY <1>4, <2>4, <3>3 DEF Enqueue
      <4> QED
        BY <1>1, <1>2, <3>1, <4>1
    <3>4. CASE ~(drop = 0 \/ matches[drop].filePart = f)
      <4>1. /\ matches' = SetNextEvent(matches, drop, m)
            /\ nextEvent' = Min2(nextEvent, m.nextEv)
        BY <1>4, <2>4, <3>4 DEF Enqueue
      <4>2. drop \in 1..Len(matches) \ {LowestStartOffset(matches)}
        BY <1>1, <1>2, <3>4, DropCandidateFacts
      <4> HIDE DEF m, drop, s
      <4>3. /\ SetNextEvent(matches, drop, m) \in Seq(Match)
            /\ Len(SetNextEvent(matches, drop, m)) = Len(matches)
            /\ Entries(SetNextEvent(matches, drop, m)) =
                 Others(matches, drop) \cup {m}
        BY <1>1, <2>1, <4>2, SetNextEventMatch
      <4> QED
        BY <1>1, <1>2, <1>4, <2>2, <3>1, <3>2, <4>1, <4>2, <4>3 DEF m
    <3> QED
      BY <3>3, <3>4
  <2> QED
    BY <2>3, <2>4
<1> QED
  BY <1>3, <1>4

\* A new entry starts within the buffer, and at the earliest at out.start.
LEMMA CheckFileInv ==
  ASSUME Inv, CheckFile
  PROVE  Inv'
<1>1. /\ TypeOK /\ LoopOK /\ Claims /\ pc = "roll" /\ pc' = "roll"
      /\ off' = off /\ n' = n /\ out' = out /\ n <= ReadAmount
      /\ nextEvent <= off + n
  BY DEF Inv, CheckFile, bufVars, LoopOK
<1>2. PICK i \in todo : Enqueue(FileSeq[i]) /\ todo' = todo \ {i}
  BY DEF CheckFile
<1> DEFINE f == FileSeq[i]
           m == NewMatch(f)
<1>3. f \in Files
  BY <1>1, <1>2, HashedFacts DEF TypeOK
<1> HIDE DEF f
<1>4. Enqueue(f)
  BY <1>2 DEF f
<1>5. /\ off \in Nat /\ n \in Nat /\ out.start \in Nat /\ matches \in Seq(Match)
      /\ nextEvent \in Nat /\ fast \in BOOLEAN
  BY <1>1 DEF TypeOK, Output
<1>6. /\ matches' \in Seq(Match) /\ Len(matches') <= MaxMatches
      /\ sectorLength' \in SectorLengths /\ dropped' \in BOOLEAN
      /\ nextEvent' \in Nat /\ nextEvent' <= nextEvent
  BY <1>1, <1>3, <1>4, EnqueueFacts
<1>7. TypeOK'
  <2>1. todo' \subseteq Hashed /\ fast' \in BOOLEAN
    BY <1>1, <1>2, <1>5 DEF TypeOK, CheckFile
  <2> QED
    BY <1>1, <1>6, <2>1
    DEF TypeOK, CheckFile, imageVars, bufVars, fileVars
<1>8. LoopOK'
  BY <1>1, <1>5, <1>6 DEF LoopOK
<1>9. Claims'
  <2>1. CASE matches' = matches
    <3>1. off' = off + 0 /\ n' = n - 0
      BY <1>1, <1>5
    <3> QED
      BY <1>1, <2>1, <3>1, ClaimsKept
  <2>2. CASE matches' # matches
    <3>1. /\ ~StartImpossible
          /\ \/ Entries(matches') = Entries(matches) \cup {m}
             \/ /\ matches # << >>
                /\ \E k \in 1..Len(matches) \ {LowestStartOffset(matches)} :
                     Entries(matches') =
                       Others(matches, k) \cup {m}
      BY <1>1, <1>3, <1>4, <2>2, EnqueueFacts
    <3>2. /\ m \in Match /\ m.startOff = off - BlockLength
          /\ out.start <= m.startOff /\ EntryOK(m)
      BY <1>1, <1>3, <3>1, NewMatchFacts
    <3> HIDE DEF m
    <3>3. Entries(matches') \subseteq Entries(matches) \cup {m}
      BY <3>1 DEF Entries, Others
    <3>4. ASSUME NEW e \in Entries(matches), e.startOff = out.start
          PROVE  \E e2 \in Entries(matches') : e2.startOff = out.start
      <4>1. CASE Entries(matches') = Entries(matches) \cup {m}
        BY <3>4, <4>1
      <4>2. ASSUME matches # << >>,
                   NEW k \in 1..Len(matches) \ {LowestStartOffset(matches)},
                   Entries(matches') =
                     Others(matches, k) \cup {m}
            PROVE  \E e2 \in Entries(matches') : e2.startOff = out.start
        <5> DEFINE low == LowestStartOffset(matches)
        <5>1. /\ low \in 1..Len(matches) /\ matches[low] \in Entries(matches)
              /\ matches[low].startOff <= e.startOff
          BY <1>5, <4>2, OldestFacts
        <5>2. matches[low].startOff \in Nat
          BY <1>5, <5>1, EntryTypes, MatchTypes
        <5>3. out.start <= matches[low].startOff
          BY <1>1, <5>1 DEF Claims
        <5>4. matches[low].startOff = out.start
          BY <1>5, <3>4, <5>1, <5>2, <5>3
        <5>5. matches[low] \in Entries(matches')
          BY <4>2, <5>1 DEF Others
        <5> QED
          BY <5>4, <5>5
      <4> QED
        BY <3>1, <4>1, <4>2
    <3>5. m.startOff >= off + n - BufferLength
      BY <1>1, <1>5, <3>2, Constants, BufferLengthBounds
    <3>6. \/ \E e \in Entries(matches') : e.startOff = out.start
          \/ \A e \in Entries(matches') : e.startOff >= off + n - BufferLength
      <4>1. CASE \E e \in Entries(matches) : e.startOff = out.start
        BY <3>4, <4>1
      <4>2. CASE \A e \in Entries(matches) : e.startOff >= off + n - BufferLength
        BY <3>3, <3>5, <4>2
      <4> QED
        BY <1>1, <4>1, <4>2 DEF Claims
    <3>7. out.start <= off /\ \A e \in Entries(matches') : out.start <= e.startOff
      BY <1>1, <3>2, <3>3 DEF Claims
    <3>8. \A e \in Entries(matches') : EntryOK(e)
      BY <1>1, <3>2, <3>3 DEF Claims
    <3>9. \A e \in Entries(matches') : EntryOK(e)'
      BY <1>1, <3>8 DEF EntryOK
    <3> QED
      BY <1>1, <3>6, <3>7, <3>9 DEF Claims
  <2> QED
    BY <2>1, <2>2
<1> QED
  BY <1>1, <1>7, <1>8, <1>9
  DEF Inv, CheckFile, DescCoversImage, Settled, imageVars

-----------------------------------------------------------------------------
(* checkChecksumMatch() *)

\* getMD5Sums() leaves every FilePart in one of its states.
LEMMA AfterSumsType ==
  ASSUME NEW state \in [Files -> {"head", "all", "deleted"}], NEW f \in Files,
         NEW k
  PROVE  AfterSums(state, f, k) \in [Files -> {"head", "all", "deleted"}]
  BY DEF AfterSums

\* rereadUnmatched() gets no more out of a file than there is in it.
LEMMA RereadLen ==
  ASSUME NEW f \in Files, NEW count \in Int
  PROVE  Len(RereadData(f, count)) <= Len(Content[f])
<1> DEFINE k == Min2(count, Len(Content[f]))
<1>1. k \in Int /\ k <= Len(Content[f]) /\ Len(Content[f]) \in Nat
  BY FileFacts DEF Min2
<1> HIDE DEF k
<1>2. Content[f] \in Seq(Byte)
  BY FileFacts
<1>3. Len(SubSeq(Content[f], 1, k)) <= Len(Content[f])
  BY <1>1, <1>2, SubSeqProperties
<1> QED
  BY <1>1, <1>3, EmptySeq DEF RereadData, k

\* The first offset that is still in the buffer.
LEMMA KeptFacts ==
  ASSUME TypeOK
  PROVE  /\ off - StillBuffered \in Nat /\ off - StillBuffered <= off
         /\ off - StillBuffered >= off + n - BufferLength
         /\ \/ off - StillBuffered = 0
            \/ off - StillBuffered = off + n - BufferLength
<1>1. /\ off \in Nat /\ n \in Nat /\ data \in Nat /\ BufferLength \in Nat
      /\ data + n <= BufferLength
  BY BufferLengthBounds DEF TypeOK
<1> QED
  BY <1>1 DEF StillBuffered, Min2

\* The queue when the block of its first entry is compared.
LEMMA EventFacts ==
  ASSUME Inv, EventDue
  PROVE  /\ TypeOK /\ Claims /\ Settled(out) /\ out \in Output /\ result = "none"
         /\ pc = "event" /\ out.start \in Nat /\ off \in Nat /\ n \in Nat
         /\ matches \in Seq(Match) /\ matches # << >> /\ Len(matches) \in Nat \ {0}
         /\ Len(matches) <= MaxMatches
         /\ 1 \in 1..Len(matches) /\ matches[1] \in Match
         /\ matches[1] \in Entries(matches)
         /\ matches[1].filePart \in Files /\ matches[1].startOff \in Nat
         /\ matches[1].nextEv = off
<1>1. TypeOK /\ Claims /\ Settled(out) /\ result = "none"
  BY DEF Inv, EventDue
<1>2. matches \in Seq(Match) /\ matches # << >>
  BY <1>1 DEF TypeOK, EventDue
<1>3. matches[1] \in Match
  BY <1>2, FrontFacts
<1> QED
  BY <1>1, <1>2, <1>3, FrontFacts, MatchTypes DEF EventDue, TypeOK, Output

\* eraseFront() on the queue.
LEMMA RestFacts ==
  ASSUME NEW q \in Seq(Match), q # << >>, Len(q) <= MaxMatches
  PROVE  /\ EraseFront(q) \in Seq(Match) /\ Len(EraseFront(q)) <= MaxMatches
         /\ Entries(EraseFront(q)) \subseteq Entries(q)
         /\ \A i \in 1..Len(q) : i # 1 => q[i] \in Entries(EraseFront(q))
<1>1. /\ EraseFront(q) \in Seq(Match) /\ Len(EraseFront(q)) = Len(q) - 1
      /\ Entries(EraseFront(q)) = Others(q, 1)
  BY EraseFrontFacts, Zenon
<1>2. Len(q) \in Nat /\ MaxMatches \in Nat
  BY LenProperties, Constants
<1>3. Others(q, 1) \subseteq Entries(q)
  BY DEF Others, Entries
<1>4. \A i \in 1..Len(q) : i # 1 => q[i] \in Others(q, 1)
  BY DEF Others
<1> QED
  BY <1>1, <1>2, <1>3, <1>4

\* If the oldest match starts before the buffered data, it starts where the
\* disposed areas end.
LEMMA OldestClaims ==
  ASSUME TypeOK, Claims, matches # << >>,
         NEW m \in Entries(matches), \A e \in Entries(matches) : m.startOff <= e.startOff
  PROVE  m.startOff < off - StillBuffered => m.startOff = out.start
<1>1. /\ off \in Nat /\ n \in Nat /\ out.start \in Nat /\ matches \in Seq(Match)
      /\ BufferLength \in Nat
  BY BufferLengthBounds DEF TypeOK, Output
<1>2. \A e \in Entries(matches) : e.startOff \in Nat
  BY <1>1, EntryTypes, MatchTypes
<1> SUFFICES ASSUME m.startOff < off - StillBuffered PROVE m.startOff = out.start
  OBVIOUS
<1>3. m.startOff < off + n - BufferLength
  BY <1>1, <1>2, KeptFacts
<1>4. PICK e \in Entries(matches) : e.startOff = out.start
  BY <1>1, <1>2, <1>3 DEF Claims
<1>5. m.startOff <= out.start /\ out.start <= m.startOff
  BY <1>4 DEF Claims
<1> QED
  BY <1>1, <1>2, <1>5

\* Erasing the front is harmless if it is not the oldest match, or if it is
\* still in the buffer.
LEMMA EraseFrontClaims ==
  ASSUME Inv, EventDue, matches' = EraseFront(matches), out' = out,
         off' = off, n' = n,
         \/ LowestStartOffset(matches) # 1
         \/ matches[1].startOff >= off - StillBuffered
  PROVE  Claims'
<1> DEFINE low == LowestStartOffset(matches)
           rest == EraseFront(matches)
<1>1. /\ TypeOK /\ Claims /\ matches \in Seq(Match) /\ matches # << >>
      /\ Len(matches) <= MaxMatches /\ off \in Nat /\ n \in Nat /\ out.start \in Nat
      /\ BufferLength \in Nat
  BY EventFacts, BufferLengthBounds
<1>2. /\ Entries(rest) \subseteq Entries(matches)
      /\ \A i \in 1..Len(matches) : i # 1 => matches[i] \in Entries(rest)
  BY <1>1, RestFacts
<1>3. /\ low \in 1..Len(matches) /\ matches[low] \in Entries(matches)
      /\ \A m \in Entries(matches) : matches[low].startOff <= m.startOff
  BY <1>1, OldestFacts
<1>4. \A m \in Entries(matches) : m.startOff \in Nat
  BY <1>1, EntryTypes, MatchTypes
<1> HIDE DEF rest, low
<1>5. \/ \E m \in Entries(rest) : m.startOff = out.start
      \/ \A m \in Entries(rest) : m.startOff >= off + n - BufferLength
  <2>1. CASE low # 1
    <3>1. matches[low] \in Entries(rest)
      BY <1>2, <1>3, <2>1
    <3>2. CASE \E m \in Entries(matches) : m.startOff = out.start
      <4>1. matches[low].startOff <= out.start
        BY <1>3, <3>2
      <4>2. out.start <= matches[low].startOff
        BY <1>1, <1>3 DEF Claims
      <4>3. matches[low].startOff = out.start
        BY <1>1, <1>3, <1>4, <4>1, <4>2
      <4> QED
        BY <3>1, <4>3
    <3>3. CASE \A m \in Entries(matches) : m.startOff >= off + n - BufferLength
      BY <1>2, <3>3
    <3> QED
      BY <1>1, <3>2, <3>3 DEF Claims
  <2>2. CASE low = 1 /\ matches[1].startOff >= off - StillBuffered
    <3>1. off - StillBuffered >= off + n - BufferLength /\ off - StillBuffered \in Nat
      BY <1>1, KeptFacts
    <3>2. matches[1].startOff \in Nat
      BY <1>3, <1>4, <2>2
    <3> DEFINE kept == off - StillBuffered
               s == matches[1].startOff
    <3>3. \A m \in Entries(rest) : m.startOff \in Nat /\ s <= m.startOff
      BY <1>2, <1>3, <1>4, <2>2
    <3>4. s \in Nat /\ s >= kept /\ kept \in Nat /\ kept >= off + n - BufferLength
      BY <2>2, <3>1, <3>2
    <3> HIDE DEF kept, s
    <3> QED
      BY <1>1, <3>3, <3>4
  <2> QED
    BY <2>1, <2>2 DEF low
<1>6. \A m \in Entries(rest) : EntryOK(m)'
  BY <1>1, <1>2 DEF Claims, EntryOK
<1>7. out'.start <= off' /\ \A m \in Entries(rest) : out'.start <= m.startOff
  BY <1>1, <1>2 DEF Claims
<1>8. matches' = rest
  BY DEF rest
<1> QED
  BY <1>5, <1>6, <1>7, <1>8 DEF Claims

\* A step that stops the scan without success keeps the invariant.
LEMMA StopInv ==
  ASSUME TypeOK', image' = image, image \in Images, n' = n, LoopOK,
         Settled(out)', pc' = "done", result' # "success"
  PROVE  Inv'
BY DEF Inv, LoopOK, DescCoversImage

\* A step in the event loop that goes on keeps it if Claims holds afterwards.
LEMMA GoOnInv ==
  ASSUME Inv, TypeOK', image' = image, n' = n, off' = off, pc = "event",
         pc' = pc, result' = result, Settled(out)', Claims'
  PROVE  Inv'
<1>1. result' = "none" /\ pc' = "event" /\ n' <= ReadAmount
  BY DEF Inv, LoopOK
<1> QED
  BY <1>1 DEF Inv, LoopOK, DescCoversImage, Settled

\* The small match is not recorded: a larger one is still pending.
LEMMA IgnoreMatchInv ==
  ASSUME Inv, IgnoreMatch
  PROVE  Inv'
<1>1. EventDue
  BY DEF IgnoreMatch
<1>2. /\ TypeOK /\ Claims /\ matches \in Seq(Match) /\ matches # << >>
      /\ matches[1].filePart \in Files /\ pc = "event" /\ Len(matches) <= MaxMatches
  BY <1>1, EventFacts
<1>3. /\ matches' = EraseFront(matches) /\ out' = out /\ off' = off /\ n' = n
      /\ pc' = pc /\ result' = result /\ image' = image
  BY DEF IgnoreMatch, bufVars, loopVars, imageVars
<1>4. matches' \in Seq(Match) /\ Len(matches') <= MaxMatches
  BY <1>2, <1>3, RestFacts
<1>5. fpState' \in [Files -> {"head", "all", "deleted"}]
  BY <1>2, AfterSumsType DEF IgnoreMatch, ReadSums, TypeOK
<1>6. TypeOK'
  BY <1>2, <1>3, <1>4, <1>5 DEF TypeOK, IgnoreMatch, bufVars, loopVars, imageVars
<1>7. Claims'
  BY <1>1, <1>3, EraseFrontClaims DEF IgnoreMatch
<1>8. Settled(out)'
  BY <1>3 DEF Inv, Settled
<1> QED
  BY <1>2, <1>3, <1>6, <1>7, <1>8, GoOnInv

\* The next block's event is not after the end of the file.
LEMMA NextBlockInv ==
  ASSUME Inv, NextBlock
  PROVE  Inv'
<1> DEFINE x  == matches[1]
           ev == Min2(x.nextEv + CsumBlockLength, x.startOff + Len(Content[x.filePart]))
           y  == [x EXCEPT !.blockOff = data, !.blockNr = @ + 1, !.nextEv = ev]
<1>1. EventDue
  BY DEF NextBlock
<1>2. /\ TypeOK /\ Claims /\ matches \in Seq(Match) /\ matches # << >>
      /\ x \in Match /\ x \in Entries(matches) /\ x.filePart \in Files
      /\ x.startOff \in Nat /\ pc = "event" /\ Len(matches) <= MaxMatches
      /\ 1 \in 1..Len(matches) /\ off \in Nat /\ n \in Nat /\ out.start \in Nat
  BY <1>1, EventFacts
<1>3. /\ matches' = SetNextEvent(matches, 1, y) /\ nextEvent' = Min2(nextEvent, ev)
      /\ out' = out /\ off' = off /\ n' = n /\ pc' = pc /\ result' = result
      /\ image' = image
  BY DEF NextBlock, bufVars, imageVars
<1>4. /\ ev \in Nat /\ ev <= x.startOff + Len(Content[x.filePart])
  <2> DEFINE p == x.nextEv + CsumBlockLength
             r == x.startOff + Len(Content[x.filePart])
  <2>1. x.nextEv \in Nat /\ CsumBlockLength \in Nat /\ Len(Content[x.filePart]) \in Nat
    BY <1>2, MatchTypes, Constants, FileFacts
  <2>2. x.startOff \in Nat
    BY <1>2
  <2>3. p \in Nat /\ r \in Nat
    BY <2>1, <2>2
  <2> HIDE DEF p, r
  <2>4. Min2(p, r) \in Nat /\ Min2(p, r) <= r
    BY <2>3 DEF Min2
  <2> QED
    BY <2>4 DEF p, r
<1>5. y \in Match /\ y.startOff = x.startOff /\ y.nextEv = ev
      /\ y.filePart = x.filePart
  <2>1. data \in Nat
    BY <1>2 DEF TypeOK
  <2>2. x.blockNr + 1 \in Nat
    BY <1>2, MatchTypes
  <2>3. ev \in Nat
    BY <1>4
  <2> DEFINE y1 == [x EXCEPT !.blockOff = data]
             y2 == [y1 EXCEPT !.blockNr = x.blockNr + 1]
             y3 == [y2 EXCEPT !.nextEv = ev]
  <2>4. y = y3
    OBVIOUS
  <2> HIDE DEF ev
  <2>5. /\ y1 \in Match /\ y1.startOff = x.startOff
        /\ y1.filePart = x.filePart
    BY <1>2, <2>1 DEF Match
  <2> HIDE DEF y1
  <2>6. /\ y2 \in Match /\ y2.startOff = x.startOff
        /\ y2.filePart = x.filePart
    BY <2>2, <2>5 DEF Match
  <2> HIDE DEF y2
  <2>7. /\ y3 \in Match /\ y3.startOff = x.startOff
        /\ y3.nextEv = ev /\ y3.filePart = x.filePart
    BY <2>3, <2>6 DEF Match
  <2> HIDE DEF y, y3
  <2> QED
    BY <2>4, <2>7
<1>6. EntryOK(y)
  BY <1>2, <1>4, <1>5 DEF Claims, EntryOK
<1>7. nextEvent' \in Nat
  BY <1>2, <1>3, <1>4 DEF TypeOK, Min2
<1> HIDE DEF y, ev
<1>8. /\ matches' \in Seq(Match) /\ Len(matches') = Len(matches)
      /\ Entries(matches') = Others(matches, 1) \cup {y}
  BY <1>2, <1>3, <1>5, SetNextEventMatch
<1>9. fpState' \in [Files -> {"head", "all", "deleted"}]
  BY <1>2, AfterSumsType DEF NextBlock, ReadSums, TypeOK
<1>10. TypeOK'
  BY <1>2, <1>3, <1>7, <1>8, <1>9 DEF TypeOK, NextBlock, bufVars, imageVars
<1>11. Others(matches, 1) \subseteq Entries(matches)
  BY DEF Others, Entries
<1>12. \A m \in Entries(matches) : m = x \/ m \in Others(matches, 1)
  BY DEF Others, Entries
<1>13. Claims'
  <2>1. \A m \in Entries(matches') : out.start <= m.startOff /\ EntryOK(m)
    BY <1>2, <1>5, <1>6, <1>8, <1>11 DEF Claims
  <2>2. \/ \E m \in Entries(matches') : m.startOff = out.start
        \/ \A m \in Entries(matches') : m.startOff >= off + n - BufferLength
    <3>1. CASE \E m \in Entries(matches) : m.startOff = out.start
      BY <1>5, <1>8, <1>12, <3>1
    <3>2. CASE \A m \in Entries(matches) : m.startOff >= off + n - BufferLength
      BY <1>2, <1>5, <1>8, <1>11, <3>2
    <3> QED
      BY <1>2, <3>1, <3>2 DEF Claims
  <2>3. \A m \in Entries(matches') : EntryOK(m)'
    BY <1>3, <2>1 DEF EntryOK
  <2> QED
    BY <1>2, <1>3, <2>1, <2>2, <2>3 DEF Claims
<1>14. Settled(out)'
  BY <1>3 DEF Inv, Settled
<1> QED
  BY <1>2, <1>3, <1>10, <1>13, <1>14, GoOnInv

\* What a mismatch disposes of starts where the disposed areas end, and it ends
\* where a pending match starts or where the buffered data begins.
LEMMA MismatchInv ==
  ASSUME Inv, Mismatch
  PROVE  Inv'
<1> DEFINE x    == matches[1]
           kept == off - StillBuffered
           rest == EraseFront(matches)
           end  == IF rest = << >> THEN kept
                   ELSE Min2(kept, rest[LowestStartOffset(rest)].startOff)
           bytes == RereadData(x.filePart, end - x.startOff)
<1>1. EventDue
  BY DEF Mismatch
<1>2. /\ TypeOK /\ Claims /\ Settled(out) /\ out \in Output /\ result = "none"
      /\ matches \in Seq(Match) /\ matches # << >> /\ Len(matches) <= MaxMatches
      /\ x \in Match /\ x \in Entries(matches) /\ x.filePart \in Files
      /\ x.startOff \in Nat /\ pc = "event" /\ 1 \in 1..Len(matches)
      /\ off \in Nat /\ n \in Nat /\ out.start \in Nat
  BY <1>1, EventFacts
<1>3. /\ matches' = rest /\ off' = off /\ n' = n /\ image' = image
  BY DEF Mismatch, bufVars, imageVars
<1>4. /\ rest \in Seq(Match) /\ Len(rest) <= MaxMatches
      /\ Entries(rest) \subseteq Entries(matches)
  BY <1>2, RestFacts
<1>5. fpState' \in [Files -> {"head", "all", "deleted"}]
  BY <1>2, AfterSumsType DEF Mismatch, ReadSums, TypeOK
<1>6. ASSUME out' \in Output, pc' \in {"event", "done"}, result' \in {"none", "failure"}
      PROVE  TypeOK'
  BY <1>2, <1>3, <1>4, <1>5, <1>6 DEF TypeOK, Mismatch, bufVars, imageVars
<1>7. CASE LowestStartOffset(matches) # 1 \/ x.startOff >= kept
  <2>1. out' = out /\ pc' = pc /\ result' = result
    BY <1>7 DEF Mismatch, GoOn
  <2>2. Claims'
    BY <1>1, <1>3, <1>7, <2>1, EraseFrontClaims
  <2>3. TypeOK' /\ Settled(out)'
    BY <1>2, <1>6, <2>1 DEF Settled
  <2> QED
    BY <1>2, <1>3, <2>1, <2>2, <2>3, GoOnInv
<1>8. CASE ~(LowestStartOffset(matches) # 1 \/ x.startOff >= kept)
  <2>1. \A m \in Entries(matches) : x.startOff <= m.startOff
    BY <1>2, <1>8, OldestFacts
  <2>2. /\ kept \in Nat /\ kept <= off /\ kept >= off + n - BufferLength
        /\ x.startOff < kept
    BY <1>2, <1>8, KeptFacts
  <2>3. x.startOff = out.start
    BY <1>2, <2>1, <2>2, OldestClaims
  <2>4. /\ end \in Nat /\ x.startOff <= end /\ end <= kept
        /\ \A m \in Entries(rest) : end <= m.startOff \/ rest = << >>
        /\ \/ end = kept
           \/ \E m \in Entries(rest) : m.startOff = end
    <3> HIDE DEF rest, kept
    <3>1. CASE rest = << >>
      BY <1>2, <2>2, <3>1
    <3>2. CASE rest # << >>
      <4> DEFINE o == rest[LowestStartOffset(rest)]
      <4>1. o \in Entries(rest) /\ \A m \in Entries(rest) : o.startOff <= m.startOff
        BY <1>4, <3>2, OldestFacts
      <4>2. o.startOff \in Nat /\ x.startOff <= o.startOff
        BY <1>4, <2>1, <3>2, <4>1, OldestFacts, MatchTypes
      <4>3. \A m \in Entries(rest) : m.startOff \in Nat
        BY <1>4, EntryTypes, MatchTypes
      <4>4. end = Min2(kept, o.startOff)
        BY <3>2
      <4> HIDE DEF o, end
      <4>5. end \in {kept, o.startOff} /\ end <= kept /\ end <= o.startOff
        BY <2>2, <4>2, <4>4, Min2Facts
      <4> QED
        BY <1>2, <2>2, <4>1, <4>2, <4>3, <4>5
    <3> QED
      BY <3>1, <3>2
  <2>5. /\ out' = Area(out, x.startOff, end, bytes)
        /\ \/ pc' = pc /\ result' = result
           \/ pc' = "done" /\ result' = "failure"
    BY <1>8 DEF Mismatch, GoOn, Fail
  <2>6. bytes \in Seq(Byte)
    <3> HIDE DEF end
    <3>1. end - x.startOff \in Int
      BY <1>2, <2>4
    <3> QED
      BY <1>2, <3>1, RereadType
  <2> HIDE DEF end, bytes, kept, rest
  <2>7. out' \in Output /\ Settled(out') /\ out'.start = end
    BY <1>2, <2>3, <2>4, <2>5, <2>6, AreaFacts
  <2>8. TypeOK'
    BY <1>2, <1>6, <2>5, <2>7
  <2>9. CASE pc' = pc /\ result' = result
    <3>1. end <= off /\ \A m \in Entries(rest) : end <= m.startOff
      BY <1>2, <2>2, <2>4, NoEntries
    <3>2. \A m \in Entries(rest) : m.startOff \in Nat
      BY <1>4, EntryTypes, MatchTypes
    <3>3. \/ \E m \in Entries(rest) : m.startOff = end
          \/ \A m \in Entries(rest) : m.startOff >= off + n - BufferLength
      BY <1>2, <2>2, <2>4, <3>1, <3>2, BufferLengthBounds
    <3>4. \A m \in Entries(rest) : EntryOK(m)'
      BY <1>2, <1>3, <1>4 DEF Claims, EntryOK
    <3>5. Claims'
      BY <1>3, <2>7, <3>1, <3>3, <3>4 DEF Claims
    <3> QED
      BY <1>2, <1>3, <2>7, <2>8, <2>9, <3>5, GoOnInv DEF Settled
  <2>10. CASE pc' = "done" /\ result' = "failure"
    BY <1>3, <2>7, <2>8, <2>10, StopInv DEF Inv, Settled
  <2> QED
    BY <2>5, <2>9, <2>10
<1> QED
  BY <1>7, <1>8

\* A match starts where the output has been brought up to, by re-reading the
\* file of the oldest partial match and by flushing the buffer.
LEMMA FileMatchInv ==
  ASSUME Inv, FileMatch
  PROVE  Inv'
<1> DEFINE x      == matches[1]
           f      == x.filePart
           oldest == matches[LowestStartOffset(matches)]
           kept   == off - StillBuffered
           reread == LowestStartOffset(matches) # 1 /\ oldest.startOff < kept
           end    == Min2(kept, x.startOff)
           bytes  == RereadData(oldest.filePart, end - oldest.startOff)
           out1   == IF reread THEN Area(out, oldest.startOff, end, bytes) ELSE out
           out2   == Flush(out1, x.startOff)
<1>1. EventDue
  BY DEF FileMatch
<1>2. /\ TypeOK /\ Claims /\ Settled(out) /\ out \in Output /\ result = "none"
      /\ matches \in Seq(Match) /\ matches # << >> /\ Len(matches) <= MaxMatches
      /\ x \in Match /\ x \in Entries(matches) /\ f \in Files
      /\ x.startOff \in Nat /\ x.nextEv = off /\ pc = "event"
      /\ off \in Nat /\ n \in Nat /\ out.start \in Nat
  BY <1>1, EventFacts
<1>3. off' = off /\ n' = n /\ image' = image
  BY DEF FileMatch, bufVars, imageVars
<1>4. /\ oldest \in Match /\ oldest \in Entries(matches)
      /\ oldest.filePart \in Files /\ oldest.startOff \in Nat
      /\ \A m \in Entries(matches) : oldest.startOff <= m.startOff
  BY <1>2, OldestFacts, MatchTypes
<1>5. Len(Content[f]) \in Nat /\ x.startOff + Len(Content[f]) = off
  <2>1. Len(Content[f]) \in Nat
    BY <1>2, FileFacts
  <2>2. off >= x.startOff + Len(Content[f])
    BY DEF FileMatch, LastBlock
  <2>3. off <= x.startOff + Len(Content[f])
    BY <1>2 DEF Claims, EntryOK
  <2> QED
    BY <1>2, <2>1, <2>2, <2>3
<1>6. kept \in Nat /\ kept <= off
  BY <1>2, KeptFacts
<1>7. out.start <= x.startOff /\ oldest.startOff <= x.startOff
  BY <1>2, <1>4 DEF Claims
<1>8. out1 \in Output /\ Settled(out1) /\ out1.start <= x.startOff
  <2>1. CASE ~reread
    BY <1>2, <1>7, <2>1
  <2>2. CASE reread
    <3>1. oldest.startOff = out.start
      BY <1>2, <1>4, <2>2, OldestClaims
    <3>2. end \in Nat /\ oldest.startOff <= end /\ end <= x.startOff
      BY <1>2, <1>4, <1>6, <1>7, <2>2, Min2Facts
    <3>3. bytes \in Seq(Byte)
      <4> HIDE DEF end
      <4>1. end - oldest.startOff \in Int
        BY <1>4, <3>2
      <4> QED
        BY <1>4, <4>1, RereadType
    <3>4. out1 = Area(out, oldest.startOff, end, bytes)
      BY <2>2
    <3> HIDE DEF end, bytes, out1, oldest
    <3>5. out1 \in Output /\ Settled(out1) /\ out1.start = end
      BY <1>2, <3>1, <3>2, <3>3, <3>4, AreaFacts
    <3> QED
      BY <3>2, <3>5
  <2> QED
    BY <2>1, <2>2
<1>9. /\ ReadSums(x) \in [Files -> {"head", "all", "deleted"}]
      /\ AfterSums(ReadSums(x), f, 1) \in [Files -> {"head", "all", "deleted"}]
  BY <1>2, AfterSumsType DEF ReadSums, TypeOK
<1>10. matchedParts' \in Seq(Files)
  BY <1>2 DEF FileMatch, TypeOK
<1>11. \/ /\ out' = out1 /\ fpState' = ReadSums(x) /\ matches' = matches
          /\ pc' = "done" /\ result' = "failure"
       \/ /\ out' = out2 /\ fpState' = AfterSums(ReadSums(x), f, 1)
          /\ matches' = matches /\ pc' = "done" /\ result' = "crash"
       \/ /\ out' = MatchArea(out2, x.startOff, f)
          /\ fpState' = AfterSums(ReadSums(x), f, 1)
          /\ matches' = matches /\ pc' = "done" /\ result' = "failure"
       \/ /\ out' = MatchArea(out2, x.startOff, f)
          /\ fpState' = AfterSums(ReadSums(x), f, 1)
          /\ matches' = EraseStartOffsetLess(matches, off)
          /\ pc' = pc /\ result' = result
  BY DEF FileMatch, Fail, GoOn
<1>12. EraseStartOffsetLess(matches, off) = << >>
  <2>1. \A m \in Entries(matches) : m.startOff \in Nat /\ m.startOff < off
    BY <1>2, EntryTypes, MatchTypes, Constants DEF Claims, EntryOK
  <2> QED
    BY <1>2, <2>1, MatchTypes, EraseStartOffsetLessAll
<1> HIDE DEF out1
<1>13. /\ out2 \in Output /\ Settled(out2) /\ out2.start = x.startOff
  <2>1. out1.start \in Nat
    BY <1>8 DEF Output
  <2>2. /\ Flush(out1, x.startOff) \in Output /\ Settled(Flush(out1, x.startOff))
        /\ Flush(out1, x.startOff).start =
             IF out1.start < x.startOff THEN x.startOff ELSE out1.start
    BY <1>2, <1>8, FlushFacts
  <2> QED
    BY <1>2, <1>8, <2>1, <2>2
<1> HIDE DEF out2, f, x
<1>14. /\ MatchArea(out2, x.startOff, f) \in Output
       /\ Settled(MatchArea(out2, x.startOff, f))
       /\ MatchArea(out2, x.startOff, f).start = off
  <2>1. out2.start + Len(Content[f]) = off
    BY <1>5, <1>13
  <2>2. /\ MatchArea(out2, out2.start, f) \in Output
        /\ Settled(MatchArea(out2, out2.start, f))
        /\ MatchArea(out2, out2.start, f).start = off
    BY <1>2, <1>13, <2>1, MatchAreaFacts
  <2> QED
    BY <1>13, <2>2
<1>15. /\ out' \in Output /\ Settled(out')
       /\ matches' \in Seq(Match) /\ Len(matches') <= MaxMatches
       /\ pc' \in {"event", "done"} /\ result' \in {"none", "failure", "crash"}
       /\ fpState' \in [Files -> {"head", "all", "deleted"}]
  <2>1. Len(<< >>) <= MaxMatches /\ << >> \in Seq(Match)
    BY Constants
  <2> QED
    BY <1>2, <1>8, <1>9, <1>11, <1>12, <1>13, <1>14, <2>1
<1>16. TypeOK'
  BY <1>2, <1>10, <1>15 DEF TypeOK, FileMatch, bufVars, imageVars
<1>17. CASE pc' = "done" /\ result' # "success"
  BY <1>3, <1>15, <1>16, <1>17, StopInv DEF Inv, Settled
<1>18. CASE /\ out' = MatchArea(out2, x.startOff, f) /\ pc' = pc /\ result' = result
            /\ matches' = EraseStartOffsetLess(matches, off)
  <2>1. matches' = << >> /\ out'.start = off
    BY <1>12, <1>14, <1>18
  <2>2. Claims'
    BY <1>2, <1>3, <2>1, NoEntries DEF Claims
  <2> QED
    BY <1>2, <1>3, <1>15, <1>16, <1>18, <2>2, GoOnInv DEF Settled
<1> QED
  BY <1>11, <1>17, <1>18

\* unmatchedAtEnd() writes out the rest; only data that a file can provide is
\* looked for outside the buffer.
LEMMA FinishInv ==
  ASSUME Inv, Finish
  PROVE  Inv'
<1> DEFINE reread == out.start < off /\ EndReread # {}
           i      == CHOOSE k \in EndReread : TRUE
           y      == matches[i]
           end    == Minus(off, BufferLength)
           count  == end - y.startOff
           bytes  == RereadData(y.filePart, count)
           out1   == IF reread THEN Area(out, y.startOff, end, bytes) ELSE out
           out2   == Flush(out1, off)
           good   == [out2 EXCEPT !.desc = Append(@, ImageInfo(off))]
<1>1. /\ TypeOK /\ LoopOK /\ Claims /\ Settled(out) /\ image \in Images
      /\ off \in Nat /\ n \in Nat /\ out \in Output /\ out.start \in Nat
      /\ matches \in Seq(Match) /\ off <= Len(image) /\ out.start <= off
      /\ BufferLength \in Nat /\ Word \in Nat \ {0}
  <2>1. TypeOK /\ LoopOK /\ Claims /\ Settled(out) /\ image \in Images
    BY DEF Inv, Finish
  <2>2. /\ off \in Nat /\ n \in Nat /\ out \in Output /\ matches \in Seq(Match)
        /\ off + n <= Len(image) /\ Len(image) \in Nat
    BY <2>1, LenProperties DEF TypeOK
  <2>3. out.start \in Nat /\ out.start <= off
    BY <2>1, <2>2 DEF Output, Claims
  <2> QED
    BY <2>1, <2>2, <2>3, BufferLengthBounds, Constants
<1>2. /\ off' = off /\ n' = n /\ image' = image /\ pc' = "done"
      /\ result' \in {"failure", "success"}
  BY DEF Finish, bufVars, imageVars, Fail
<1>3. off < Word
  BY <1>1, LenProperties, ScanAssumption
<1>4. end \in Nat
  BY <1>1 DEF Minus
<1>5. ASSUME reread
      PROVE  /\ y \in Match /\ y.filePart \in Files /\ y.startOff = out.start
             /\ y.startOff < end /\ bytes \in Seq(Byte)
  <2>1. i \in EndReread
    BY <1>5
  <2>2. i \in 1..Len(matches) /\ y.startOff = out.start /\ y.startOff < end
    BY <1>1, <2>1 DEF EndReread
  <2>3. y \in Match
    BY <1>1, <2>2, ElementOfSeq
  <2> HIDE DEF y, end
  <2>4. y.filePart \in Files /\ count \in Int
    BY <1>1, <1>4, <2>2, <2>3, MatchTypes
  <2> QED
    BY <2>2, <2>3, <2>4, RereadType
<1>6. out1 \in Output /\ Settled(out1) /\ out1.start \in Nat
  <2>1. CASE ~reread
    BY <1>1, <2>1
  <2>2. CASE reread
    <3>1. out1 = Area(out, out.start, end, bytes)
      BY <1>5, <2>2
    <3>2. out.start <= end /\ bytes \in Seq(Byte)
      BY <1>1, <1>4, <1>5, <2>2
    <3> HIDE DEF end, bytes, out1
    <3>3. out1 \in Output /\ Settled(out1)
      BY <1>1, <1>4, <3>1, <3>2, AreaFacts
    <3> QED
      BY <3>3 DEF Output
  <2> QED
    BY <2>1, <2>2
<1>7. \/ out' = out1 /\ result' = "failure"
      \/ ~(reread /\ ~CanReread(y.filePart, count)) /\ out' = good
  BY DEF Finish, Fail
<1>8. ASSUME ~(reread /\ ~CanReread(y.filePart, count))
      PROVE  out1.start <= off
  <2>1. CASE ~reread
    BY <1>1, <2>1
  <2>2. CASE reread
    <3>1. out1.start = end
      BY <2>2 DEF Area
    <3>2. Len(bytes) = count
      BY <1>8, <2>2 DEF CanReread
    <3>3. count <= Len(Content[y.filePart])
      <4> HIDE DEF y, end
      <4>1. count \in Int
        BY <1>1, <1>4, <1>5, <2>2
      <4> QED
        BY <1>5, <2>2, <3>2, <4>1, RereadLen
    <3>4. Len(Content[y.filePart]) + BufferLength <= Word
          /\ Len(Content[y.filePart]) \in Nat
      BY <1>5, <2>2, FileFacts
    <3>5. CASE off >= BufferLength
      <4>1. end = off - BufferLength
        BY <1>1, <1>3, <3>5 DEF Minus
      <4> QED
        BY <1>1, <3>1, <4>1
    <3>6. CASE off < BufferLength
      <4>1. end = off - BufferLength + Word
        <5>1. \A a \in Int, w \in Nat \ {0} :
                a < 0 /\ a + w >= 0 => a % w = a + w
          OBVIOUS
        <5>2. off - BufferLength \in Int /\ off - BufferLength < 0
              /\ off - BufferLength + Word >= 0
          BY <1>1, <3>4, <3>6
        <5> QED
          BY <1>1, <5>1, <5>2 DEF Minus
      <4>2. y.startOff = out.start /\ out.start < off
        BY <1>5, <2>2
      <4> HIDE DEF y, end
      <4> QED
        BY <1>1, <3>3, <3>4, <4>1, <4>2
    <3> QED
      BY <1>1, <3>5, <3>6
  <2> QED
    BY <2>1, <2>2
<1> HIDE DEF out1, y, end, reread, count
<1>9. ASSUME ~(reread /\ ~CanReread(y.filePart, count))
      PROVE  /\ good \in Output /\ Settled(good)
             /\ good.descOff = off /\ Last(good.desc) = ImageInfo(off)
  <2>1. out1.start <= off
    BY <1>8, <1>9
  <2>2. /\ Flush(out1, off) \in Output /\ Settled(Flush(out1, off))
        /\ Flush(out1, off).start = IF out1.start < off THEN off ELSE out1.start
    BY <1>1, <1>6, FlushFacts
  <2>3. out2 \in Output /\ Settled(out2) /\ out2.start = off
    BY <1>1, <1>6, <2>1, <2>2
  <2> HIDE DEF out2
  <2>4. ImageInfo(off) \in DescEntry
    BY <1>1 DEF ImageInfo, DescEntry
  <2>5. out2.desc \in Seq(DescEntry)
    BY <2>3 DEF Output
  <2>6. /\ Append(out2.desc, ImageInfo(off)) \in Seq(DescEntry)
        /\ Last(Append(out2.desc, ImageInfo(off))) = ImageInfo(off)
    BY <2>4, <2>5 DEF Last
  <2> QED
    BY <2>3, <2>6 DEF Output, Settled
<1> HIDE DEF good
<1>10. out' \in Output /\ Settled(out')
  BY <1>6, <1>7, <1>9
<1>11. TypeOK'
  BY <1>1, <1>2, <1>10
  DEF TypeOK, Finish, bufVars, imageVars, queueVars, fileVars
<1>12. DescCoversImage'
  <2>1. result' = "success" =>
          out'.descOff = off /\ Last(out'.desc) = ImageInfo(out'.descOff)
    BY <1>7, <1>9
  <2> QED
    BY <1>2, <2>1 DEF DescCoversImage
<1> QED
  BY <1>1, <1>2, <1>10, <1>11, <1>12 DEF Inv, LoopOK, Settled

\* No byte is scanned by the steps that only go to another part of the loop.
LEMMA SamePlaceInv ==
  ASSUME Inv, TypeOK', LoopOK', image' = image, matches' = matches, out' = out,
         off' = off, n' = n, result' = result, pc # "done", pc' # "done"
  PROVE  Inv'
<1>1. TypeOK /\ Claims /\ result' = "none"
  BY DEF Inv
<1>2. off' = off + 0 /\ n' = n - 0
  BY <1>1 DEF TypeOK
<1>3. Claims'
  BY <1>1, <1>2, ClaimsKept
<1> QED
  BY <1>1, <1>3 DEF Inv, DescCoversImage, Settled

\* The innermost loop ends.
LEMMA ReachEventInv ==
  ASSUME Inv, ReachEvent
  PROVE  Inv'
<1>1. TypeOK'
  BY DEF Inv, TypeOK, ReachEvent, imageVars, bufVars, queueVars, fileVars
<1>2. LoopOK'
  BY DEF Inv, LoopOK, ReachEvent, bufVars
<1> QED
  BY <1>1, <1>2, SamePlaceInv
  DEF ReachEvent, imageVars, bufVars, queueVars, fileVars

\* A read starts, and the image ends, only when everything read is scanned.
LEMMA EventsDoneInv ==
  ASSUME Inv, EventsDone
  PROVE  Inv'
<1>1. pc = "event" /\ pc' \in {"scan", "end", "read"} /\ (n # 0 => pc' = "scan")
  BY DEF EventsDone, Inv, TypeOK
<1>2. data' \in 0..BufferLength /\ data' + n <= BufferLength
  BY BufferLengthBounds DEF EventsDone, Inv, TypeOK
<1>3. TypeOK'
  BY <1>1, <1>2
  DEF Inv, TypeOK, EventsDone, imageVars, bufVars, queueVars, fileVars
<1>4. LoopOK'
  BY <1>1 DEF Inv, LoopOK, EventsDone
<1> QED
  BY <1>1, <1>3, <1>4, SamePlaceInv
  DEF EventsDone, imageVars, bufVars, queueVars, fileVars

\* The template cannot be written.
LEMMA TemplateErrorInv ==
  ASSUME Inv, TemplateError
  PROVE  Inv'
<1>1. /\ pc' = "done" /\ result' = "failure" /\ image' = image /\ n' = n
      /\ out' = out
  BY DEF TemplateError, Fail, imageVars, bufVars
<1>2. TypeOK'
  BY <1>1
  DEF Inv, TypeOK, TemplateError, imageVars, bufVars, queueVars, fileVars
<1> QED
  BY <1>1, <1>2, StopInv DEF Inv, Settled

\* A file becomes unreadable.
LEMMA LoseFileInv ==
  ASSUME Inv, NEW f \in Files, LoseFile(f)
  PROVE  Inv'
<1>1. TypeOK'
  BY DEF Inv, TypeOK, LoseFile, imageVars, bufVars, loopVars, queueVars
<1>2. LoopOK'
  BY DEF Inv, LoopOK, LoseFile, bufVars, loopVars
<1> QED
  BY <1>1, <1>2, SamePlaceInv
  DEF LoseFile, imageVars, bufVars, loopVars, queueVars

\* A step that changes nothing.
LEMMA StutterInv ==
  ASSUME Inv, UNCHANGED vars
  PROVE  Inv'
<1> USE DEF vars, imageVars, bufVars, loopVars, queueVars, fileVars
<1>1. TypeOK'
  BY DEF Inv, TypeOK
<1>2. LoopOK' /\ Settled(out)' /\ DescCoversImage'
  BY DEF Inv, LoopOK, Settled, DescCoversImage
<1>3. pc' # "done" => Claims' /\ result' = "none"
  BY DEF Inv, Claims, EntryOK
<1> QED
  BY <1>1, <1>2, <1>3 DEF Inv

\* Inv is inductive.
LEMMA NextInv == Inv /\ [Next]_vars => Inv'
<1> SUFFICES ASSUME Inv, [Next]_vars PROVE Inv'
  OBVIOUS
<1>1. CASE ScanStep
  BY <1>1, ReadChunkInv, ScheduleInv, RollByteInv, FastForwardInv,
     CheckFileInv, ReachEventInv, MismatchInv, NextBlockInv, IgnoreMatchInv,
     FileMatchInv, EventsDoneInv, FinishInv, TemplateErrorInv
  DEF ScanStep
<1>2. ASSUME NEW f \in Files, LoseFile(f) PROVE Inv'
  BY <1>2, LoseFileInv
<1>3. CASE Done
  BY <1>3, StutterInv DEF Done
<1>4. CASE UNCHANGED vars
  BY <1>4, StutterInv
<1> QED
  BY <1>1, <1>2, <1>3, <1>4 DEF Next

\* Inv holds of every state the scan can reach.
THEOREM Invariance == Spec => []Inv
<1>1. Init => Inv
  BY InitInv
<1>2. Inv /\ [Next]_vars => Inv'
  BY NextInv
<1> QED
  BY <1>1, <1>2, PTL DEF Spec

\* The variables of scanImage() keep their types; in particular the offsets
\* stay in the buffer and the queue never holds more than MAX_MATCHES entries.
THEOREM TypeCorrect == Spec => []TypeOK
<1>1. Inv => TypeOK
  BY DEF Inv
<1> QED
  BY <1>1, Invariance, PTL

\* The areas that the scan disposes of, in order of their disposal, follow each
\* other without a gap or an overlap: debugRangeFailed() is never called.
THEOREM AreasContiguous == Spec => []RangesContiguous
<1>1. Inv => RangesContiguous
  BY DEF Inv, Settled, RangesContiguous
<1> QED
  BY <1>1, Invariance, PTL

\* The sizes of the DESC section add up to what has been disposed of, and, when
\* the scan reports success, to the size of the image that ImageInfo states.
THEOREM DescSumsUp == Spec => []DescCoversImage
<1>1. Inv => DescCoversImage
  BY DEF Inv
<1> QED
  BY <1>1, Invariance, PTL

\* The buffer has two halves.
LEMMA BufferLengthHalves == BufferLength >= 2 * BufferHalf
<1> DEFINE b == 2 * BufferHalf
           q == (b + ReadAmount - 1) \div ReadAmount
<1>1. BufferHalf \in Nat /\ ReadAmount \in Nat \ {0}
  BY ScanAssumption DEF BufferHalf, Max2
<1>2. \A x \in Int, y \in Nat \ {0} : ((x + y - 1) \div y) * y >= x
  OBVIOUS
<1>3. q * ReadAmount >= b
  BY <1>1, <1>2
<1> QED
  BY <1>3 DEF BufferLength
-----------------------------------------------------------------------------
(* The queue is sorted, and no event is missed *)

\* consistencyCheck(), for any two entries.
SortedByEvent(q) ==
  \A i, j \in 1..Len(q) : i <= j => q[i].nextEv <= q[j].nextEv

\* Where the next events are, in the parts of the loop.
EventsAhead ==
  /\ pc \in {"read", "scan", "end"} =>
       \A m \in Entries(matches) : off < m.nextEv
  /\ pc = "roll" => /\ off <= nextEvent
                    /\ \A m \in Entries(matches) : nextEvent <= m.nextEv
  /\ pc = "event" => \A m \in Entries(matches) : off <= m.nextEv

\* The files whose head has just been found can still be looked up.
TodoOK ==
  /\ pc # "roll" => todo = {}
  /\ \A i \in todo : fpState[FileSeq[i]] # "deleted"

QueueInv == SortedByEvent(matches) /\ EventsAhead /\ TodoOK

\* An insertion by event keeps the queue sorted.
LEMMA InsertByEventSorted ==
  ASSUME NEW q \in Seq(Match), NEW m \in Match, SortedByEvent(q)
  PROVE  SortedByEvent(InsertByEvent(q, m))
<1> DEFINE p == InsertPosition(q, m.nextEv)
           r == InsertAt(q, p, m)
<1>1. /\ p \in 1..(Len(q) + 1)
      /\ \A j \in 1..(p - 1) : q[j].nextEv < m.nextEv
      /\ p <= Len(q) => q[p].nextEv >= m.nextEv
  <2>1. m.nextEv \in Nat
    BY MatchTypes
  <2> QED
    BY <2>1, MatchTypes, InsertPositionFacts
<1>2. r = InsertByEvent(q, m)
  BY DEF InsertByEvent
<1> HIDE DEF p
<1>3. /\ Len(r) = Len(q) + 1
      /\ \A k \in 1..(p - 1) : r[k] = q[k]
      /\ r[p] = m
      /\ \A k \in (p + 1)..(Len(q) + 1) : r[k] = q[k - 1]
  BY <1>1, InsertAtFacts
<1> HIDE DEF r
<1>4. Len(q) \in Nat /\ p \in Nat
  BY <1>1, LenProperties
<1>5. m.nextEv \in Nat /\ \A k \in 1..Len(q) : q[k].nextEv \in Nat
  BY ElementOfSeq, MatchTypes
<1>6. \A i, j \in 1..Len(q) : i <= j => q[i].nextEv <= q[j].nextEv
  BY DEF SortedByEvent
<1>7. \A k \in p..Len(q) : q[k].nextEv >= m.nextEv
  BY <1>1, <1>4, <1>5, <1>6
<1>8. ASSUME NEW i \in 1..Len(r), NEW j \in 1..Len(r), i <= j
      PROVE  r[i].nextEv <= r[j].nextEv
  <2>1. CASE j < p
    BY <1>1, <1>3, <1>4, <1>6, <1>8, <2>1
  <2>2. CASE j = p
    <3>1. CASE i < p
      BY <1>1, <1>3, <1>4, <1>5, <2>2, <3>1
    <3>2. CASE i = p
      BY <1>3, <1>5, <2>2, <3>2
    <3> QED
      BY <1>4, <1>8, <2>2, <3>1, <3>2
  <2>3. CASE j > p
    <3>1. j - 1 \in p..Len(q) /\ r[j] = q[j - 1]
      BY <1>3, <1>4, <2>3
    <3>2. CASE i < p
      <4>1. r[i] = q[i] /\ i \in 1..Len(q) /\ i <= j - 1 /\ j - 1 \in 1..Len(q)
        BY <1>3, <1>4, <3>1, <3>2
      <4> QED
        BY <1>6, <3>1, <4>1
    <3>3. CASE i = p
      BY <1>3, <1>7, <3>1, <3>3
    <3>4. CASE i > p
      <4>1. /\ r[i] = q[i - 1] /\ i - 1 \in 1..Len(q) /\ i - 1 <= j - 1
            /\ j - 1 \in 1..Len(q)
        BY <1>1, <1>3, <1>4, <1>8, <3>1, <3>4
      <4> QED
        BY <1>6, <3>1, <4>1
    <3> QED
      BY <1>4, <3>2, <3>3, <3>4
  <2> QED
    BY <1>4, <2>1, <2>2, <2>3
<1> QED
  BY <1>2, <1>8 DEF SortedByEvent

\* So does a removal.
LEMMA RemoveAtSorted ==
  ASSUME NEW q \in Seq(Match), NEW i \in 1..Len(q), SortedByEvent(q)
  PROVE  SortedByEvent(RemoveAt(q, i))
<1> DEFINE r == RemoveAt(q, i)
<1>1. Len(q) \in Nat /\ i \in Nat
  BY LenProperties
<1>2. /\ Len(r) = Len(q) - 1
      /\ \A k \in 1..(Len(q) - 1) : r[k] = IF k < i THEN q[k] ELSE q[k + 1]
  BY RemoveAtFacts, Zenon
<1> HIDE DEF r
<1>3. ASSUME NEW a \in 1..Len(r), NEW b \in 1..Len(r), a <= b
      PROVE  r[a].nextEv <= r[b].nextEv
  <2>1. \A k, l \in 1..Len(q) : k <= l => q[k].nextEv <= q[l].nextEv
    BY DEF SortedByEvent
  <2>2. /\ a \in 1..(Len(q) - 1) /\ b \in 1..(Len(q) - 1)
        /\ a \in 1..Len(q) /\ b \in 1..Len(q)
        /\ a + 1 \in 1..Len(q) /\ b + 1 \in 1..Len(q)
    BY <1>1, <1>2
  <2>3. CASE b < i
    BY <1>1, <1>2, <1>3, <2>1, <2>2, <2>3
  <2>4. CASE a < i /\ ~(b < i)
    BY <1>1, <1>2, <1>3, <2>1, <2>2, <2>4
  <2>5. CASE ~(a < i)
    <3>1. r[a] = q[a + 1] /\ r[b] = q[b + 1] /\ a + 1 <= b + 1
      BY <1>1, <1>2, <1>3, <2>2, <2>5
    <3> QED
      BY <2>1, <2>2, <3>1
  <2> QED
    BY <1>1, <1>3, <2>2, <2>3, <2>4, <2>5
<1> QED
  BY <1>3 DEF SortedByEvent, r

\* So does removing the front.
LEMMA EraseFrontSorted ==
  ASSUME NEW q \in Seq(Match), q # << >>, SortedByEvent(q)
  PROVE  SortedByEvent(EraseFront(q))
<1> DEFINE r == EraseFront(q)
<1>1. Len(q) \in Nat \ {0}
  BY EmptySeq
<1>2. Len(r) = Len(q) - 1 /\ \A k \in 1..Len(r) : r[k] = q[k + 1]
  BY HeadTailProperties DEF EraseFront
<1> HIDE DEF r
<1>3. ASSUME NEW a \in 1..Len(r), NEW b \in 1..Len(r), a <= b
      PROVE  r[a].nextEv <= r[b].nextEv
  <2>1. a + 1 \in 1..Len(q) /\ b + 1 \in 1..Len(q) /\ a + 1 <= b + 1
    BY <1>1, <1>2, <1>3
  <2> QED
    BY <1>2, <2>1 DEF SortedByEvent
<1> QED
  BY <1>3 DEF SortedByEvent, r

\* So does giving an entry another event.
LEMMA SetNextEventSorted ==
  ASSUME NEW q \in Seq(Match), NEW i \in 1..Len(q), NEW m \in Match,
         SortedByEvent(q)
  PROVE  SortedByEvent(SetNextEvent(q, i, m))
<1>1. RemoveAt(q, i) \in Seq(Match)
  BY RemoveAtFacts, Zenon
<1>2. SortedByEvent(RemoveAt(q, i))
  BY RemoveAtSorted
<1> QED
  BY <1>1, <1>2, InsertByEventSorted DEF SetNextEvent

\* A sorted queue's first event is the earliest one.
LEMMA FrontIsEarliest ==
  ASSUME NEW q \in Seq(Match), q # << >>, SortedByEvent(q)
  PROVE  \A m \in Entries(q) : q[1].nextEv <= m.nextEv
<1>1. Len(q) \in Nat \ {0}
  BY EmptySeq
<1> QED
  BY <1>1 DEF SortedByEvent, Entries

\* Nothing is queued.
LEMMA InitQueue == Init => QueueInv
<1> SUFFICES ASSUME Init PROVE QueueInv
  OBVIOUS
<1>1. matches = << >> /\ todo = {} /\ pc = "read"
  BY DEF Init
<1>2. Len(matches) = 0
  BY <1>1
<1> QED
  BY <1>1, <1>2 DEF QueueInv, SortedByEvent, EventsAhead, TodoOK, Entries

\* The innermost loop is to run to the first event.
LEMMA ScheduleQueue ==
  ASSUME Inv, QueueInv, Schedule
  PROVE  QueueInv'
<1>1. /\ matches' = matches /\ todo' = todo /\ pc = "scan" /\ pc' = "roll"
      /\ off' = off /\ fpState' = fpState
      /\ off \in Nat /\ n \in Nat /\ matches \in Seq(Match)
  BY DEF Schedule, Inv, TypeOK, bufVars, fileVars
<1>2. off <= nextEvent' /\ \A m \in Entries(matches) : nextEvent' <= m.nextEv
  <2>1. CASE matches = << >>
    BY <1>1, <2>1, NoEntries DEF Schedule
  <2>2. CASE matches # << >>
    <3>1. matches[1] \in Entries(matches) /\ matches[1].nextEv \in Nat
      BY <1>1, <2>2, FrontFacts, MatchTypes
    <3>2. nextEvent' = Min2(off + n, matches[1].nextEv)
      BY <2>2 DEF Schedule
    <3>3. off < matches[1].nextEv
      BY <1>1, <3>1 DEF QueueInv, EventsAhead
    <3>4. off <= nextEvent' /\ nextEvent' <= matches[1].nextEv /\ nextEvent' \in Nat
      BY <1>1, <3>1, <3>2, <3>3 DEF Min2
    <3>5. \A m \in Entries(matches) : matches[1].nextEv <= m.nextEv
      BY <1>1, <2>2, FrontIsEarliest DEF QueueInv
    <3>6. \A m \in Entries(matches) : m.nextEv \in Nat
      BY <1>1, EntryTypes, MatchTypes
    <3> QED
      BY <3>1, <3>4, <3>5, <3>6
  <2> QED
    BY <2>1, <2>2
<1>3. SortedByEvent(matches')
  BY <1>1 DEF QueueInv
<1>4. EventsAhead'
  BY <1>1, <1>2 DEF EventsAhead
<1>5. TodoOK'
  BY <1>1 DEF QueueInv, TodoOK
<1> QED
  BY <1>3, <1>4, <1>5 DEF QueueInv

\* A step of the innermost loops ends at the next event at the latest, and the
\* files it finds are not deleted ones.
LEMMA AdvanceQueue ==
  ASSUME Inv, QueueInv, pc = "roll", pc' = "roll",
         off' <= nextEvent, nextEvent' = nextEvent, matches' = matches,
         fpState' = fpState, todo' = {} \/ todo' = HashHits(rsumBack', data')
  PROVE  QueueInv'
<1>1. SortedByEvent(matches')
  BY DEF QueueInv
<1>2. EventsAhead'
  BY DEF QueueInv, EventsAhead
<1>3. TodoOK'
  BY DEF TodoOK, HashHits
<1> QED
  BY <1>1, <1>2, <1>3 DEF QueueInv

\* Rolling the window by one byte.
LEMMA RollByteQueue ==
  ASSUME Inv, QueueInv, RollByte
  PROVE  QueueInv'
<1>1. off' <= nextEvent
  BY DEF RollByte, Advance, Inv, TypeOK
<1> QED
  BY <1>1, AdvanceQueue DEF RollByte, queueVars, fileVars

\* fastForward does not jump over an event.
LEMMA FastForwardQueue ==
  ASSUME Inv, QueueInv, FastForward
  PROVE  QueueInv'
<1>1. off \in Nat /\ nextEvent \in Nat /\ NextAlignedOff \in Int
  BY JumpFacts DEF Inv, TypeOK
<1>2. off' <= nextEvent
  BY <1>1 DEF FastForward, Advance, Min2
<1> QED
  BY <1>2, AdvanceQueue DEF FastForward, fileVars

\* The event of a new entry is not in the past: a hashed file has at least
\* BlockLength bytes.
LEMMA NewMatchEvent ==
  ASSUME TypeOK, NEW i \in Hashed, fpState[FileSeq[i]] # "deleted",
         ~StartImpossible
  PROVE  /\ NewMatch(FileSeq[i]) \in Match
         /\ off <= NewMatch(FileSeq[i]).nextEv
<1> DEFINE f == FileSeq[i]
<1>1. f \in Files /\ Len(Content[f]) >= BlockLength
  BY HashedFacts DEF Hashed
<1>2. Len(Content[f]) \in Nat /\ off \in Nat
  BY <1>1, FileFacts DEF TypeOK
<1>3. BlockLength \in Nat /\ CsumBlockLength \in Nat /\ BlockLength < CsumBlockLength
  BY ScanAssumption
<1>4. Size(f) = Len(Content[f])
  BY DEF Size
<1> HIDE DEF f
<1>5. NewMatch(f).nextEv = (off - BlockLength) + Min2(Size(f), CsumBlockLength)
  BY DEF NewMatch
<1>6. off <= NewMatch(f).nextEv
  BY <1>1, <1>2, <1>3, <1>4, <1>5 DEF Min2
<1>7. NewMatch(f) \in Match
  BY <1>1, NewMatchFacts
<1> QED
  BY <1>6, <1>7 DEF f

\* checkRsyncSumMatch2 keeps the queue sorted and the next event up to date.
LEMMA EnqueueQueue ==
  ASSUME TypeOK, NEW i \in Hashed, fpState[FileSeq[i]] # "deleted",
         Enqueue(FileSeq[i]), SortedByEvent(matches), off <= nextEvent,
         \A m \in Entries(matches) : nextEvent <= m.nextEv
  PROVE  /\ SortedByEvent(matches') /\ off <= nextEvent'
         /\ \A m \in Entries(matches') : nextEvent' <= m.nextEv
<1> DEFINE f    == FileSeq[i]
           x    == NewMatch(f)
           s    == DropSectorLength(matches, sectorLength, x.startOff)
           drop == DropCandidate(matches, s, x.startOff)
<1>1. /\ matches \in Seq(Match) /\ Len(matches) \in Nat /\ nextEvent \in Nat
      /\ sectorLength \in SectorLengths /\ off \in Nat
  BY LenProperties DEF TypeOK
<1>2. CASE matches' = matches /\ nextEvent' = nextEvent
  BY <1>2
<1>3. ASSUME ~StartImpossible, nextEvent' = Min2(nextEvent, x.nextEv),
             NEW q \in Seq(Match), SortedByEvent(q), Entries(q) \subseteq Entries(matches),
             matches' = InsertByEvent(q, x)
      PROVE  /\ SortedByEvent(matches') /\ off <= nextEvent'
             /\ \A m \in Entries(matches') : nextEvent' <= m.nextEv
  <2>1. x \in Match /\ off <= x.nextEv /\ x.nextEv \in Nat
    BY <1>3, NewMatchEvent, MatchTypes
  <2> HIDE DEF x
  <2>2. SortedByEvent(matches')
    BY <1>3, <2>1, InsertByEventSorted
  <2>3. Entries(matches') = Entries(q) \cup {x}
    <3>1. Entries(InsertByEvent(q, x)) = Entries(q) \cup {x}
      BY <2>1, MatchTypes, InsertByEventFacts
    <3> QED
      BY <1>3, <3>1
  <2>4. nextEvent' \in Nat /\ nextEvent' <= nextEvent /\ nextEvent' <= x.nextEv
        /\ off <= nextEvent'
    BY <1>1, <1>3, <2>1 DEF Min2
  <2>5. \A m \in Entries(matches) : m.nextEv \in Nat
    BY <1>1, EntryTypes, MatchTypes
  <2> QED
    BY <1>1, <1>3, <2>2, <2>3, <2>4, <2>5
<1>4. CASE ~StartImpossible /\ ~Full(matches)
  <2>1. matches' = InsertByEvent(matches, x) /\ nextEvent' = Min2(nextEvent, x.nextEv)
    BY <1>4 DEF Enqueue
  <2>2. Entries(matches) \subseteq Entries(matches)
    OBVIOUS
  <2> HIDE DEF x, f
  <2> QED
    BY <1>1, <1>3, <1>4, <2>1, <2>2
<1>5. CASE ~StartImpossible /\ Full(matches) /\ drop # 0 /\ matches[drop].filePart # f
  <2>1. /\ matches' = SetNextEvent(matches, drop, x)
        /\ nextEvent' = Min2(nextEvent, x.nextEv)
    BY <1>5 DEF Enqueue
  <2>2. s \in SectorLengths
    BY <1>1, DropSectorLengthFacts
  <2>3. drop \in 1..Len(matches)
    BY <1>1, <1>5, <2>2, DropCandidateFacts
  <2> DEFINE q == RemoveAt(matches, drop)
  <2>4. matches' = InsertByEvent(q, x)
    BY <2>1 DEF SetNextEvent
  <2> HIDE DEF drop, s, x, f
  <2>5. q \in Seq(Match)
    BY <1>1, <2>3, RemoveAtFacts, Zenon
  <2>6. SortedByEvent(q)
    BY <1>1, <2>3, RemoveAtSorted
  <2>7. Entries(q) \subseteq Entries(matches)
    <3>1. Entries(q) = Others(matches, drop)
      BY <1>1, <2>3, RemoveAtEntries, Zenon
    <3> QED
      BY <3>1 DEF Others, Entries
  <2> HIDE DEF q
  <2> QED
    BY <1>3, <1>5, <2>1, <2>4, <2>5, <2>6, <2>7
<1> QED
  BY <1>2, <1>4, <1>5 DEF Enqueue

\* One file with the RsyncSum of the window.
LEMMA CheckFileQueue ==
  ASSUME Inv, QueueInv, CheckFile
  PROVE  QueueInv'
<1>1. PICK i \in todo : Enqueue(FileSeq[i]) /\ todo' = todo \ {i}
  BY DEF CheckFile
<1>2. /\ TypeOK /\ pc = "roll" /\ pc' = "roll" /\ off' = off /\ fpState' = fpState
      /\ i \in Hashed /\ fpState[FileSeq[i]] # "deleted"
  BY <1>1 DEF CheckFile, Inv, TypeOK, QueueInv, TodoOK, bufVars, fileVars
<1>3. /\ SortedByEvent(matches) /\ off <= nextEvent
      /\ \A m \in Entries(matches) : nextEvent <= m.nextEv
  BY <1>2 DEF QueueInv, EventsAhead
<1>4. /\ SortedByEvent(matches') /\ off <= nextEvent'
      /\ \A m \in Entries(matches') : nextEvent' <= m.nextEv
  BY <1>1, <1>2, <1>3, EnqueueQueue
<1>5. TodoOK'
  BY <1>1, <1>2 DEF QueueInv, TodoOK
<1> QED
  BY <1>2, <1>4, <1>5 DEF QueueInv, EventsAhead

\* The innermost loop has reached the next event.
LEMMA ReachEventQueue ==
  ASSUME Inv, QueueInv, ReachEvent
  PROVE  QueueInv'
<1>1. /\ pc = "roll" /\ pc' = "event" /\ off' = off /\ todo' = todo /\ todo = {}
      /\ matches' = matches /\ fpState' = fpState /\ ~(off < nextEvent)
      /\ off \in Nat /\ nextEvent \in Nat
  BY DEF ReachEvent, bufVars, queueVars, fileVars, Inv, TypeOK
<1>2. off = nextEvent
  BY <1>1 DEF QueueInv, EventsAhead
<1> QED
  BY <1>1, <1>2 DEF QueueInv, EventsAhead, TodoOK

\* No event that is due is left when the loop goes on.
LEMMA EventsDoneQueue ==
  ASSUME Inv, QueueInv, EventsDone
  PROVE  QueueInv'
<1>1. /\ pc = "event" /\ ~EventDue /\ off' = off /\ todo' = todo
      /\ matches' = matches /\ fpState' = fpState /\ pc' \in {"scan", "end", "read"}
      /\ matches \in Seq(Match) /\ off \in Nat
  BY DEF EventsDone, queueVars, fileVars, Inv, TypeOK
<1>2. \A m \in Entries(matches) : off < m.nextEv
  <2>1. CASE matches = << >>
    BY <2>1, NoEntries
  <2>2. CASE matches # << >>
    <3>1. matches[1] \in Entries(matches) /\ matches[1].nextEv \in Nat
      BY <1>1, <2>2, FrontFacts, MatchTypes
    <3>2. off < matches[1].nextEv
      BY <1>1, <2>2, <3>1 DEF EventDue, QueueInv, EventsAhead
    <3>3. \A m \in Entries(matches) : matches[1].nextEv <= m.nextEv
      BY <1>1, <2>2, FrontIsEarliest DEF QueueInv
    <3>4. \A m \in Entries(matches) : m.nextEv \in Nat
      BY <1>1, EntryTypes, MatchTypes
    <3> QED
      BY <1>1, <3>1, <3>2, <3>3, <3>4
  <2> QED
    BY <2>1, <2>2
<1> QED
  BY <1>1, <1>2 DEF QueueInv, EventsAhead, TodoOK

\* The next chunk is read.
LEMMA ReadChunkQueue ==
  ASSUME Inv, QueueInv, ReadChunk
  PROVE  QueueInv'
<1>1. /\ pc = "read" /\ pc' \in {"scan", "end"} /\ off' = off /\ todo' = todo
      /\ matches' = matches /\ fpState' = fpState
  BY DEF ReadChunk, queueVars, fileVars
<1> QED
  BY <1>1 DEF QueueInv, EventsAhead, TodoOK

\* An event ends with the first entry gone.
LEMMA EraseFrontQueue ==
  ASSUME Inv, QueueInv, EventDue, matches' = EraseFront(matches), todo' = todo,
         off' = off, pc' \in {"event", "done"}
  PROVE  QueueInv'
<1>1. /\ matches \in Seq(Match) /\ matches # << >> /\ Len(matches) <= MaxMatches
      /\ pc = "event"
  BY EventFacts
<1>2. SortedByEvent(matches')
  BY <1>1, EraseFrontSorted DEF QueueInv
<1>3. Entries(matches') \subseteq Entries(matches)
  BY <1>1, RestFacts
<1>4. todo' = {}
  BY <1>1 DEF QueueInv, TodoOK
<1> QED
  BY <1>1, <1>2, <1>3, <1>4 DEF QueueInv, EventsAhead, TodoOK

\* A block does not match.
LEMMA MismatchQueue ==
  ASSUME Inv, QueueInv, Mismatch
  PROVE  QueueInv'
<1>1. /\ EventDue /\ matches' = EraseFront(matches) /\ todo' = todo /\ off' = off
      /\ pc' \in {"event", "done"}
  BY DEF Mismatch, GoOn, Fail, bufVars, EventDue
<1> QED
  BY <1>1, EraseFrontQueue

\* A match is ignored.
LEMMA IgnoreMatchQueue ==
  ASSUME Inv, QueueInv, IgnoreMatch
  PROVE  QueueInv'
<1>1. /\ EventDue /\ matches' = EraseFront(matches) /\ todo' = todo /\ off' = off
      /\ pc' \in {"event", "done"}
  BY DEF IgnoreMatch, bufVars, loopVars, EventDue
<1> QED
  BY <1>1, EraseFrontQueue

\* The entry for the next block of a match.
NextEntry(x, d, ev) ==
  [x EXCEPT !.blockOff = d, !.blockNr = @ + 1, !.nextEv = ev]

\* What changes in it and what does not.
LEMMA NextEntryFacts ==
  ASSUME NEW x \in Match, NEW d \in Nat, NEW ev \in Nat
  PROVE  LET y == NextEntry(x, d, ev)
         IN /\ y \in Match /\ y.startOff = x.startOff /\ y.nextEv = ev
            /\ y.blockOff = d /\ y.blockNr = x.blockNr + 1
            /\ y.filePart = x.filePart
<1> DEFINE y1 == [x EXCEPT !.blockOff = d]
           y2 == [y1 EXCEPT !.blockNr = x.blockNr + 1]
           y3 == [y2 EXCEPT !.nextEv = ev]
<1>1. x.blockNr + 1 \in Nat
  BY MatchTypes
<1>2. /\ y1 \in Match /\ y1.startOff = x.startOff /\ y1.blockOff = d
      /\ y1.filePart = x.filePart
  BY DEF Match
<1> HIDE DEF y1
<1>3. /\ y2 \in Match /\ y2.startOff = x.startOff /\ y2.blockOff = d
      /\ y2.blockNr = x.blockNr + 1 /\ y2.filePart = x.filePart
  BY <1>1, <1>2 DEF Match
<1> HIDE DEF y2
<1>4. /\ y3 \in Match /\ y3.startOff = x.startOff /\ y3.blockOff = d
      /\ y3.blockNr = x.blockNr + 1 /\ y3.filePart = x.filePart /\ y3.nextEv = ev
  BY <1>3 DEF Match
<1>5. y3 = NextEntry(x, d, ev)
  BY DEF y1, y2, NextEntry
<1> HIDE DEF y3
<1> QED
  BY <1>4, <1>5

\* The event of the next block is later: the block is not empty.
LEMMA NextBlockQueue ==
  ASSUME Inv, QueueInv, NextBlock
  PROVE  QueueInv'
<1> DEFINE x  == matches[1]
           ev == Min2(x.nextEv + CsumBlockLength, x.startOff + Len(Content[x.filePart]))
           y  == [x EXCEPT !.blockOff = data, !.blockNr = @ + 1, !.nextEv = ev]
<1>1. EventDue
  BY DEF NextBlock
<1>2. /\ TypeOK /\ matches \in Seq(Match) /\ matches # << >>
      /\ x \in Match /\ x.filePart \in Files /\ x.startOff \in Nat
      /\ x.nextEv = off /\ pc = "event" /\ 1 \in 1..Len(matches) /\ off \in Nat
  BY <1>1, EventFacts
<1>3. /\ matches' = SetNextEvent(matches, 1, y)
      /\ off' = off /\ pc' = "event" /\ todo' = todo
  BY <1>2 DEF NextBlock, bufVars
<1>4. Len(Content[x.filePart]) \in Nat /\ CsumBlockLength \in Nat \ {0}
  BY <1>2, FileFacts, ScanAssumption
<1>5. ~(off >= x.startOff + Len(Content[x.filePart]))
  BY DEF NextBlock, LastBlock
<1>6. ev \in Nat /\ off < ev
  BY <1>2, <1>4, <1>5 DEF Min2
<1>7. y \in Match /\ y.nextEv = ev
  <2>1. data \in Nat
    BY <1>2 DEF TypeOK
  <2>2. y = NextEntry(x, data, ev)
    BY DEF NextEntry
  <2> HIDE DEF x, ev, y
  <2> QED
    BY <1>2, <1>6, <2>1, <2>2, NextEntryFacts, ZenonT(60)
<1> HIDE DEF y, ev
<1>8. SortedByEvent(matches')
  BY <1>2, <1>3, <1>7, SetNextEventSorted DEF QueueInv
<1>9. Entries(matches') = Others(matches, 1) \cup {y}
  <2>1. Entries(SetNextEvent(matches, 1, y)) = Others(matches, 1) \cup {y}
    BY <1>2, <1>7, SetNextEventMatch
  <2> QED
    BY <1>3, <2>1
<1>10. \A m \in Entries(matches') : off <= m.nextEv
  <2>1. \A m \in Others(matches, 1) : off <= m.nextEv
    BY <1>2 DEF QueueInv, EventsAhead, Others, Entries
  <2> QED
    BY <1>2, <1>6, <1>7, <1>9, <2>1
<1>11. TodoOK'
  BY <1>2, <1>3 DEF QueueInv, TodoOK
<1> QED
  BY <1>3, <1>8, <1>10, <1>11 DEF QueueInv, EventsAhead

\* A recorded match abandons every pending one, since they start before its end.
LEMMA NothingPending ==
  ASSUME TypeOK, Claims
  PROVE  EraseStartOffsetLess(matches, off) = << >>
<1>1. matches \in Seq(Match) /\ off \in Nat
  BY DEF TypeOK
<1>2. \A m \in Entries(matches) : m.startOff \in Nat /\ m.startOff < off
  BY <1>1, EntryTypes, MatchTypes, Constants DEF Claims, EntryOK
<1> QED
  BY <1>1, <1>2, MatchTypes, EraseStartOffsetLessAll

\* A file is recorded as a match.
LEMMA FileMatchQueue ==
  ASSUME Inv, QueueInv, FileMatch
  PROVE  QueueInv'
<1>1. EventDue
  BY DEF FileMatch
<1>2. TypeOK /\ Claims /\ pc = "event"
  BY <1>1, EventFacts
<1>3. /\ todo' = todo
      /\ \/ matches' = matches /\ pc' = "done"
         \/ matches' = EraseStartOffsetLess(matches, off) /\ pc' = pc
  BY DEF FileMatch, Fail, GoOn
<1>4. todo' = {}
  BY <1>2, <1>3 DEF QueueInv, TodoOK
<1>5. CASE matches' = matches /\ pc' = "done"
  BY <1>4, <1>5 DEF QueueInv, EventsAhead, TodoOK
<1>6. CASE matches' = EraseStartOffsetLess(matches, off) /\ pc' = pc
  <2>1. matches' = << >> /\ Len(matches') = 0
    BY <1>2, <1>6, NothingPending
  <2> QED
    BY <1>2, <1>4, <1>6, <2>1
    DEF QueueInv, EventsAhead, TodoOK, SortedByEvent, Entries
<1> QED
  BY <1>3, <1>5, <1>6

\* The scan stops.
LEMMA StopQueue ==
  ASSUME Inv, QueueInv, Finish \/ TemplateError
  PROVE  QueueInv'
<1>1. pc \in {"read", "event", "end"}
  BY DEF Finish, TemplateError
<1>2. matches' = matches /\ todo' = todo /\ pc' = "done" /\ fpState' = fpState
  BY DEF Finish, TemplateError, Fail, queueVars, fileVars
<1> QED
  BY <1>1, <1>2 DEF QueueInv, EventsAhead, TodoOK

\* Steps that do not touch the queue.
LEMMA OtherQueue ==
  ASSUME Inv, QueueInv, \/ \E f \in Files : LoseFile(f)
                        \/ UNCHANGED vars
  PROVE  QueueInv'
<1>1. /\ matches' = matches /\ todo' = todo /\ pc' = pc /\ off' = off
      /\ nextEvent' = nextEvent /\ fpState' = fpState
  BY DEF LoseFile, vars, bufVars, loopVars, queueVars, fileVars
<1> QED
  BY <1>1 DEF QueueInv, EventsAhead, TodoOK

\* QueueInv is inductive, given Inv.
LEMMA NextQueue == Inv /\ QueueInv /\ [Next]_vars => QueueInv'
<1> SUFFICES ASSUME Inv, QueueInv, [Next]_vars PROVE QueueInv'
  OBVIOUS
<1>1. CASE ScanStep
  BY <1>1, ReadChunkQueue, ScheduleQueue, RollByteQueue, FastForwardQueue,
     CheckFileQueue, ReachEventQueue, MismatchQueue, NextBlockQueue,
     IgnoreMatchQueue, FileMatchQueue, EventsDoneQueue, StopQueue
  DEF ScanStep
<1>2. CASE (\E f \in Files : LoseFile(f)) \/ Done \/ UNCHANGED vars
  BY <1>2, OtherQueue DEF Done
<1> QED
  BY <1>1, <1>2 DEF Next

\* QueueInv holds of every state the scan can reach.
THEOREM QueueInvariance == Spec => []QueueInv
<1>1. Init => QueueInv
  BY InitQueue
<1>2. Inv /\ QueueInv /\ [Next]_vars => QueueInv'
  BY NextQueue
<1> QED
  BY <1>1, <1>2, Invariance, PTL DEF Spec

\* The queue stays sorted by ascending nextEvent, whatever is inserted, moved
\* or dropped, and the loop never goes on past an event: consistencyCheck() and
\* the Assert after the event loop hold.
THEOREM QueueSorted == Spec => []QueueConsistent
<1>1. Inv /\ QueueInv => QueueConsistent
  <2> SUFFICES ASSUME Inv, QueueInv PROVE QueueConsistent
    OBVIOUS
  <2>1. /\ matches \in Seq(Match) /\ Len(matches) \in Nat
        /\ DOMAIN matches = 1..Len(matches) /\ off \in Nat
    BY LenProperties DEF Inv, TypeOK
  <2>2. \A i \in 1..(Len(matches) - 1) : matches[i].nextEv <= matches[i + 1].nextEv
    BY <2>1 DEF QueueInv, SortedByEvent
  <2>3. pc \in {"read", "scan", "end"} =>
          \A i \in DOMAIN matches : matches[i].nextEv > off
    <3> SUFFICES ASSUME pc \in {"read", "scan", "end"}, NEW i \in 1..Len(matches)
                 PROVE  matches[i].nextEv > off
      BY <2>1
    <3>1. matches[i] \in Entries(matches) /\ matches[i].nextEv \in Nat
      BY <2>1, EntryAt, ElementOfSeq, MatchTypes
    <3> QED
      BY <2>1, <3>1 DEF QueueInv, EventsAhead
  <2> QED
    BY <2>2, <2>3 DEF QueueConsistent
<1> QED
  BY <1>1, Invariance, QueueInvariance, PTL

-----------------------------------------------------------------------------
(* What the actions do to the output *)

\* o2 is o after an area that starts where the last one ended.
IsArea(o, o2, to, bytes) ==
  /\ to \in Nat /\ o.start <= to /\ bytes \in Seq(Byte)
  /\ o2 = Area(o, o.start, to, bytes)

\* A flush writes out an area or nothing.
LEMMA FlushIsArea ==
  ASSUME TypeOK, NEW o \in Output, NEW to \in Nat
  PROVE  \/ Flush(o, to) = o /\ to <= o.start
         \/ /\ o.start < to
            /\ IsArea(o, Flush(o, to), to, Buffered(o.start, to - o.start))
<1>1. o.start \in Nat
  BY DEF Output
<1>2. CASE o.start < to
  <2>1. Buffered(o.start, to - o.start) \in Seq(Byte)
    BY <1>1, BufferedType
  <2> QED
    BY <1>1, <1>2, <2>1 DEF Flush, IsArea
<1>3. CASE ~(o.start < to)
  BY <1>1, <1>3 DEF Flush
<1> QED
  BY <1>2, <1>3

\* The flush before a read ends before the window, and before any pending match.
LEMMA FlushLimit ==
  ASSUME TypeOK
  PROVE  /\ NewUnmatchedStart \in Nat
         /\ NewUnmatchedStart <= Max2(off - BlockLength, 0)
         /\ \A m \in Entries(matches) : NewUnmatchedStart <= m.startOff
         /\ \/ NewUnmatchedStart = Max2(off - BlockLength, 0)
            \/ \E m \in Entries(matches) : m.startOff = NewUnmatchedStart
<1> DEFINE limit == IF off > BlockLength THEN off - BlockLength ELSE 0
<1>1. matches \in Seq(Match) /\ off \in Nat /\ BlockLength \in Nat
  BY Constants DEF TypeOK
<1>2. limit \in Nat /\ limit = Max2(off - BlockLength, 0)
  BY <1>1 DEF Max2
<1>3. CASE matches = << >>
  BY <1>2, <1>3, NoEntries DEF NewUnmatchedStart
<1>4. CASE matches # << >>
  <2> DEFINE low == matches[LowestStartOffset(matches)]
  <2>1. /\ low \in Entries(matches) /\ low.startOff \in Nat
        /\ \A m \in Entries(matches) : m.startOff \in Nat /\ low.startOff <= m.startOff
    BY <1>1, <1>4, OldestFacts, EntryTypes, MatchTypes
  <2>2. NewUnmatchedStart = Min2(limit, low.startOff)
    BY <1>4 DEF NewUnmatchedStart
  <2> HIDE DEF low, limit
  <2> QED
    BY <1>2, <2>1, <2>2 DEF Min2
<1> QED
  BY <1>3, <1>4

\* The bytes that are not buffered are further back than a block and than the
\* window.
LEMMA KeptIsOld ==
  ASSUME TypeOK, n <= ReadAmount
  PROVE  /\ off - StillBuffered <= Max2(off - BlockLength, 0)
         /\ off - StillBuffered <= Max2(off - CsumBlockLength, 0)
<1>1. off \in Nat /\ n \in Nat
  BY DEF TypeOK
<1>2. /\ BufferHalf \in Nat /\ BufferHalf >= BlockLength
      /\ BufferHalf >= ReadAmount /\ BufferHalf >= CsumBlockLength
      /\ ReadAmount \in Nat \ {0} /\ BlockLength \in Nat /\ CsumBlockLength \in Nat
  BY ScanAssumption DEF BufferHalf, Max2
<1>3. BufferLength \in Nat /\ BufferLength >= 2 * BufferHalf
  BY BufferLengthHalves, BufferLengthBounds
<1>4. CASE BufferLength - n <= off
  BY <1>1, <1>2, <1>3, <1>4 DEF StillBuffered, Min2, Max2
<1>5. CASE ~(BufferLength - n <= off)
  BY <1>1, <1>2, <1>3, <1>5 DEF StillBuffered, Min2, Max2
<1> QED
  BY <1>4, <1>5

\* Where the data that a mismatch re-reads ends.
RereadEnd ==
  LET kept == off - StillBuffered
      rest == EraseFront(matches)
  IN IF rest = << >> THEN kept
     ELSE Min2(kept, rest[LowestStartOffset(rest)].startOff)

\* A mismatch leaves the output alone, or it adds the data from out.start to
\* where the buffer or the next pending match begins.
LEMMA MismatchOutput ==
  ASSUME Inv, Mismatch
  PROVE  LET x == matches[1]
             bytes == RereadData(x.filePart, RereadEnd - out.start)
         IN \/ /\ out' = out /\ pc' = pc /\ result' = result
               /\ \/ LowestStartOffset(matches) # 1
                  \/ x.startOff >= off - StillBuffered
            \/ /\ x.startOff = out.start
               /\ RereadEnd <= off - StillBuffered
               /\ \/ RereadEnd = off - StillBuffered
                  \/ \E m \in Entries(matches') : m.startOff = RereadEnd
               /\ IsArea(out, out', RereadEnd, bytes)
               /\ \/ /\ CanReread(x.filePart, RereadEnd - out.start)
                     /\ pc' = pc /\ result' = result
                  \/ pc' = "done" /\ result' = "failure"
<1> DEFINE x    == matches[1]
           kept == off - StillBuffered
           rest == EraseFront(matches)
           bytes == RereadData(x.filePart, RereadEnd - out.start)
<1>1. EventDue /\ matches' = rest
  BY DEF Mismatch
<1>2. /\ TypeOK /\ Claims
      /\ matches \in Seq(Match) /\ matches # << >> /\ Len(matches) <= MaxMatches
      /\ x \in Match /\ x \in Entries(matches) /\ x.filePart \in Files
      /\ x.startOff \in Nat /\ off \in Nat /\ n \in Nat /\ out.start \in Nat
  BY <1>1, EventFacts
<1>3. CASE LowestStartOffset(matches) # 1 \/ x.startOff >= kept
  BY <1>3 DEF Mismatch, GoOn
<1>4. CASE ~(LowestStartOffset(matches) # 1 \/ x.startOff >= kept)
  <2>1. \A m \in Entries(matches) : x.startOff <= m.startOff
    BY <1>2, <1>4, OldestFacts
  <2>2. /\ kept \in Nat /\ kept <= off /\ x.startOff < kept
    BY <1>2, <1>4, KeptFacts
  <2>3. x.startOff = out.start
    BY <1>2, <2>1, <2>2, OldestClaims
  <2>4. /\ RereadEnd \in Nat /\ x.startOff <= RereadEnd /\ RereadEnd <= kept
        /\ \/ RereadEnd = kept
           \/ \E m \in Entries(rest) : m.startOff = RereadEnd
    <3>1. rest \in Seq(Match) /\ Entries(rest) \subseteq Entries(matches)
      BY <1>2, RestFacts
    <3>2. CASE rest = << >>
      <4>1. RereadEnd = kept
        BY <3>2 DEF RereadEnd
      <4> QED
        BY <1>2, <2>2, <4>1
    <3>3. CASE rest # << >>
      <4> DEFINE o == rest[LowestStartOffset(rest)]
      <4>1. RereadEnd = Min2(kept, o.startOff)
        BY <3>3 DEF RereadEnd
      <4>2. o \in Entries(rest) /\ o.startOff \in Nat /\ x.startOff <= o.startOff
        <5> HIDE DEF rest
        <5> QED
          BY <2>1, <3>1, <3>3, OldestFacts, MatchTypes
      <4> HIDE DEF o, kept, rest
      <4>3. RereadEnd \in {kept, o.startOff} /\ RereadEnd <= kept
        BY <2>2, <4>1, <4>2, Min2Facts
      <4> QED
        BY <1>2, <2>2, <4>2, <4>3
    <3> QED
      BY <3>2, <3>3
  <2>5. /\ out' = Area(out, x.startOff, RereadEnd,
                       RereadData(x.filePart, RereadEnd - x.startOff))
        /\ \/ /\ CanReread(x.filePart, RereadEnd - x.startOff)
              /\ pc' = pc /\ result' = result
           \/ pc' = "done" /\ result' = "failure"
    BY <1>4 DEF Mismatch, GoOn, Fail, RereadEnd
  <2>6. bytes \in Seq(Byte)
    <3>1. RereadEnd - out.start \in Int
      BY <1>2, <2>4
    <3> QED
      BY <1>2, <3>1, RereadType
  <2> HIDE DEF bytes, kept, rest, x
  <2>7. IsArea(out, out', RereadEnd, bytes)
    BY <2>3, <2>4, <2>5, <2>6 DEF IsArea, bytes
  <2> QED
    BY <1>1, <2>3, <2>4, <2>5, <2>7 DEF bytes, x, kept, rest
<1> QED
  BY <1>3, <1>4

\* Where the data that is re-read before a match ends.
MatchRereadEnd == Min2(off - StillBuffered, matches[1].startOff)

\* A recorded match: out1 after the re-read, which is needed only if the oldest
\* pending match starts before the buffered data, then a flush up to the match.
LEMMA FileMatchOutput ==
  ASSUME Inv, FileMatch
  PROVE  LET x      == matches[1]
             oldest == matches[LowestStartOffset(matches)]
             count  == MatchRereadEnd - out.start
         IN /\ x.startOff + Len(Content[x.filePart]) = off
            /\ \E out1 \in Output :
                 /\ out1.start <= x.startOff
                 /\ \/ /\ out1 = out
                       /\ \/ LowestStartOffset(matches) = 1
                          \/ oldest.startOff >= off - StillBuffered
                    \/ /\ oldest.startOff = out.start
                       /\ IsArea(out, out1, MatchRereadEnd,
                                 RereadData(oldest.filePart, count))
                       /\ CanReread(oldest.filePart, count) \/ pc' = "done"
                 /\ Flush(out1, x.startOff) \in Output
                 /\ Flush(out1, x.startOff).start = x.startOff
                 /\ Flush(out1, x.startOff).descOff = x.startOff
                 /\ \/ /\ pc' = "done" /\ result' # "success"
                       /\ \/ out' = out1
                          \/ out' = Flush(out1, x.startOff)
                          \/ out' = MatchArea(Flush(out1, x.startOff),
                                              x.startOff, x.filePart)
                    \/ /\ pc' = pc /\ matches' = << >>
                       /\ out' = MatchArea(Flush(out1, x.startOff),
                                           x.startOff, x.filePart)
<1> DEFINE x      == matches[1]
           f      == x.filePart
           oldest == matches[LowestStartOffset(matches)]
           kept   == off - StillBuffered
           reread == LowestStartOffset(matches) # 1 /\ oldest.startOff < kept
           end    == MatchRereadEnd
           bytes  == RereadData(oldest.filePart, end - oldest.startOff)
           out1   == IF reread THEN Area(out, oldest.startOff, end, bytes) ELSE out
           out2   == Flush(out1, x.startOff)
<1>1. EventDue
  BY DEF FileMatch
<1>2. /\ TypeOK /\ Claims /\ Settled(out) /\ out \in Output
      /\ matches \in Seq(Match) /\ matches # << >>
      /\ x \in Match /\ x \in Entries(matches) /\ f \in Files
      /\ x.startOff \in Nat /\ x.nextEv = off
      /\ off \in Nat /\ out.start \in Nat
  BY <1>1, EventFacts
<1>3. /\ oldest \in Match /\ oldest \in Entries(matches)
      /\ oldest.filePart \in Files /\ oldest.startOff \in Nat
      /\ \A m \in Entries(matches) : oldest.startOff <= m.startOff
  BY <1>2, OldestFacts, MatchTypes
<1>4. Len(Content[f]) \in Nat /\ x.startOff + Len(Content[f]) = off
  <2>1. Len(Content[f]) \in Nat
    BY <1>2, FileFacts
  <2>2. off >= x.startOff + Len(Content[f])
    BY DEF FileMatch, LastBlock
  <2>3. off <= x.startOff + Len(Content[f])
    BY <1>2 DEF Claims, EntryOK
  <2> QED
    BY <1>2, <2>1, <2>2, <2>3
<1>5. kept \in Nat /\ kept <= off
  BY <1>2, KeptFacts
<1>6. out.start <= x.startOff /\ oldest.startOff <= x.startOff
  BY <1>2, <1>3 DEF Claims
<1>7. /\ out1 \in Output /\ Settled(out1) /\ out1.start <= x.startOff
      /\ \/ /\ ~reread /\ out1 = out
         \/ /\ reread /\ oldest.startOff = out.start
            /\ IsArea(out, out1, end, bytes)
  <2>1. CASE ~reread
    BY <1>2, <1>6, <2>1
  <2>2. CASE reread
    <3>1. oldest.startOff = out.start
      BY <1>2, <1>3, <2>2, OldestClaims
    <3>2. end \in Nat /\ oldest.startOff <= end /\ end <= x.startOff
      <4>1. end = Min2(kept, x.startOff)
        BY DEF MatchRereadEnd
      <4> HIDE DEF end, oldest, x, kept
      <4> QED
        BY <1>2, <1>3, <1>5, <1>6, <2>2, <4>1, Min2Facts
    <3>3. bytes \in Seq(Byte)
      <4> HIDE DEF end
      <4>1. end - oldest.startOff \in Int
        BY <1>3, <3>2
      <4> QED
        BY <1>3, <4>1, RereadType
    <3>4. out1 = Area(out, oldest.startOff, end, bytes)
      BY <2>2
    <3> HIDE DEF end, bytes, out1, oldest
    <3>5. out1 \in Output /\ Settled(out1) /\ out1.start = end
      BY <1>2, <3>1, <3>2, <3>3, <3>4, AreaFacts
    <3> QED
      BY <2>2, <3>1, <3>2, <3>3, <3>4, <3>5 DEF IsArea
  <2> QED
    BY <2>1, <2>2
<1>8. \/ out' = out1 /\ pc' = "done" /\ result' # "success"
      \/ /\ reread => CanReread(oldest.filePart, end - oldest.startOff)
         /\ \/ out' = out2 /\ pc' = "done" /\ result' # "success"
            \/ /\ out' = MatchArea(out2, x.startOff, f)
               /\ pc' = "done" /\ result' # "success"
            \/ /\ out' = MatchArea(out2, x.startOff, f)
               /\ matches' = EraseStartOffsetLess(matches, off)
               /\ pc' = pc
  BY DEF FileMatch, Fail, GoOn, MatchRereadEnd
<1>9. EraseStartOffsetLess(matches, off) = << >>
  BY <1>2, NothingPending
<1> HIDE DEF out1
<1>10. out2 \in Output /\ Settled(out2) /\ out2.start = x.startOff
  <2>1. out1.start \in Nat
    BY <1>7 DEF Output
  <2>2. /\ Flush(out1, x.startOff) \in Output /\ Settled(Flush(out1, x.startOff))
        /\ Flush(out1, x.startOff).start =
             IF out1.start < x.startOff THEN x.startOff ELSE out1.start
    BY <1>2, <1>7, FlushFacts
  <2> QED
    BY <1>2, <1>7, <2>1, <2>2
<1>11. out2.descOff = x.startOff
  BY <1>10 DEF Settled
<1> HIDE DEF reread, end, bytes, oldest, x, f, kept
<1>12. \/ /\ out1 = out
          /\ LowestStartOffset(matches) = 1 \/ oldest.startOff >= kept
       \/ /\ oldest.startOff = out.start
          /\ IsArea(out, out1, end, RereadData(oldest.filePart, end - out.start))
          /\ CanReread(oldest.filePart, end - out.start) \/ pc' = "done"
  <2>1. CASE ~reread /\ out1 = out
    BY <1>3, <1>5, <2>1 DEF reread
  <2>2. CASE /\ reread /\ oldest.startOff = out.start
             /\ IsArea(out, out1, end, bytes)
    BY <1>8, <2>2 DEF bytes
  <2> QED
    BY <1>7, <2>1, <2>2
<1> QED
  BY <1>4, <1>7, <1>8, <1>9, <1>10, <1>11, <1>12 DEF x, oldest, f, end, kept, out2

\* The end of the scan: out1 after the re-read, which succeeds only if the image
\* is at least as long as the buffer, then a flush of the rest.
LEMMA FinishOutput ==
  ASSUME Inv, Finish
  PROVE  \E out1 \in Output :
           /\ \/ out1 = out /\ (out.start < off => EndReread = {})
              \/ \E y \in Entries(matches), to \in Nat :
                   /\ y.startOff = out.start
                   /\ IsArea(out, out1, to,
                             RereadData(y.filePart, to - out.start))
                   /\ result' = "success" =>
                        /\ to = off - BufferLength
                        /\ CanReread(y.filePart, to - out.start)
           /\ \/ out' = out1 /\ result' = "failure"
              \/ /\ out1.start <= off /\ result' = "success"
                 /\ Flush(out1, off) \in Output /\ Flush(out1, off).start = off
                 /\ out' = [Flush(out1, off) EXCEPT !.desc =
                              Append(@, ImageInfo(off))]
<1> DEFINE reread == out.start < off /\ EndReread # {}
           i      == CHOOSE k \in EndReread : TRUE
           y      == matches[i]
           end    == Minus(off, BufferLength)
           count  == end - y.startOff
           bytes  == RereadData(y.filePart, count)
           out1   == IF reread THEN Area(out, y.startOff, end, bytes) ELSE out
           out2   == Flush(out1, off)
           good   == [out2 EXCEPT !.desc = Append(@, ImageInfo(off))]
<1>1. /\ TypeOK /\ LoopOK /\ Claims /\ Settled(out) /\ image \in Images
      /\ off \in Nat /\ n \in Nat /\ out \in Output /\ out.start \in Nat
      /\ matches \in Seq(Match) /\ off <= Len(image) /\ out.start <= off
      /\ BufferLength \in Nat /\ Word \in Nat \ {0}
  <2>1. TypeOK /\ LoopOK /\ Claims /\ Settled(out) /\ image \in Images
    BY DEF Inv, Finish
  <2>2. /\ off \in Nat /\ n \in Nat /\ out \in Output /\ matches \in Seq(Match)
        /\ off + n <= Len(image) /\ Len(image) \in Nat
    BY <2>1, LenProperties DEF TypeOK
  <2>3. out.start \in Nat /\ out.start <= off
    BY <2>1, <2>2 DEF Output, Claims
  <2> QED
    BY <2>1, <2>2, <2>3, BufferLengthBounds, Constants
<1>3. off < Word
  BY <1>1, LenProperties, ScanAssumption
<1>4. end \in Nat
  BY <1>1 DEF Minus
<1>5. ASSUME reread
      PROVE  /\ y \in Match /\ y.filePart \in Files /\ y.startOff = out.start
             /\ y.startOff < end /\ bytes \in Seq(Byte)
             /\ y \in Entries(matches)
  <2>1. i \in EndReread
    BY <1>5
  <2>2. i \in 1..Len(matches) /\ y.startOff = out.start /\ y.startOff < end
    BY <1>1, <2>1 DEF EndReread
  <2>3. y \in Match /\ y \in Entries(matches)
    BY <1>1, <2>2, ElementOfSeq, EntryAt
  <2> HIDE DEF y, end
  <2>4. y.filePart \in Files /\ count \in Int
    BY <1>1, <1>4, <2>2, <2>3, MatchTypes
  <2> QED
    BY <2>2, <2>3, <2>4, RereadType
<1>6. /\ out1 \in Output /\ Settled(out1) /\ out1.start \in Nat
      /\ \/ ~reread /\ out1 = out
         \/ reread /\ IsArea(out, out1, end, bytes)
  <2>1. CASE ~reread
    BY <1>1, <2>1
  <2>2. CASE reread
    <3>1. out1 = Area(out, out.start, end, bytes)
      BY <1>5, <2>2
    <3>2. out.start <= end /\ bytes \in Seq(Byte)
      BY <1>1, <1>4, <1>5, <2>2
    <3> HIDE DEF end, bytes, out1
    <3>3. out1 \in Output /\ Settled(out1)
      BY <1>1, <1>4, <3>1, <3>2, AreaFacts
    <3> QED
      BY <1>4, <2>2, <3>1, <3>2, <3>3 DEF Output, IsArea
  <2> QED
    BY <2>1, <2>2
<1>7. \/ out' = out1 /\ result' = "failure"
      \/ /\ ~(reread /\ ~CanReread(y.filePart, count)) /\ out' = good
         /\ result' = "success"
  BY DEF Finish, Fail
<1>8. ASSUME reread, CanReread(y.filePart, count)
      PROVE  end = off - BufferLength
  <2>2. Len(bytes) = count
    BY <1>8 DEF CanReread
  <2>3. count <= Len(Content[y.filePart])
    <3> HIDE DEF y, end
    <3>1. count \in Int
      BY <1>1, <1>4, <1>5, <1>8
    <3> QED
      BY <1>5, <1>8, <2>2, <3>1, RereadLen
  <2>4. Len(Content[y.filePart]) + BufferLength <= Word
        /\ Len(Content[y.filePart]) \in Nat
    BY <1>5, <1>8, FileFacts
  <2>5. CASE off >= BufferLength
    BY <1>1, <1>3, <2>5 DEF Minus
  <2>6. CASE off < BufferLength
    <3>1. end = off - BufferLength + Word
      <4>1. \A a \in Int, w \in Nat \ {0} :
              a < 0 /\ a + w >= 0 => a % w = a + w
        OBVIOUS
      <4>2. off - BufferLength \in Int /\ off - BufferLength < 0
            /\ off - BufferLength + Word >= 0
        BY <1>1, <2>4, <2>6
      <4> QED
        BY <1>1, <4>1, <4>2 DEF Minus
    <3>2. y.startOff = out.start /\ out.start < off
      BY <1>5, <1>8
    <3> HIDE DEF y, end
    <3> QED
      BY <1>1, <2>3, <2>4, <3>1, <3>2
  <2> QED
    BY <1>1, <2>5, <2>6
<1> HIDE DEF y, end, bytes, EndReread
<1>9. ASSUME ~(reread /\ ~CanReread(y.filePart, count)) PROVE out1.start <= off
  <2>1. CASE ~reread
    BY <1>1, <1>6, <2>1
  <2>2. CASE reread
    <3>1. out1.start = end /\ end = off - BufferLength
      BY <1>8, <1>9, <2>2 DEF Area
    <3> QED
      BY <1>1, <3>1
  <2> QED
    BY <2>1, <2>2
<1> HIDE DEF out1, reread
<1>10. ASSUME out1.start <= off PROVE out2 \in Output /\ out2.start = off
  <2>1. /\ Flush(out1, off) \in Output
        /\ Flush(out1, off).start = IF out1.start < off THEN off ELSE out1.start
    BY <1>1, <1>6, FlushFacts
  <2> QED
    BY <1>1, <1>6, <1>10, <2>1
<1>11. \/ out1 = out /\ (out.start < off => EndReread = {})
       \/ /\ y \in Entries(matches) /\ end \in Nat
          /\ y.startOff = out.start
          /\ IsArea(out, out1, end, RereadData(y.filePart, end - out.start))
          /\ result' = "success" =>
               /\ end = off - BufferLength
               /\ CanReread(y.filePart, end - out.start)
  <2>1. CASE ~reread /\ out1 = out
    BY <2>1 DEF reread
  <2>2. CASE reread /\ IsArea(out, out1, end, bytes)
    BY <1>4, <1>5, <1>7, <1>8, <2>2 DEF bytes
  <2> QED
    BY <1>6, <2>1, <2>2
<1>12. \/ out' = out1 /\ result' = "failure"
       \/ /\ out1.start <= off /\ result' = "success"
          /\ out2 \in Output /\ out2.start = off /\ out' = good
  BY <1>7, <1>9, <1>10
<1> QED
  BY <1>6, <1>11, <1>12

-----------------------------------------------------------------------------
(* Decisions about an area are final *)

\* A DESC section that has only grown: DecisionsFinal for two sections.
GrowsAt(d, e, i) ==
  \/ e[i] = d[i]
  \/ /\ i = Len(d) /\ d[i].type = "unmatched"
     /\ e[i] = Unmatched(d[i].offset, e[i].size)
     /\ e[i].size >= d[i].size
Grows(d, e) == Len(d) <= Len(e) /\ \A i \in DOMAIN d : GrowsAt(d, e, i)

\* Nothing has changed.
LEMMA GrowsNot ==
  ASSUME NEW d \in Seq(DescEntry)
  PROVE  Grows(d, d)
<1>1. Len(d) \in Nat
  BY LenProperties
<1> QED
  BY <1>1 DEF Grows, GrowsAt

\* Growth after growth.
LEMMA GrowsTwice ==
  ASSUME NEW d \in Seq(DescEntry), NEW e \in Seq(DescEntry),
         NEW g \in Seq(DescEntry), Grows(d, e), Grows(e, g)
  PROVE  Grows(d, g)
<1>1. /\ Len(d) \in Nat /\ Len(e) \in Nat /\ Len(g) \in Nat
      /\ DOMAIN d = 1..Len(d) /\ DOMAIN e = 1..Len(e) /\ DOMAIN g = 1..Len(g)
  BY LenProperties
<1>2. Len(d) <= Len(e) /\ Len(e) <= Len(g)
  BY DEF Grows
<1>3. ASSUME NEW i \in 1..Len(d) PROVE GrowsAt(d, g, i)
  <2>1. i \in 1..Len(e)
    BY <1>1, <1>2
  <2>2. GrowsAt(d, e, i) /\ GrowsAt(e, g, i)
    BY <1>1, <2>1 DEF Grows
  <2>3. g[i] # e[i] => i = Len(d) /\ Len(d) = Len(e)
    <3>1. g[i] # e[i] => i = Len(e)
      BY <2>2 DEF GrowsAt
    <3>2. i \in Nat /\ i <= Len(d) /\ Len(d) \in Nat /\ Len(e) \in Nat
      BY <1>1
    <3> QED
      BY <1>2, <3>1, <3>2
  <2>4. CASE g[i] = e[i]
    BY <2>2, <2>4 DEF GrowsAt
  <2>5. CASE e[i] = d[i] /\ g[i] # e[i]
    BY <2>2, <2>3, <2>5 DEF GrowsAt
  <2>6. CASE e[i] # d[i] /\ g[i] # e[i]
    <3>1. d[i] \in DescEntry /\ e[i] \in DescEntry /\ g[i] \in DescEntry
      <4>1. i \in 1..Len(g)
        BY <1>1, <1>2, <2>1
      <4> QED
        BY <2>1, <4>1, ElementOfSeq
    <3>2. /\ d[i].type = "unmatched" /\ e[i].type = "unmatched"
          /\ g[i].type = "unmatched" /\ e[i].offset = d[i].offset
      BY <2>2, <2>6 DEF Unmatched, GrowsAt
    <3>3. d[i].size \in Nat /\ e[i].size \in Nat /\ g[i].size \in Nat
      BY <3>1, <3>2 DEF DescEntry
    <3>4. /\ i = Len(d) /\ d[i].type = "unmatched" /\ e[i].size >= d[i].size
          /\ g[i].size >= e[i].size /\ g[i] = Unmatched(d[i].offset, g[i].size)
      BY <2>2, <2>3, <2>6, <3>2 DEF GrowsAt
    <3> QED
      BY <3>3, <3>4 DEF GrowsAt
  <2> QED
    BY <2>4, <2>5, <2>6
<1> QED
  BY <1>1, <1>2, <1>3 DEF Grows

\* An entry is added at the end.
LEMMA GrowsByAppend ==
  ASSUME NEW d \in Seq(DescEntry), NEW e \in DescEntry
  PROVE  Grows(d, Append(d, e))
<1>1. /\ Len(d) \in Nat /\ DOMAIN d = 1..Len(d)
      /\ Len(Append(d, e)) = Len(d) + 1
      /\ \A i \in 1..Len(d) : Append(d, e)[i] = d[i]
  BY LenProperties, AppendProperties
<1> HIDE DEF Grows
<1>2. \A i \in DOMAIN d : Append(d, e)[i] = d[i]
  BY <1>1
<1>3. Len(d) <= Len(Append(d, e))
  BY <1>1
<1> QED
  BY <1>2, <1>3 DEF Grows, GrowsAt

\* Unmatched data is added.
LEMMA GrowsByUnmatched ==
  ASSUME NEW d \in Seq(DescEntry), NEW o \in Nat, NEW len \in Nat
  PROVE  Grows(d, AddUnmatched(d, o, len))
<1> DEFINE k == Len(d)
<1>1. /\ k \in Nat /\ DOMAIN d = 1..k
  BY LenProperties
<1>2. CASE d # << >> /\ d[k].type = "unmatched"
  <2>1. k \in 1..k /\ d[k] \in DescEntry
    BY <1>2, EmptySeq, ElementOfSeq
  <2>2. d[k] \in [type : {"unmatched"}, offset : Nat, size : Nat]
    BY <1>2, <2>1 DEF DescEntry
  <2> DEFINE u == [d[k] EXCEPT !.size = @ + len]
             e == [d EXCEPT ![k] = u]
  <2>3. /\ u = Unmatched(d[k].offset, d[k].size + len) /\ u.size = d[k].size + len
        /\ d[k].size \in Nat
    BY <2>2 DEF Unmatched
  <2>4. AddUnmatched(d, o, len) = e
    BY <1>2 DEF AddUnmatched
  <2> HIDE DEF u
  <2>5. /\ e[k] = u /\ \A i \in 1..k : i # k => e[i] = d[i]
    BY <1>1, <2>1
  <2>6. Len(e) = k
    BY <1>1, <2>1
  <2> HIDE DEF e
  <2>7. u.size >= d[k].size
    BY <2>3
  <2>8. e[k] = Unmatched(d[k].offset, e[k].size) /\ e[k].size >= d[k].size
    BY <2>3, <2>5, <2>7
  <2>9. \A i \in DOMAIN d : e[i] = d[i] \/ i = k
    BY <1>1, <2>5
  <2>10. k <= Len(e)
    BY <1>1, <2>6
  <2> QED
    BY <1>2, <2>4, <2>8, <2>9, <2>10 DEF Grows, GrowsAt
<1>3. CASE ~(d # << >> /\ d[k].type = "unmatched")
  <2>1. AddUnmatched(d, o, len) = Append(d, Unmatched(o, len))
    BY <1>3 DEF AddUnmatched
  <2>2. Unmatched(o, len) \in DescEntry
    BY DEF Unmatched, DescEntry
  <2> QED
    BY <2>1, <2>2, GrowsByAppend
<1> QED
  BY <1>2, <1>3

\* So do the areas of the output.
LEMMA GrowsByArea ==
  ASSUME NEW o \in Output, NEW o2, NEW to, NEW bytes, IsArea(o, o2, to, bytes)
  PROVE  Grows(o.desc, o2.desc) /\ o2.desc \in Seq(DescEntry)
<1>1. /\ o.desc \in Seq(DescEntry) /\ o.descOff \in Nat /\ o.start \in Nat
      /\ to \in Nat /\ to - o.start \in Nat
  BY DEF Output, IsArea
<1>2. o2.desc = AddUnmatched(o.desc, o.descOff, to - o.start)
  BY DEF IsArea, Area
<1> QED
  BY <1>1, <1>2, GrowsByUnmatched, AddUnmatchedType

\* And a flush.
LEMMA GrowsByFlush ==
  ASSUME TypeOK, NEW o \in Output, NEW to \in Nat
  PROVE  Grows(o.desc, Flush(o, to).desc) /\ Flush(o, to).desc \in Seq(DescEntry)
<1>1. o.desc \in Seq(DescEntry)
  BY DEF Output
<1>2. CASE Flush(o, to) = o
  BY <1>1, <1>2, GrowsNot
<1>3. CASE IsArea(o, Flush(o, to), to, Buffered(o.start, to - o.start))
  BY <1>3, GrowsByArea
<1> QED
  BY <1>2, <1>3, FlushIsArea

\* No action takes back what has been decided.
LEMMA NextGrows ==
  ASSUME Inv, [Next]_vars
  PROVE  Grows(out.desc, out'.desc)
<1>1. TypeOK /\ out \in Output /\ out.desc \in Seq(DescEntry) /\ off \in Nat
  BY DEF Inv, TypeOK, Output
<1>2. CASE out' = out
  BY <1>1, <1>2, GrowsNot
<1>3. CASE ReadChunk
  BY <1>1, <1>3, FlushLimit, GrowsByFlush DEF ReadChunk
<1>4. CASE Mismatch
  BY <1>1, <1>2, <1>4, MismatchOutput, GrowsByArea
<1>5. CASE FileMatch
  <2> DEFINE x == matches[1]
             f == x.filePart
  <2>1. PICK out1 \in Output :
          /\ \/ out1 = out
             \/ \E to, bytes : IsArea(out, out1, to, bytes)
          /\ Flush(out1, x.startOff) \in Output
          /\ Flush(out1, x.startOff).descOff = x.startOff
          /\ \/ out' = out1
             \/ out' = Flush(out1, x.startOff)
             \/ out' = MatchArea(Flush(out1, x.startOff), x.startOff, f)
    BY <1>5, FileMatchOutput
  <2>2. x.startOff \in Nat /\ f \in Files
    BY <1>5, EventFacts DEF FileMatch
  <2> HIDE DEF x, f
  <2> DEFINE out2 == Flush(out1, x.startOff)
  <2>3. Grows(out.desc, out1.desc) /\ out1.desc \in Seq(DescEntry)
    BY <1>1, <2>1, GrowsNot, GrowsByArea
  <2>4. Grows(out1.desc, out2.desc) /\ out2.desc \in Seq(DescEntry)
    BY <1>1, <2>1, <2>2, GrowsByFlush
  <2>5. Grows(out.desc, out2.desc)
    BY <1>1, <2>3, <2>4, GrowsTwice
  <2> DEFINE e == Append(out2.desc, Matched(x.startOff, f))
  <2>6. Matched(x.startOff, f) \in DescEntry
    BY <2>2, FileFacts DEF Matched, DescEntry
  <2>7. Grows(out2.desc, e) /\ e \in Seq(DescEntry)
    BY <2>4, <2>6, GrowsByAppend
  <2>8. MatchArea(out2, x.startOff, f).desc = e
    BY <2>1 DEF MatchArea, Output
  <2> HIDE DEF out2, e
  <2>9. Grows(out.desc, e)
    BY <1>1, <2>4, <2>5, <2>7, GrowsTwice
  <2> QED
    BY <2>1, <2>3, <2>5, <2>8, <2>9 DEF out2
<1>6. CASE Finish
  <2>1. PICK out1 \in Output :
          /\ \/ out1 = out
             \/ \E to, bytes : IsArea(out, out1, to, bytes)
          /\ \/ out' = out1
             \/ /\ Flush(out1, off) \in Output
                /\ out' = [Flush(out1, off) EXCEPT !.desc = Append(@, ImageInfo(off))]
    BY <1>6, FinishOutput
  <2> DEFINE out2 == Flush(out1, off)
             e == Append(out2.desc, ImageInfo(off))
  <2>2. Grows(out.desc, out1.desc) /\ out1.desc \in Seq(DescEntry)
    BY <1>1, <2>1, GrowsNot, GrowsByArea
  <2>3. Grows(out1.desc, out2.desc) /\ out2.desc \in Seq(DescEntry)
    BY <1>1, <2>1, GrowsByFlush
  <2>4. Grows(out.desc, out2.desc)
    BY <1>1, <2>2, <2>3, GrowsTwice
  <2>5. ImageInfo(off) \in DescEntry
    BY <1>1 DEF ImageInfo, DescEntry
  <2>6. Grows(out2.desc, e) /\ e \in Seq(DescEntry)
    BY <2>3, <2>5, GrowsByAppend
  <2>7. Grows(out.desc, e)
    BY <1>1, <2>3, <2>4, <2>6, GrowsTwice
  <2>8. out2 \in Output => [out2 EXCEPT !.desc = Append(@, ImageInfo(off))].desc = e
    BY DEF Output
  <2> HIDE DEF out2, e
  <2> QED
    BY <2>1, <2>2, <2>7, <2>8 DEF out2
<1> QED
  BY <1>2, <1>3, <1>4, <1>5, <1>6
  DEF Next, ScanStep, Done, vars, Schedule, RollByte, FastForward, CheckFile,
      ReachEvent, NextBlock, IgnoreMatch, EventsDone, TemplateError, LoseFile

\* A DESC entry is never taken back: only the last one, if it stands for
\* unmatched data, can still grow.
THEOREM DecisionsAreFinal == Spec => DecisionsFinal
<1> DEFINE Final ==
      LET d == out.desc
          e == out'.desc
      IN /\ Len(d) <= Len(e)
         /\ \A i \in DOMAIN d :
              \/ e[i] = d[i]
              \/ /\ i = Len(d) /\ d[i].type = "unmatched"
                 /\ e[i] = Unmatched(d[i].offset, e[i].size)
                 /\ e[i].size >= d[i].size
<1>1. Inv /\ [Next]_vars => [Final]_vars
  BY NextGrows DEF Grows, GrowsAt
<1>2. Spec => [][Final]_vars
  <2> HIDE DEF Final
  <2> QED
    BY <1>1, Invariance, PTL DEF Spec
<1> QED
  BY <1>2 DEF DecisionsFinal

\* The step property AlignedWindowsSeen: between two multiples of the sector
\* length there is none.
LEMMA NextAligned ==
  ASSUME Inv, [Next]_vars
  PROVE  AlignedStep
<1>1. /\ TypeOK /\ off \in Nat /\ BlockLength \in Nat /\ sectorLength \in Nat \ {0}
  BY Constants, QueueAssumption DEF Inv, TypeOK, SectorLengths
<1>2. CASE off' = off \/ off' = off + 1
  BY <1>1, <1>2 DEF AlignedStep
<1>3. CASE FastForward
  <2>1. nextEvent \in Nat /\ NextAlignedOff \in Int
    BY <1>1, JumpFacts DEF TypeOK
  <2>2. off' <= NextAlignedOff /\ off' \in Int
    BY <1>1, <1>3, <2>1 DEF FastForward, Advance, Min2
  <2>3. ASSUME NEW o \in (off + 1)..off', (o - BlockLength) % sectorLength = 0
        PROVE  o = off'
    <3> DEFINE a == off - BlockLength
               b == o - BlockLength
               s == sectorLength
               j == ((a + s) \div s) * s
    <3>1. a \in Int /\ b \in Int /\ a < b /\ b % s = 0 /\ s \in Nat \ {0}
      BY <1>1, <2>2, <2>3
    <3>2. NextAlignedOff = j + BlockLength
      BY DEF NextAlignedOff
    <3> HIDE DEF a, b, s
    <3>3. j <= b
      <4>1. b = s * (b \div s) /\ b \div s \in Int
        BY <3>1
      <4>2. a + s = s * ((a + s) \div s) + ((a + s) % s) /\ (a + s) \div s \in Int
            /\ (a + s) % s \in 0..(s - 1)
        BY <3>1
      <4> DEFINE p == b \div s
                 q == (a + s) \div s
      <4>3. p \in Int /\ q \in Int /\ s * q <= a + s /\ b = s * p
        BY <3>1, <4>1, <4>2
      <4> HIDE DEF p, q
      <4>4. s * q < s * p + s
        BY <3>1, <4>3
      <4>5. s * (q - p) < s
        BY <3>1, <4>3, <4>4
      <4>6. q - p <= 0
        BY <3>1, <4>3, <4>5
      <4>7. s * q <= s * p
        BY <3>1, <4>3, <4>6
      <4> QED
        BY <3>1, <4>3, <4>7 DEF q
    <3>4. o >= NextAlignedOff
      <4>1. j \in Int
        BY <3>1
      <4> HIDE DEF j
      <4> QED
        BY <1>1, <2>2, <3>1, <3>2, <3>3, <4>1 DEF b
    <3> QED
      BY <1>1, <2>1, <2>2, <3>4
  <2> QED
    BY <2>3 DEF AlignedStep
<1> QED
  BY <1>1, <1>2, <1>3
  DEF Next, ScanStep, Done, vars, bufVars, Schedule, RollByte, Advance, CheckFile,
      ReachEvent, NextBlock, IgnoreMatch, EventsDone, TemplateError, LoseFile,
      ReadChunk, Mismatch, FileMatch, Finish

\* fastForward never passes over a window that starts at a multiple of the
\* sector length: if one is reached, the jump ends there.
THEOREM AlignedWindows == Spec => AlignedWindowsSeen
<1>1. Inv /\ [Next]_vars => [AlignedStep]_vars
  BY NextAligned
<1> QED
  BY <1>1, Invariance, PTL DEF Spec, AlignedWindowsSeen

-----------------------------------------------------------------------------
(* Remainders, for the places of image data in the circular buffer *)

\* Division with remainder.
LEMMA DivMod ==
  ASSUME NEW a \in Int, NEW w \in Nat \ {0}
  PROVE  /\ a \div w \in Int /\ a % w \in 0..(w - 1)
         /\ a = w * (a \div w) + (a % w)
  OBVIOUS

\* A multiple of w between -w and w is zero.
LEMMA SmallMultiple ==
  ASSUME NEW k \in Int, NEW w \in Nat \ {0}, -w < w * k, w * k < w
  PROVE  k = 0
<1>1. CASE k >= 1
  <2>1. w * k >= w
    BY <1>1
  <2> QED
    BY <2>1
<1>2. CASE k <= -1
  <2>1. w * k <= -w
    BY <1>2
  <2> QED
    BY <2>1
<1> QED
  BY <1>1, <1>2

\* The remainder is unique.
LEMMA ModUnique ==
  ASSUME NEW w \in Nat \ {0}, NEW q \in Int, NEW r \in 0..(w - 1)
  PROVE  (w * q + r) % w = r
<1> DEFINE a == w * q + r
           p == a \div w
           s == a % w
<1>1. a \in Int
  OBVIOUS
<1>2. p \in Int /\ s \in 0..(w - 1) /\ a = w * p + s
  BY <1>1, DivMod
<1>3. w * q + r = w * p + s
  BY <1>2
<1> HIDE DEF p, s
<1>4. w * (p - q) = r - s
  BY <1>2, <1>3
<1>5. p - q = 0
  BY <1>2, <1>4, SmallMultiple
<1>6. r = s
  BY <1>2, <1>4, <1>5
<1> QED
  BY <1>6 DEF s

\* Equal remainders mean a multiple of w in between.
LEMMA SameMod ==
  ASSUME NEW a \in Int, NEW b \in Int, NEW w \in Nat \ {0}
  PROVE  a % w = b % w <=> \E k \in Int : a = b + w * k
<1>1. ASSUME a % w = b % w PROVE \E k \in Int : a = b + w * k
  <2> DEFINE p == a \div w
             q == b \div w
             r == b % w
  <2>1. p \in Int /\ q \in Int /\ r \in Int /\ a = w * p + r /\ b = w * q + r
    BY <1>1, DivMod
  <2> HIDE DEF p, q, r
  <2>2. p - q \in Int /\ a = b + w * (p - q)
    BY <2>1
  <2> QED
    BY <2>2
<1>2. ASSUME NEW k \in Int, a = b + w * k PROVE a % w = b % w
  <2> DEFINE q == b \div w
             r == b % w
  <2>1. q \in Int /\ r \in 0..(w - 1) /\ b = w * q + r
    BY DivMod
  <2> HIDE DEF q, r
  <2>2. q + k \in Int /\ a = w * (q + k) + r
    BY <1>2, <2>1
  <2>3. a % w = r
    BY <2>1, <2>2, ModUnique
  <2>4. b % w = r
    BY <2>1, ModUnique
  <2> QED
    BY <2>3, <2>4
<1> QED
  BY <1>1, <1>2

\* Equal remainders stay equal.
LEMMA ModShift ==
  ASSUME NEW a \in Int, NEW b \in Int, NEW c \in Int, NEW w \in Nat \ {0},
         a % w = b % w
  PROVE  (a + c) % w = (b + c) % w
<1>1. PICK k \in Int : a = b + w * k
  BY SameMod
<1> DEFINE x == a + c
           y == b + c
<1>2. x \in Int /\ y \in Int /\ x = y + w * k
  BY <1>1
<1> HIDE DEF x, y
<1>3. x % w = y % w
  BY <1>2, SameMod
<1> QED
  BY <1>3 DEF x, y

\* Numbers less than w apart are equal if their remainders are.
LEMMA ModNear ==
  ASSUME NEW a \in Int, NEW b \in Int, NEW w \in Nat \ {0},
         a % w = b % w, a - b < w, b - a < w
  PROVE  a = b
<1>1. PICK k \in Int : a = b + w * k
  BY SameMod
<1>2. -w < w * k /\ w * k < w
  BY <1>1
<1>3. k = 0
  BY <1>2, SmallMultiple
<1> QED
  BY <1>1, <1>3

\* Whole turns do not matter.
LEMMA ModTurn ==
  ASSUME NEW a \in Int, NEW w \in Nat \ {0}
  PROVE  (a + w) % w = a % w /\ (a - w) % w = a % w
<1> DEFINE x == a + w
           y == a - w
           minus == -1
<1>1. /\ x = a + w * 1 /\ y = a + w * minus /\ minus \in Int
      /\ x \in Int /\ y \in Int
  OBVIOUS
<1> HIDE DEF x, y, minus
<1>2. x % w = a % w
  <2>1. \E k \in Int : x = a + w * k
    BY <1>1
  <2> QED
    BY <1>1, <2>1, SameMod
<1>3. y % w = a % w
  <2>1. \E k \in Int : y = a + w * k
    BY <1>1
  <2> QED
    BY <1>1, <2>1, SameMod
<1> QED
  BY <1>2, <1>3 DEF x, y

\* Small numbers are their own remainder; remainders are small.
LEMMA ModSmall ==
  ASSUME NEW a \in Int, NEW w \in Nat \ {0}
  PROVE  /\ a % w \in 0..(w - 1) /\ (a % w) % w = a % w
         /\ a \in 0..(w - 1) => a % w = a
<1>1. a % w \in 0..(w - 1)
  BY DivMod
<1>2. \A r \in 0..(w - 1) : r % w = r
  <2> TAKE r \in 0..(w - 1)
  <2>1. (w * 0 + r) % w = r
    BY ModUnique
  <2> QED
    BY <2>1
<1> QED
  BY <1>1, <1>2

-----------------------------------------------------------------------------
(* What the buffer holds *)

\* The place in the buffer of the byte at image offset o.
Slot(o) == o % BufferLength

\* Offset of the first byte of the block that is compared next.
BlockStart(m) == m.startOff + m.blockNr * CsumBlockLength

\* The offsets in the buffer are those of the current byte and of the window.
Placed == Slot(data) = Slot(off) /\ rsumBack = Slot(off - BlockLength)

\* The buffer holds the last BufferLength bytes of what has been read.
Held ==
  \A o \in Nat : off + n - BufferLength <= o /\ o < off + n =>
                   buf[Slot(o)] = image[o + 1]

\* Where the block of an entry is, and when it ends.
BlockOK(m) ==
  /\ Slot(m.blockOff) = Slot(BlockStart(m)) /\ m.blockOff <= BufferLength
  /\ m.nextEv = Min2(BlockStart(m) + CsumBlockLength,
                     m.startOff + Len(Content[m.filePart]))
  /\ BlockStart(m) < m.nextEv /\ BlockStart(m) <= off

\* What is not dealt with yet is buffered, unless a file can provide it.
FlushOK ==
  \/ \E m \in Entries(matches) : m.startOff = out.start
  \/ out.start >= off + n - BufferLength

BufferInv ==
  /\ Placed /\ Held
  /\ pc = "read" => data < BufferLength
  /\ \A m \in Entries(matches) : BlockOK(m)
  /\ pc # "done" => FlushOK

\* Types that the following proofs need.
LEMMA BufferTypes ==
  ASSUME TypeOK
  PROVE  /\ off \in Nat /\ n \in Nat /\ data \in Nat /\ data <= BufferLength
         /\ data + n <= BufferLength /\ rsumBack \in 0..(BufferLength - 1)
         /\ image \in Seq(Byte) /\ Len(image) \in Nat /\ off + n <= Len(image)
         /\ matches \in Seq(Match) /\ out \in Output /\ out.start \in Nat
         /\ BufferLength \in Nat \ {0} /\ BufferLength > BlockLength
         /\ BlockLength \in Nat \ {0} /\ CsumBlockLength \in Nat \ {0}
         /\ ReadAmount \in Nat \ {0}
<1>1. /\ CsumBlockLength \in Nat \ {0} /\ ReadAmount \in Nat \ {0}
      /\ BlockLength \in Nat \ {0}
  BY ScanAssumption
<1>2. BufferLength \in Nat \ {0} /\ BufferLength > BlockLength
  BY <1>1, BufferLengthBounds
<1> QED
  BY <1>1, <1>2, BufferLengthBounds, LenProperties DEF TypeOK, Output

\* Types of what BlockOK is about.
LEMMA BlockTypes ==
  ASSUME NEW m \in Match
  PROVE  /\ BlockStart(m) \in Nat /\ m.startOff <= BlockStart(m)
         /\ Len(Content[m.filePart]) \in Nat /\ Content[m.filePart] \in Seq(Byte)
<1>1. /\ m.startOff \in Nat /\ m.blockNr \in Nat /\ CsumBlockLength \in Nat
      /\ m.filePart \in Files
  BY MatchTypes, ScanAssumption
<1>2. m.blockNr * CsumBlockLength \in Nat
  BY <1>1
<1> QED
  BY <1>1, <1>2, FileFacts DEF BlockStart

\* An image offset is at one place of the buffer.
LEMMA SlotType ==
  ASSUME NEW o \in Int
  PROVE  Slot(o) \in 0..(BufferLength - 1)
<1>1. BufferLength \in Nat \ {0}
  BY BufferLengthBounds
<1>2. o % BufferLength \in 0..(BufferLength - 1)
  BY <1>1, DivMod
<1> QED
  BY <1>2 DEF Slot

\* A place of the buffer is at itself.
LEMMA SlotSmall ==
  ASSUME NEW i \in 0..(BufferLength - 1)
  PROVE  Slot(i) = i
<1>1. BufferLength \in Nat \ {0} /\ i \in Int
  BY BufferLengthBounds
<1>2. i % BufferLength = i
  BY <1>1, ModSmall
<1> QED
  BY <1>2 DEF Slot

\* Offsets at the same place stay so when they advance together.
LEMMA SlotShift ==
  ASSUME NEW a \in Int, NEW b \in Int, NEW c \in Int, Slot(a) = Slot(b)
  PROVE  Slot(a + c) = Slot(b + c)
<1>1. BufferLength \in Nat \ {0} /\ a % BufferLength = b % BufferLength
  BY BufferLengthBounds DEF Slot
<1>2. (a + c) % BufferLength = (b + c) % BufferLength
  BY <1>1, ModShift, Zenon
<1> QED
  BY <1>2 DEF Slot

\* Offsets at the same place that are less than a buffer apart are equal.
LEMMA SlotNear ==
  ASSUME NEW a \in Int, NEW b \in Int, Slot(a) = Slot(b),
         a - b < BufferLength, b - a < BufferLength
  PROVE  a = b
<1>1. BufferLength \in Nat \ {0} /\ a % BufferLength = b % BufferLength
  BY BufferLengthBounds DEF Slot
<1> QED
  BY <1>1, ModNear, Zenon

\* One turn of the buffer.
LEMMA SlotTurn ==
  ASSUME NEW a \in Int
  PROVE  Slot(a + BufferLength) = Slot(a) /\ Slot(a - BufferLength) = Slot(a)
<1>1. BufferLength \in Nat \ {0}
  BY BufferLengthBounds
<1>2. /\ (a + BufferLength) % BufferLength = a % BufferLength
      /\ (a - BufferLength) % BufferLength = a % BufferLength
  BY <1>1, ModTurn, Zenon
<1> QED
  BY <1>2 DEF Slot

\* Which place an offset is at, when that of another one is known.
LEMMA SlotFrom ==
  ASSUME NEW i \in Int, NEW a \in Int, NEW b \in Int, Slot(i) = Slot(a),
         i + (b - a) \in 0..(BufferLength - 1)
  PROVE  Slot(b) = i + (b - a)
<1> DEFINE c == b - a
           t == i + c
           u == a + c
<1>1. c \in Int /\ u = b /\ t \in 0..(BufferLength - 1)
  OBVIOUS
<1>2. Slot(t) = Slot(u)
  BY <1>1, SlotShift
<1>3. Slot(t) = t
  BY <1>1, SlotSmall
<1> HIDE DEF t, u
<1>4. Slot(b) = t
  BY <1>1, <1>2, <1>3
<1> QED
  BY <1>4 DEF t

\* The invariant depends on these variables only.
LEMMA SameBuffer ==
  ASSUME TypeOK, BufferInv, image' = image, buf' = buf, data' = data, off' = off,
         n' = n, rsumBack' = rsumBack, matches' = matches, out' = out,
         pc # "done", pc' # "read" \/ pc = "read"
  PROVE  BufferInv'
<1>1. Placed' /\ Held'
  BY DEF BufferInv, Placed, Held, Slot
<1>2. \A m \in Entries(matches) : BlockOK(m)'
  BY DEF BufferInv, BlockOK, BlockStart, Slot
<1>3. FlushOK'
  BY DEF BufferInv, FlushOK
<1> QED
  BY <1>1, <1>2, <1>3 DEF BufferInv

\* Nothing has been read.
LEMMA InitBuffer == Init => BufferInv
<1> SUFFICES ASSUME Init PROVE BufferInv
  OBVIOUS
<1>1. /\ off = 0 /\ n = 0 /\ data = 0 /\ matches = << >> /\ pc = "read"
      /\ rsumBack = BufferLength - BlockLength /\ out.start = 0
  BY DEF Init
<1>2. /\ BufferLength \in Nat \ {0} /\ BlockLength \in Nat \ {0}
      /\ BufferLength > BlockLength
  BY BufferLengthBounds, ScanAssumption
<1>3. rsumBack = Slot(off - BlockLength)
  <2> DEFINE a == 0 - BlockLength
             t == a + BufferLength
  <2>1. /\ a \in Int /\ t \in 0..(BufferLength - 1)
        /\ rsumBack = t /\ off - BlockLength = a
    BY <1>1, <1>2
  <2>2. Slot(t) = Slot(a)
    BY <2>1, SlotTurn
  <2>3. Slot(t) = t
    BY <2>1, SlotSmall
  <2> HIDE DEF a, t
  <2> QED
    BY <2>1, <2>2, <2>3
<1>4. Held
  BY <1>1 DEF Held
<1>5. \A m \in Entries(matches) : BlockOK(m)
  BY <1>1, NoEntries
<1> QED
  BY <1>1, <1>2, <1>3, <1>4, <1>5 DEF BufferInv, Placed, FlushOK, Slot

\* A read replaces the oldest bytes, and nothing else.
LEMMA ReadChunkHeld ==
  ASSUME Inv, BufferInv, ReadChunk
  PROVE  Held'
<1> DEFINE got == n'
<1>1. /\ TypeOK /\ n = 0 /\ data < BufferLength /\ off' = off /\ image' = image
      /\ got \in Nat /\ data + got <= BufferLength /\ off + got <= Len(image)
      /\ buf' = [i \in DOMAIN buf |-> IF data <= i /\ i < data + got
                                     THEN image[off + (i - data) + 1] ELSE buf[i]]
  <2>1. TypeOK /\ n = 0 /\ data < BufferLength /\ off' = off /\ image' = image
    BY DEF Inv, LoopOK, BufferInv, ReadChunk
  <2>2. TypeOK'
    BY ReadChunkInv DEF Inv
  <2>3. data' = data
    BY DEF ReadChunk
  <2> QED
    BY <2>1, <2>2, <2>3 DEF TypeOK, ReadChunk
<1>2. /\ off \in Nat /\ data \in Nat /\ BufferLength \in Nat \ {0}
      /\ DOMAIN buf = 0..(BufferLength - 1)
  BY <1>1, BufferTypes DEF TypeOK
<1> HIDE DEF got
<1> SUFFICES ASSUME NEW o \in Nat, off + got - BufferLength <= o, o < off + got
             PROVE  buf'[Slot(o)] = image[o + 1]
  BY <1>1 DEF Held, Slot, got
<1> DEFINE s == Slot(o)
<1>3. s \in 0..(BufferLength - 1) /\ Slot(s) = Slot(o)
  <2>1. o \in Int
    OBVIOUS
  <2>2. s \in 0..(BufferLength - 1)
    BY <2>1, SlotType
  <2> HIDE DEF s
  <2>3. Slot(s) = s
    BY <2>2, SlotSmall
  <2> QED
    BY <2>2, <2>3 DEF s
<1>4. Slot(data) = Slot(off)
  BY DEF BufferInv, Placed
<1> HIDE DEF s
<1>5. CASE o >= off
  <2>1. data + (o - off) \in 0..(BufferLength - 1)
    BY <1>1, <1>2, <1>5
  <2>2. s = data + (o - off)
    <3>1. data \in Int /\ off \in Int /\ o \in Int
      BY <1>2
    <3>2. Slot(o) = data + (o - off)
      BY <3>1, <2>1, <1>4, SlotFrom, Zenon
    <3> QED
      BY <3>2 DEF s
  <2>6. off + (s - data) + 1 = o + 1
    BY <1>2, <2>2
  <2>7. data <= s /\ s < data + got /\ s \in DOMAIN buf
    BY <1>1, <1>2, <1>3, <1>5, <2>2
  <2>8. buf'[s] = image[off + (s - data) + 1]
    BY <1>1, <2>7
  <2> QED
    BY <2>6, <2>8 DEF s
<1>6. CASE o < off
  <2>1. ~(data <= s /\ s < data + got)
    <3> SUFFICES ASSUME data <= s, s < data + got PROVE FALSE
      OBVIOUS
    <3> DEFINE j == s - data
               t == off + j
               u == data + j
    <3>1. j \in Int /\ 0 <= j /\ j < got /\ u = s /\ t \in Int
      BY <1>1, <1>2, <1>3
    <3>2. data \in Int /\ off \in Int
      BY <1>2
    <3>3. Slot(u) = Slot(t)
      BY <1>4, <3>1, <3>2, SlotShift
    <3>4. t - o < BufferLength /\ o - t < BufferLength /\ t > o
      BY <1>1, <1>2, <1>6, <3>1
    <3> HIDE DEF u, t
    <3>5. Slot(t) = Slot(o)
      BY <1>3, <3>1, <3>3
    <3>6. t = o
      BY <3>1, <3>4, <3>5, SlotNear
    <3> QED
      BY <3>4, <3>6
  <2>2. buf'[s] = buf[s]
    BY <1>1, <1>2, <1>3, <2>1
  <2>3. buf[s] = image[o + 1]
    <3>1. off + n - BufferLength <= o /\ o < off + n
      BY <1>1, <1>2, <1>6
    <3> QED
      BY <3>1 DEF BufferInv, Held, s
  <2> QED
    BY <2>2, <2>3 DEF s
<1> QED
  BY <1>2, <1>5, <1>6

\* A read does not touch what may still be needed.
LEMMA ReadChunkBuffer ==
  ASSUME Inv, BufferInv, ReadChunk
  PROVE  BufferInv'
<1>1. /\ Inv' /\ TypeOK /\ n = 0 /\ off' = off /\ image' = image /\ data' = data
      /\ rsumBack' = rsumBack /\ matches' = matches /\ pc = "read"
      /\ pc' \in {"end", "scan"} /\ out' = Flush(out, NewUnmatchedStart)
      /\ Settled(out) /\ Claims
  BY ReadChunkInv DEF Inv, LoopOK, ReadChunk, queueVars
<1>2. n' \in Nat /\ n' <= ReadAmount
  BY <1>1 DEF Inv, TypeOK, LoopOK
<1>3. /\ off \in Nat /\ out \in Output /\ out.start \in Nat
      /\ BlockLength \in Nat \ {0} /\ ReadAmount \in Nat
  BY <1>1, BufferTypes
<1>4. /\ NewUnmatchedStart \in Nat
      /\ \A m \in Entries(matches) : NewUnmatchedStart <= m.startOff
      /\ \/ NewUnmatchedStart = Max2(off - BlockLength, 0)
         \/ \E m \in Entries(matches) : m.startOff = NewUnmatchedStart
  BY <1>1, FlushLimit
<1>5. out'.start = IF out.start < NewUnmatchedStart THEN NewUnmatchedStart
                   ELSE out.start
  BY <1>1, <1>3, <1>4, FlushFacts
<1>6. FlushOK'
  <2>1. CASE NewUnmatchedStart = Max2(off - BlockLength, 0)
    <3>1. out'.start >= off - BlockLength
      BY <1>3, <1>4, <1>5, <2>1 DEF Max2
    <3>2. out'.start >= off' + n' - BufferLength
      <4>1. out'.start \in Nat
        BY <1>3, <1>4, <1>5
      <4> QED
        BY <1>1, <1>2, <1>3, <3>1, <4>1, BufferLengthBounds
    <3> QED
      BY <3>2 DEF FlushOK
  <2>2. CASE \E m \in Entries(matches) : m.startOff = NewUnmatchedStart
    <3>1. PICK m \in Entries(matches) : m.startOff = NewUnmatchedStart
      BY <2>2
    <3>2. out.start <= m.startOff
      BY <1>1 DEF Claims
    <3>3. m.startOff = out'.start
      BY <1>3, <1>4, <1>5, <3>1, <3>2
    <3> QED
      BY <1>1, <3>3 DEF FlushOK
  <2> QED
    BY <1>4, <2>1, <2>2
<1>7. Placed'
  BY <1>1 DEF BufferInv, Placed, Slot
<1>8. \A m \in Entries(matches) : BlockOK(m)'
  BY <1>1 DEF BufferInv, BlockOK, BlockStart, Slot
<1> QED
  BY <1>1, <1>6, <1>7, <1>8, ReadChunkHeld DEF BufferInv

\* Both innermost loops advance the current byte and the window alike.
LEMMA AdvanceBuffer ==
  ASSUME Inv, BufferInv, pc = "roll", pc' = "roll", NEW len \in Nat,
         len <= nextEvent - off, Advance(len), image' = image, buf' = buf,
         matches' = matches, out' = out
  PROVE  BufferInv'
<1>1. /\ TypeOK /\ off' = off + len /\ n' = n - len /\ data' = data + len
      /\ rsumBack' = ModAdd(rsumBack, len) /\ nextEvent <= off + n
      /\ nextEvent \in Nat
  BY DEF Inv, LoopOK, Advance, TypeOK
<1>2. /\ off \in Nat /\ n \in Nat /\ data \in Nat /\ data + n <= BufferLength
      /\ rsumBack \in 0..(BufferLength - 1) /\ BufferLength \in Nat \ {0}
      /\ matches \in Seq(Match) /\ BlockLength \in Nat
  BY <1>1, BufferTypes
<1>3. len <= n /\ off' + n' = off + n /\ len \in 0..BufferLength
  BY <1>1, <1>2
<1>4. Slot(data') = Slot(off')
  <2>1. data \in Int /\ off \in Int /\ len \in Int
    BY <1>2
  <2>2. Slot(data + len) = Slot(off + len)
    BY <2>1, SlotShift, Zenon DEF BufferInv, Placed
  <2> QED
    BY <1>1, <2>2
<1>5. rsumBack' = Slot(off' - BlockLength)
  <2> DEFINE a == off - BlockLength
             t == rsumBack + len
             u == a + len
  <2>1. a \in Int /\ rsumBack \in Int /\ len \in Int /\ t \in Int /\ u \in Int
        /\ u = off' - BlockLength
    BY <1>1, <1>2
  <2>2. Slot(rsumBack) = Slot(a)
    <3>1. rsumBack = Slot(a)
      BY DEF BufferInv, Placed
    <3>2. Slot(rsumBack) = rsumBack
      BY <1>2, SlotSmall
    <3> QED
      BY <3>1, <3>2
  <2>3. Slot(t) = Slot(u)
    <3> HIDE DEF a
    <3> QED
      BY <2>1, <2>2, SlotShift, Zenon
  <2>4. Slot(ModAdd(rsumBack, len)) = Slot(t)
    <3>1. ModAdd(rsumBack, len) \in {t, t - BufferLength}
      BY <1>2, <2>1 DEF ModAdd
    <3> HIDE DEF t
    <3>2. Slot(t - BufferLength) = Slot(t)
      BY <2>1, SlotTurn
    <3> QED
      BY <3>1, <3>2
  <2>5. ModAdd(rsumBack, len) \in 0..(BufferLength - 1)
    BY <1>2, <1>3, ModAddFacts
  <2>6. Slot(ModAdd(rsumBack, len)) = ModAdd(rsumBack, len)
    BY <2>5, SlotSmall
  <2> HIDE DEF a, t, u
  <2> QED
    BY <1>1, <2>1, <2>3, <2>4, <2>6
<1>6. Held'
  <2>1. /\ off' \in Int /\ n' \in Int /\ off' + n' - BufferLength = off + n - BufferLength
    BY <1>1, <1>2, <1>3
  <2> QED
    BY <1>3, <2>1 DEF BufferInv, Held, Slot
<1>7. \A m \in Entries(matches) : BlockOK(m)'
  <2> SUFFICES ASSUME NEW m \in Entries(matches) PROVE BlockOK(m)'
    OBVIOUS
  <2>1. BlockStart(m) \in Nat
    BY <1>2, EntryTypes, BlockTypes
  <2> QED
    BY <1>1, <1>2, <2>1 DEF BufferInv, BlockOK, BlockStart, Slot
<1>8. FlushOK'
  <2>1. off' + n' - BufferLength = off + n - BufferLength
    BY <1>1, <1>2, <1>3
  <2> QED
    BY <2>1 DEF BufferInv, FlushOK
<1> QED
  BY <1>4, <1>5, <1>6, <1>7, <1>8 DEF BufferInv, Placed

\* The two variants of the innermost loop.
LEMMA RollBuffer ==
  ASSUME Inv, BufferInv, RollByte \/ FastForward
  PROVE  BufferInv'
<1>1. off \in Nat /\ nextEvent \in Nat /\ off < nextEvent /\ TypeOK
  BY DEF Inv, TypeOK, RollByte, FastForward
<1>2. CASE RollByte
  <2>1. 1 <= nextEvent - off
    BY <1>1
  <2> QED
    BY <1>2, <2>1, AdvanceBuffer DEF RollByte, queueVars, imageVars
<1>3. CASE FastForward
  <2> DEFINE len == Min2(NextAlignedOff - off, nextEvent - off)
  <2>1. len \in Nat /\ len <= nextEvent - off
    BY <1>1, JumpFacts DEF Min2
  <2>2. Advance(len)
    BY <1>3 DEF FastForward
  <2> HIDE DEF len
  <2> QED
    BY <1>3, <2>1, <2>2, AdvanceBuffer DEF FastForward, imageVars
<1> QED
  BY <1>2, <1>3

\* What checkRsyncSumMatch2 does to the queue, for one file.
LEMMA CheckFileFacts ==
  ASSUME Inv, CheckFile
  PROVE  \E i \in todo :
           /\ i \in Hashed /\ FileSeq[i] \in Files /\ Enqueue(FileSeq[i])
           /\ todo' = todo \ {i}
           /\ Entries(matches') \subseteq Entries(matches) \cup {NewMatch(FileSeq[i])}
           /\ matches' = matches \/ ~StartImpossible
           /\ \A e \in Entries(matches) : e.startOff = out.start =>
                \E e2 \in Entries(matches') : e2.startOff = out.start
<1>1. TypeOK /\ Claims /\ todo \subseteq Hashed /\ matches \in Seq(Match)
      /\ out.start \in Nat
  BY DEF Inv, CheckFile, TypeOK, Output
<1>2. PICK i \in todo : Enqueue(FileSeq[i]) /\ todo' = todo \ {i}
  BY DEF CheckFile
<1> DEFINE f == FileSeq[i]
           m == NewMatch(f)
<1>3. i \in Hashed /\ f \in Files
  BY <1>1, <1>2, HashedFacts
<1> HIDE DEF f
<1>4. /\ \/ matches' = matches
         \/ Entries(matches') = Entries(matches) \cup {m}
         \/ /\ matches # << >>
            /\ \E k \in 1..Len(matches) \ {LowestStartOffset(matches)} :
                 Entries(matches') = Others(matches, k) \cup {m}
      /\ matches' = matches \/ ~StartImpossible
  BY <1>1, <1>2, <1>3, EnqueueFacts DEF f
<1> HIDE DEF m
<1>5. Entries(matches') \subseteq Entries(matches) \cup {m}
  BY <1>4 DEF Entries, Others
<1>6. ASSUME NEW e \in Entries(matches), e.startOff = out.start
      PROVE  \E e2 \in Entries(matches') : e2.startOff = out.start
  <2>1. CASE matches' = matches \/ Entries(matches') = Entries(matches) \cup {m}
    BY <1>6, <2>1
  <2>2. ASSUME matches # << >>,
               NEW k \in 1..Len(matches) \ {LowestStartOffset(matches)},
               Entries(matches') = Others(matches, k) \cup {m}
        PROVE  \E e2 \in Entries(matches') : e2.startOff = out.start
    <3> DEFINE low == LowestStartOffset(matches)
    <3>1. /\ low \in 1..Len(matches) /\ matches[low] \in Entries(matches)
          /\ matches[low].startOff <= e.startOff
      BY <1>1, <2>2, OldestFacts
    <3>2. matches[low].startOff \in Nat
      BY <1>1, <3>1, EntryTypes, MatchTypes
    <3>3. out.start <= matches[low].startOff
      BY <1>1, <3>1 DEF Claims
    <3>4. matches[low].startOff = out.start
      BY <1>1, <1>6, <3>1, <3>2, <3>3
    <3>5. matches[low] \in Entries(matches')
      BY <2>2, <3>1 DEF Others
    <3> QED
      BY <3>4, <3>5
  <2> QED
    BY <1>4, <2>1, <2>2
<1> QED
  BY <1>2, <1>3, <1>4, <1>5, <1>6 DEF f, m

\* The first block of a new entry is the window, whose place is rsumBack.
LEMMA NewBlock ==
  ASSUME TypeOK, Placed, NEW i \in Hashed, fpState[FileSeq[i]] # "deleted",
         ~StartImpossible
  PROVE  BlockOK(NewMatch(FileSeq[i]))
<1> DEFINE f == FileSeq[i]
           x == NewMatch(f)
           len == Len(Content[f])
<1>1. /\ off \in Nat /\ rsumBack \in 0..(BufferLength - 1)
      /\ BlockLength \in Nat \ {0} /\ CsumBlockLength \in Nat \ {0}
      /\ out.start \in Nat /\ BlockLength < CsumBlockLength
  BY BufferTypes, ScanAssumption
<1>2. f \in Files /\ len \in Nat /\ len >= BlockLength
  BY HashedFacts, FileFacts DEF Hashed
<1>3. off - BlockLength \in Nat
  BY <1>1 DEF StartImpossible
<1>4. Size(f) = len
  BY DEF Size
<1> HIDE DEF f
<1>5. /\ x.startOff = off - BlockLength /\ x.blockNr = 0 /\ x.blockOff = rsumBack
      /\ x.filePart = f /\ x.nextEv = (off - BlockLength) + Min2(len, CsumBlockLength)
  BY <1>4 DEF NewMatch
<1> HIDE DEF x, len
<1>6. BlockStart(x) = off - BlockLength
  BY <1>1, <1>5 DEF BlockStart
<1>7. Slot(x.blockOff) = Slot(BlockStart(x))
  <2>1. Slot(rsumBack) = rsumBack
    BY <1>1, SlotSmall
  <2> QED
    BY <1>5, <1>6, <2>1 DEF Placed
<1>8. x.nextEv = Min2(BlockStart(x) + CsumBlockLength, x.startOff + Len(Content[x.filePart]))
  BY <1>1, <1>2, <1>3, <1>5, <1>6 DEF Min2, len
<1>9. BlockStart(x) < x.nextEv /\ BlockStart(x) <= off
  BY <1>1, <1>2, <1>3, <1>5, <1>6 DEF Min2
<1>10. x.blockOff <= BufferLength
  BY <1>1, <1>5, BufferTypes
<1> QED
  BY <1>7, <1>8, <1>9, <1>10 DEF BlockOK, f, x

\* The file is queued, or another entry is replaced, or neither.
LEMMA CheckFileBuffer ==
  ASSUME Inv, QueueInv, BufferInv, CheckFile
  PROVE  BufferInv'
<1>1. /\ TypeOK /\ pc = "roll" /\ pc' = "roll" /\ off' = off /\ n' = n /\ data' = data
      /\ rsumBack' = rsumBack /\ buf' = buf /\ image' = image /\ out' = out
  BY DEF Inv, CheckFile, bufVars, imageVars
<1>2. PICK i \in todo :
        /\ i \in Hashed /\ FileSeq[i] \in Files
        /\ Entries(matches') \subseteq Entries(matches) \cup {NewMatch(FileSeq[i])}
        /\ matches' = matches \/ ~StartImpossible
        /\ \A e \in Entries(matches) : e.startOff = out.start =>
             \E e2 \in Entries(matches') : e2.startOff = out.start
  BY CheckFileFacts
<1> DEFINE m == NewMatch(FileSeq[i])
<1>3. \A e \in Entries(matches') : BlockOK(e)
  <2>1. CASE matches' = matches
    BY <2>1 DEF BufferInv
  <2>2. CASE ~StartImpossible
    <3>1. fpState[FileSeq[i]] # "deleted"
      BY DEF QueueInv, TodoOK
    <3>2. BlockOK(m)
      BY <1>1, <1>2, <2>2, <3>1, NewBlock DEF BufferInv
    <3> HIDE DEF m
    <3> QED
      BY <1>2, <3>2 DEF BufferInv, m
  <2> QED
    BY <1>2, <2>1, <2>2
<1>4. \A e \in Entries(matches') : BlockOK(e)'
  BY <1>1, <1>3 DEF BlockOK, BlockStart, Slot
<1>5. FlushOK'
  BY <1>1, <1>2 DEF BufferInv, FlushOK
<1>6. Placed' /\ Held'
  BY <1>1 DEF BufferInv, Placed, Held, Slot
<1> QED
  BY <1>1, <1>4, <1>5, <1>6 DEF BufferInv

\* A file's first block matched: the next one starts at the current byte.
NextEv(x) ==
  Min2(x.nextEv + CsumBlockLength, x.startOff + Len(Content[x.filePart]))

\* What happens to the queue when a block matched that is not the last one.
LEMMA NextBlockFacts ==
  ASSUME Inv, NextBlock
  PROVE  LET x == matches[1]
             y == NextEntry(x, data, NextEv(x))
         IN /\ x \in Entries(matches) /\ x.nextEv = off
            /\ off < x.startOff + Len(Content[x.filePart])
            /\ y \in Match /\ y.startOff = x.startOff /\ y.nextEv = NextEv(x)
            /\ y.blockOff = data /\ y.blockNr = x.blockNr + 1
            /\ y.filePart = x.filePart
            /\ Entries(matches') = Others(matches, 1) \cup {y}
<1> DEFINE x  == matches[1]
           ev == NextEv(x)
           y  == NextEntry(x, data, ev)
<1>1. EventDue
  BY DEF NextBlock
<1>2. /\ TypeOK /\ matches \in Seq(Match) /\ x \in Entries(matches)
      /\ x \in Match /\ x.filePart \in Files /\ x.startOff \in Nat
      /\ x.nextEv = off /\ 1 \in 1..Len(matches) /\ off \in Nat
  BY <1>1, EventFacts
<1>3. matches' = SetNextEvent(matches, 1, y)
  BY DEF NextBlock, NextEntry, NextEv
<1>4. Len(Content[x.filePart]) \in Nat /\ CsumBlockLength \in Nat \ {0}
  BY <1>2, FileFacts, ScanAssumption
<1>5. off < x.startOff + Len(Content[x.filePart])
  BY <1>2, <1>4 DEF NextBlock, LastBlock
<1>6. ev \in Nat
  BY <1>2, <1>4 DEF Min2, NextEv
<1>7. /\ y \in Match /\ y.startOff = x.startOff /\ y.nextEv = ev
      /\ y.blockOff = data /\ y.blockNr = x.blockNr + 1
      /\ y.filePart = x.filePart
  <2>1. data \in Nat
    BY <1>2 DEF TypeOK
  <2>2. x \in Match
    BY <1>2
  <2> HIDE DEF x, ev
  <2> QED
    BY <1>6, <2>1, <2>2, NextEntryFacts
<1> HIDE DEF y, ev
<1>8. Entries(SetNextEvent(matches, 1, y)) = Others(matches, 1) \cup {y}
  <2>1. matches \in Seq(Match) /\ 1 \in 1..Len(matches) /\ y \in Match
    BY <1>2, <1>7
  <2> QED
    BY <2>1, SetNextEventMatch, Zenon
<1> QED
  BY <1>2, <1>3, <1>5, <1>7, <1>8 DEF x, y, ev

\* The next block of an entry starts where the one that matched ended.
LEMMA NextBlockBuffer ==
  ASSUME Inv, BufferInv, NextBlock
  PROVE  BufferInv'
<1> DEFINE x == matches[1]
           y == NextEntry(x, data, NextEv(x))
           len == Len(Content[x.filePart])
           k == x.blockNr
<1>1. /\ x \in Entries(matches) /\ x.nextEv = off /\ off < x.startOff + len
      /\ y \in Match /\ y.startOff = x.startOff /\ y.nextEv = NextEv(x)
      /\ y.blockOff = data /\ y.blockNr = k + 1 /\ y.filePart = x.filePart
      /\ Entries(matches') = Others(matches, 1) \cup {y}
  BY NextBlockFacts
<1>2. /\ TypeOK /\ matches \in Seq(Match) /\ x \in Match /\ k \in Nat
      /\ x.startOff \in Nat /\ off \in Nat /\ pc = "event"
  BY NextBlockFacts, EventFacts, MatchTypes DEF NextBlock
<1>3. /\ off' = off /\ n' = n /\ data' = data /\ rsumBack' = rsumBack /\ buf' = buf
      /\ image' = image /\ out' = out /\ pc' = pc
  BY DEF NextBlock, bufVars, imageVars
<1>4. data \in Nat /\ data <= BufferLength /\ CsumBlockLength \in Nat \ {0}
  BY <1>2, BufferTypes
<1>5. BlockStart(x) \in Nat /\ len \in Nat
  BY <1>2, BlockTypes
<1> HIDE DEF y, x, len, k
<1>6. BlockStart(y) = BlockStart(x) + CsumBlockLength
  <2>1. (k + 1) * CsumBlockLength = k * CsumBlockLength + CsumBlockLength
    BY <1>2, <1>4
  <2>2. k * CsumBlockLength \in Nat
    BY <1>2, <1>4
  <2>3. BlockStart(y) = x.startOff + (k + 1) * CsumBlockLength
    BY <1>1 DEF BlockStart
  <2>4. BlockStart(x) = x.startOff + k * CsumBlockLength
    BY DEF BlockStart, k
  <2> QED
    BY <1>2, <1>4, <2>1, <2>2, <2>3, <2>4
<1>7. off = BlockStart(x) + CsumBlockLength
  <2>1. off = Min2(BlockStart(x) + CsumBlockLength, x.startOff + len)
    BY <1>1 DEF BufferInv, BlockOK, len
  <2> QED
    BY <1>1, <1>2, <1>4, <1>5, <2>1 DEF Min2
<1>8. BlockOK(y)
  <2>1. Slot(y.blockOff) = Slot(BlockStart(y)) /\ y.blockOff <= BufferLength
    BY <1>1, <1>4, <1>6, <1>7 DEF BufferInv, Placed
  <2>2. /\ NextEv(x) = Min2(off + CsumBlockLength, x.startOff + len)
        /\ NextEv(x) > off
    <3>1. NextEv(x) = Min2(off + CsumBlockLength, x.startOff + len)
      BY <1>1 DEF NextEv, len
    <3> QED
      BY <1>1, <1>2, <1>4, <1>5, <3>1 DEF Min2
  <2> QED
    BY <1>1, <1>2, <1>6, <1>7, <2>1, <2>2 DEF BlockOK, len
<1>9. \A m \in Entries(matches') : BlockOK(m)'
  <2>1. \A m \in Others(matches, 1) : BlockOK(m)
    BY DEF BufferInv, Others, Entries
  <2> QED
    BY <1>1, <1>3, <1>8, <2>1 DEF BlockOK, BlockStart, Slot
<1>10. FlushOK'
  <2>1. CASE \E m \in Entries(matches) : m.startOff = out.start
    <3>1. PICK i \in 1..Len(matches) : matches[i].startOff = out.start
      BY <2>1 DEF Entries
    <3>2. \E m \in Entries(matches') : m.startOff = out.start
      <4>1. CASE i = 1
        BY <1>1, <3>1, <4>1 DEF x
      <4>2. CASE i # 1
        <5>1. matches[i] \in Others(matches, 1)
          BY <4>2 DEF Others
        <5> QED
          BY <1>1, <3>1, <5>1
      <4> QED
        BY <4>1, <4>2
    <3> QED
      BY <1>3, <3>2 DEF FlushOK
  <2>2. CASE out.start >= off + n - BufferLength
    BY <1>3, <2>2 DEF FlushOK
  <2> QED
    BY <1>2, <2>1, <2>2 DEF BufferInv, FlushOK
<1> QED
  BY <1>2, <1>3, <1>9, <1>10 DEF BufferInv, Placed, Held, Slot

\* Erasing the front leaves the data of the other entries claimed.
LEMMA EraseFrontBuffer ==
  ASSUME Inv, BufferInv, EventDue, matches' = EraseFront(matches),
         image' = image, buf' = buf, data' = data, off' = off, n' = n,
         rsumBack' = rsumBack, pc' \in {"event", "done"},
         \/ pc' = "done"
         \/ /\ out' = out
            /\ LowestStartOffset(matches) # 1 \/ matches[1].startOff >= off - StillBuffered
         \/ out'.start = off - StillBuffered
         \/ \E m \in Entries(matches') : m.startOff = out'.start
  PROVE  BufferInv'
<1>1. /\ TypeOK /\ Claims /\ matches \in Seq(Match) /\ matches # << >>
      /\ Len(matches) <= MaxMatches /\ pc = "event"
      /\ off \in Nat /\ n \in Nat /\ out.start \in Nat
  BY EventFacts
<1>2. /\ Entries(matches') \subseteq Entries(matches)
      /\ \A i \in 1..Len(matches) : i # 1 => matches[i] \in Entries(matches')
  BY <1>1, RestFacts
<1>3. \A m \in Entries(matches') : BlockOK(m)'
  BY <1>2 DEF BufferInv, BlockOK, BlockStart, Slot
<1>4. off - StillBuffered >= off + n - BufferLength /\ off - StillBuffered \in Nat
      /\ BufferLength \in Nat
  BY <1>1, KeptFacts, BufferLengthBounds
<1>5. pc' # "done" => FlushOK'
  <2>1. CASE out'.start = off - StillBuffered
    BY <1>4, <2>1 DEF FlushOK
  <2>2. CASE /\ out' = out
             /\ LowestStartOffset(matches) # 1 \/ matches[1].startOff >= off - StillBuffered
    <3>1. CASE out.start >= off + n - BufferLength
      BY <2>2, <3>1 DEF FlushOK
    <3>2. CASE \E m \in Entries(matches) : m.startOff = out.start
      <4>1. PICK i \in 1..Len(matches) : matches[i].startOff = out.start
        BY <3>2 DEF Entries
      <4>2. CASE i # 1
        BY <1>2, <2>2, <4>1, <4>2 DEF FlushOK
      <4>3. CASE i = 1 /\ matches[1].startOff >= off - StillBuffered
        BY <1>1, <1>4, <2>2, <4>1, <4>3 DEF FlushOK
      <4>4. CASE LowestStartOffset(matches) # 1
        <5> DEFINE low == LowestStartOffset(matches)
        <5>1. /\ low \in 1..Len(matches) /\ matches[low] \in Entries(matches)
              /\ matches[low] \in Match
              /\ \A m \in Entries(matches) : matches[low].startOff <= m.startOff
          BY <1>1, OldestFacts
        <5>2. matches[low] \in Entries(matches') /\ matches[low].startOff \in Nat
          BY <1>2, <4>4, <5>1, MatchTypes
        <5>3. matches[low].startOff <= out.start
          BY <4>1, <5>1 DEF Entries
        <5>4. out.start <= matches[low].startOff
          BY <1>1, <5>1 DEF Claims
        <5>5. matches[low].startOff = out.start
          BY <1>1, <5>2, <5>3, <5>4
        <5> HIDE DEF low
        <5> QED
          BY <2>2, <5>2, <5>5 DEF FlushOK
      <4> QED
        BY <2>2, <4>2, <4>3, <4>4
    <3> QED
      BY <1>1, <3>1, <3>2 DEF BufferInv, FlushOK
  <2>3. CASE \E m \in Entries(matches') : m.startOff = out'.start
    BY <2>3 DEF FlushOK
  <2> QED
    BY <2>1, <2>2, <2>3
<1> QED
  BY <1>1, <1>3, <1>5 DEF BufferInv, Placed, Held, Slot

\* What a mismatch does not write out is still claimed or still buffered.
LEMMA MismatchBuffer ==
  ASSUME Inv, BufferInv, Mismatch
  PROVE  BufferInv'
<1>1. /\ EventDue /\ matches' = EraseFront(matches) /\ image' = image /\ buf' = buf
      /\ data' = data /\ off' = off /\ n' = n /\ rsumBack' = rsumBack
  BY DEF Mismatch, bufVars, imageVars
<1>2. pc = "event" /\ out \in Output
  BY <1>1, EventFacts
<1> DEFINE bytes == RereadData(matches[1].filePart, RereadEnd - out.start)
<1>3. \/ /\ out' = out /\ pc' = pc
         /\ LowestStartOffset(matches) # 1 \/ matches[1].startOff >= off - StillBuffered
      \/ /\ \/ RereadEnd = off - StillBuffered
            \/ \E m \in Entries(matches') : m.startOff = RereadEnd
         /\ out'.start = RereadEnd /\ pc' \in {pc, "done"}
  <2>1. ASSUME IsArea(out, out', RereadEnd, bytes) PROVE out'.start = RereadEnd
    BY <2>1 DEF IsArea, Area
  <2> HIDE DEF bytes
  <2> QED
    BY <2>1, MismatchOutput DEF bytes
<1> QED
  BY <1>1, <1>2, <1>3, EraseFrontBuffer

\* A match that is ignored is not the oldest one.
LEMMA IgnoreMatchBuffer ==
  ASSUME Inv, BufferInv, IgnoreMatch
  PROVE  BufferInv'
<1>1. /\ EventDue /\ matches' = EraseFront(matches) /\ image' = image /\ buf' = buf
      /\ data' = data /\ off' = off /\ n' = n /\ rsumBack' = rsumBack
      /\ out' = out /\ pc' = pc /\ LowestStartOffset(matches) # 1
  BY DEF IgnoreMatch, bufVars, imageVars, loopVars
<1>2. pc = "event"
  BY <1>1, EventFacts
<1> QED
  BY <1>1, <1>2, EraseFrontBuffer

\* A recorded match leaves nothing pending.
LEMMA FileMatchBuffer ==
  ASSUME Inv, BufferInv, FileMatch
  PROVE  BufferInv'
<1>1. /\ EventDue /\ image' = image /\ buf' = buf
      /\ data' = data /\ off' = off /\ n' = n /\ rsumBack' = rsumBack
  BY DEF FileMatch, bufVars, imageVars
<1>2. /\ TypeOK /\ pc = "event" /\ off \in Nat /\ n \in Nat
  BY <1>1, EventFacts
<1>3. /\ \/ matches' = << >>
         \/ matches' = matches
      /\ \/ pc' = "done"
         \/ pc' = pc /\ \E o \in Output : out' = MatchArea(o, matches[1].startOff, matches[1].filePart)
  <2>1. matches' \in {matches, EraseStartOffsetLess(matches, off)}
    BY DEF FileMatch
  <2>2. EraseStartOffsetLess(matches, off) = << >>
    BY <1>1, EventFacts, NothingPending
  <2> QED
    BY <2>1, <2>2, FileMatchOutput
<1>4. \A m \in Entries(matches') : BlockOK(m)'
  BY <1>1, <1>3, NoEntries DEF BufferInv, BlockOK, BlockStart, Slot
<1>5. pc' # "done" => FlushOK'
  <2> SUFFICES ASSUME pc' # "done" PROVE FlushOK'
    OBVIOUS
  <2>1. PICK o \in Output : out' = MatchArea(o, matches[1].startOff, matches[1].filePart)
    BY <1>3
  <2>2. out'.start = off
    BY <2>1 DEF MatchArea, Output
  <2>3. off >= off + n - BufferLength
    BY <1>2, BufferTypes
  <2> QED
    BY <1>1, <2>2, <2>3 DEF FlushOK
<1>6. pc' # "read"
  BY <1>2, <1>3
<1> QED
  BY <1>1, <1>4, <1>5, <1>6 DEF BufferInv, Placed, Held, Slot

\* The buffer is full: the next read begins at its start again.
LEMMA EventsDoneBuffer ==
  ASSUME Inv, BufferInv, EventsDone
  PROVE  BufferInv'
<1>1. /\ TypeOK /\ pc = "event" /\ image' = image /\ buf' = buf /\ off' = off
      /\ n' = n /\ rsumBack' = rsumBack /\ matches' = matches /\ out' = out
  BY DEF Inv, EventsDone, imageVars, queueVars
<1>2. data \in Nat /\ data <= BufferLength /\ BufferLength \in Nat \ {0} /\ n \in Nat
  BY <1>1, BufferTypes
<1>3. data' = IF n = 0 /\ data = BufferLength THEN 0 ELSE data
  BY DEF EventsDone
<1>4. Slot(data') = Slot(off)
  <2>1. CASE n = 0 /\ data = BufferLength
    <3>1. 0 + BufferLength = BufferLength
      BY <1>2
    <3>2. Slot(0 + BufferLength) = Slot(0)
      BY SlotTurn
    <3> QED
      BY <1>3, <2>1, <3>1, <3>2 DEF BufferInv, Placed
  <2>2. CASE ~(n = 0 /\ data = BufferLength)
    BY <1>3, <2>2 DEF BufferInv, Placed
  <2> QED
    BY <2>1, <2>2
<1>5. pc' = "read" => data' < BufferLength
  BY <1>2, <1>3 DEF EventsDone
<1>6. Placed' /\ Held'
  BY <1>1, <1>4 DEF BufferInv, Placed, Held, Slot
<1>7. \A m \in Entries(matches') : BlockOK(m)'
  BY <1>1 DEF BufferInv, BlockOK, BlockStart, Slot
<1>8. FlushOK'
  BY <1>1 DEF BufferInv, FlushOK
<1> QED
  BY <1>5, <1>6, <1>7, <1>8 DEF BufferInv

\* The scan stops: the buffer stays.
LEMMA StopBuffer ==
  ASSUME Inv, BufferInv, Finish \/ TemplateError
  PROVE  BufferInv'
<1>1. /\ pc' = "done" /\ image' = image /\ buf' = buf /\ off' = off /\ data' = data
      /\ n' = n /\ rsumBack' = rsumBack /\ matches' = matches
  BY DEF Finish, TemplateError, Fail, imageVars, bufVars, queueVars
<1>2. \A m \in Entries(matches') : BlockOK(m)'
  BY <1>1 DEF BufferInv, BlockOK, BlockStart, Slot
<1> QED
  BY <1>1, <1>2 DEF BufferInv, Placed, Held, Slot

\* Steps that do not touch the buffer.
LEMMA OtherBuffer ==
  ASSUME Inv, BufferInv,
         \/ Schedule \/ ReachEvent \/ (\E f \in Files : LoseFile(f))
         \/ UNCHANGED vars
  PROVE  BufferInv'
<1>1. /\ image' = image /\ buf' = buf /\ data' = data /\ off' = off
      /\ n' = n /\ rsumBack' = rsumBack /\ matches' = matches /\ out' = out
      /\ pc' = "read" => pc = "read"
      /\ pc = "done" => pc' = "done"
  BY DEF Schedule, ReachEvent, LoseFile, vars, imageVars, bufVars, loopVars, queueVars
<1>2. \A m \in Entries(matches') : BlockOK(m)'
  BY <1>1 DEF BufferInv, BlockOK, BlockStart, Slot
<1>3. pc' # "done" => FlushOK'
  BY <1>1 DEF BufferInv, FlushOK
<1> QED
  BY <1>1, <1>2, <1>3 DEF BufferInv, Placed, Held, Slot

\* BufferInv is inductive, given Inv and QueueInv.
LEMMA NextBuffer == Inv /\ QueueInv /\ BufferInv /\ [Next]_vars => BufferInv'
<1> SUFFICES ASSUME Inv, QueueInv, BufferInv, [Next]_vars PROVE BufferInv'
  OBVIOUS
<1>1. CASE ScanStep
  BY <1>1, ReadChunkBuffer, OtherBuffer, RollBuffer, CheckFileBuffer,
     MismatchBuffer, NextBlockBuffer, IgnoreMatchBuffer, FileMatchBuffer,
     EventsDoneBuffer, StopBuffer
  DEF ScanStep
<1>2. CASE (\E f \in Files : LoseFile(f)) \/ Done \/ UNCHANGED vars
  BY <1>2, OtherBuffer DEF Done
<1> QED
  BY <1>1, <1>2 DEF Next

\* BufferInv holds of every state the scan can reach.
THEOREM BufferInvariance == Spec => []BufferInv
<1>1. Init => BufferInv
  BY InitBuffer
<1>2. Inv /\ QueueInv /\ BufferInv /\ [Next]_vars => BufferInv'
  BY NextBuffer
<1> QED
  BY <1>1, <1>2, Invariance, QueueInvariance, PTL DEF Spec

\* Where a buffered byte is.
LEMMA HeldAt ==
  ASSUME TypeOK, BufferInv, NEW o \in Nat, off + n - BufferLength <= o, o < off,
         NEW i \in Int, Slot(i) = Slot(o)
  PROVE  buf[i % BufferLength] = image[o + 1]
<1>1. o < off + n
  BY BufferTypes
<1>2. buf[Slot(o)] = image[o + 1]
  BY <1>1 DEF BufferInv, Held
<1> QED
  BY <1>2 DEF Slot

\* Whatever checkChecksumMatch() is going to hash, and all unmatched data that
\* no file can provide, is in the buffer when it is needed.
THEOREM NeededIsBuffered == Spec => []NeededDataBuffered
<1>1. ASSUME Inv, QueueInv, BufferInv, pc \in {"scan", "roll", "event"},
             NEW u \in Int,
             u = IF \E i \in DOMAIN matches : matches[i].startOff = out.start
                 THEN Max2(out.start, off - StillBuffered)
                 ELSE out.start,
             NEW o \in u..(off - 1)
      PROVE  buf[(data - (off - o)) % BufferLength] = image[o + 1]
  <2>1. /\ TypeOK /\ off \in Nat /\ n \in Nat /\ data \in Nat /\ out.start \in Nat
        /\ BufferLength \in Nat /\ Claims /\ matches \in Seq(Match)
    BY <1>1, BufferTypes DEF Inv
  <2>2. /\ off - StillBuffered \in Nat
        /\ off - StillBuffered >= off + n - BufferLength
    BY <2>1, KeptFacts
  <2>3. u >= out.start /\ u >= off + n - BufferLength
    <3>1. CASE \E i \in DOMAIN matches : matches[i].startOff = out.start
      BY <1>1, <2>1, <2>2, <3>1 DEF Max2
    <3>2. CASE ~\E i \in DOMAIN matches : matches[i].startOff = out.start
      <4>1. DOMAIN matches = 1..Len(matches)
        BY <2>1
      <4>2. out.start >= off + n - BufferLength
        BY <1>1, <3>2, <4>1 DEF BufferInv, FlushOK, Entries
      <4> QED
        BY <1>1, <2>1, <3>2, <4>2
    <3> QED
      BY <3>1, <3>2
  <2>4. o \in Nat /\ off + n - BufferLength <= o /\ o < off
    BY <1>1, <2>1, <2>3
  <2> DEFINE c == o - off
             i == data + c
  <2>5. c \in Int /\ i \in Int /\ off + c = o /\ i = data - (off - o)
        /\ data \in Int /\ off \in Int
    BY <2>1, <2>4
  <2>6. Slot(i) = Slot(o)
    <3> HIDE DEF c
    <3>1. Slot(data + c) = Slot(off + c)
      BY <1>1, <2>5, SlotShift, Zenon DEF BufferInv, Placed
    <3> QED
      BY <2>5, <3>1
  <2> HIDE DEF i
  <2>7. buf[i % BufferLength] = image[o + 1]
    BY <1>1, <2>1, <2>4, <2>5, <2>6, HeldAt
  <2> QED
    BY <2>5, <2>7
<1>2. ASSUME Inv, QueueInv, BufferInv, pc \in {"scan", "roll", "event"},
             NEW m \in Entries(matches), NEW k \in 0..(off - BlockStart(m) - 1)
      PROVE  buf[(m.blockOff + k) % BufferLength] = image[BlockStart(m) + k + 1]
  <2>1. /\ TypeOK /\ off \in Nat /\ n \in Nat /\ m \in Match /\ BlockStart(m) \in Nat
        /\ BufferLength \in Nat /\ m.blockOff \in Nat /\ m.nextEv \in Nat
        /\ CsumBlockLength \in Nat /\ n <= ReadAmount /\ ReadAmount \in Nat
        /\ m.startOff \in Nat /\ Len(Content[m.filePart]) \in Nat
    BY <1>2, BufferTypes, EntryTypes, BlockTypes, MatchTypes DEF Inv, LoopOK
  <2>2. off <= m.nextEv
    <3>1. CASE pc = "roll"
      BY <1>2, <2>1, <3>1 DEF QueueInv, EventsAhead, TypeOK
    <3> QED
      BY <1>2, <2>1, <3>1 DEF QueueInv, EventsAhead
  <2>3. m.nextEv <= BlockStart(m) + CsumBlockLength
    BY <1>2, <2>1 DEF BufferInv, BlockOK, Min2
  <2>4. CsumBlockLength + n <= BufferLength
    <3>1. /\ BufferHalf \in Nat /\ BufferHalf >= CsumBlockLength
          /\ BufferHalf >= ReadAmount
      BY ScanAssumption DEF BufferHalf, Max2
    <3> QED
      BY <2>1, <3>1, BufferLengthHalves
  <2> DEFINE s == BlockStart(m)
             o == s + k
             i == m.blockOff + k
  <2>5. /\ o \in Nat /\ off + n - BufferLength <= o /\ o < off /\ i \in Int
        /\ s \in Int /\ m.blockOff \in Int /\ k \in Int
    BY <1>2, <2>1, <2>2, <2>3, <2>4, SMTT(30)
  <2>6. Slot(i) = Slot(o)
    <3>1. Slot(m.blockOff) = Slot(s)
      BY <1>2 DEF BufferInv, BlockOK
    <3> HIDE DEF s
    <3> QED
      BY <2>5, <3>1, SlotShift, Zenon
  <2> HIDE DEF o, i
  <2>7. buf[i % BufferLength] = image[o + 1]
    BY <1>2, <2>1, <2>5, <2>6, HeldAt
  <2> QED
    BY <2>7 DEF o, i
<1>3. Inv /\ QueueInv /\ BufferInv => NeededDataBuffered
  <2> SUFFICES ASSUME Inv, QueueInv, BufferInv, pc \in {"scan", "roll", "event"}
               PROVE  NeededDataBuffered
    BY DEF NeededDataBuffered
  <2> DEFINE u == IF \E i \in DOMAIN matches : matches[i].startOff = out.start
                  THEN Max2(out.start, off - StillBuffered)
                  ELSE out.start
  <2>1. TypeOK /\ out.start \in Nat /\ matches \in Seq(Match)
    BY BufferTypes DEF Inv
  <2>2. u \in Int
    BY <2>1, KeptFacts DEF Max2
  <2> HIDE DEF u
  <2>3. \A o \in u..(off - 1) : buf[(data - (off - o)) % BufferLength] = image[o + 1]
    BY <1>1, <2>2 DEF u
  <2>4. \A i \in DOMAIN matches :
          \A k \in 0..(off - BlockStart(matches[i]) - 1) :
            buf[(matches[i].blockOff + k) % BufferLength] =
              image[BlockStart(matches[i]) + k + 1]
    <3>1. \A i \in DOMAIN matches : matches[i] \in Entries(matches)
      BY <2>1 DEF Entries
    <3> QED
      BY <1>2, <3>1
  <2> QED
    BY <2>3, <2>4 DEF NeededDataBuffered, u, BlockStart
<1> QED
  BY <1>3, Invariance, QueueInvariance, BufferInvariance, PTL

-----------------------------------------------------------------------------
(* What is read out of the buffer is image data *)

\* Distances between offsets agree, too.
LEMMA SlotDiff ==
  ASSUME NEW a \in Int, NEW b \in Int, NEW c \in Int, NEW d \in Int,
         Slot(a) = Slot(c), Slot(b) = Slot(d)
  PROVE  Slot(a - b) = Slot(c - d)
<1> DEFINE m == -b
           k == c - b - d
           p == a + m
           q == c + m
           u == b + k
           v == d + k
<1>1. /\ m \in Int /\ k \in Int /\ p = a - b /\ q = c - b
      /\ u = c - d /\ v = c - b
  OBVIOUS
<1>2. Slot(p) = Slot(q)
  <2> HIDE DEF m
  <2> QED
    BY <1>1, SlotShift, Zenon
<1>3. Slot(u) = Slot(v)
  <2> HIDE DEF k
  <2> QED
    BY <1>1, SlotShift, Zenon
<1> HIDE DEF p, q, u, v
<1> QED
  BY <1>1, <1>2, <1>3

\* len bytes of s after the first i are equal to those of t after the first j.
SameBytes(s, i, t, j, len) == \A k \in 1..len : s[i + k] = t[j + k]

\* Two parts of sequences are equal if they are so element by element.
LEMMA SubSeqEqual ==
  ASSUME NEW s \in Seq(Byte), NEW t \in Seq(Byte), NEW i \in Nat, NEW j \in Nat,
         NEW len \in Nat, i + len <= Len(s), j + len <= Len(t)
  PROVE  SubSeq(s, i + 1, i + len) = SubSeq(t, j + 1, j + len)
           <=> SameBytes(s, i, t, j, len)
<1> DEFINE a == SubSeq(s, i + 1, i + len)
           b == SubSeq(t, j + 1, j + len)
<1>1. Len(s) \in Nat /\ Len(t) \in Nat
  BY LenProperties
<1>2. /\ a \in Seq(Byte) /\ Len(a) = len
      /\ \A k \in 1..len : a[k] = s[i + k]
  <2>1. \A k \in (i + 1)..(i + len) : s[k] \in Byte
    BY <1>1, ElementOfSeq
  <2>2. /\ a \in Seq(Byte)
        /\ Len(a) = IF i + 1 <= i + len THEN (i + len) - (i + 1) + 1 ELSE 0
        /\ \A k \in 1..((i + len) - (i + 1) + 1) : a[k] = s[(i + 1) + k - 1]
    BY <2>1, SubSeqProperties
  <2> HIDE DEF a
  <2>3. (i + len) - (i + 1) + 1 = len /\ \A k \in 1..len : (i + 1) + k - 1 = i + k
    OBVIOUS
  <2> QED
    BY <2>2, <2>3
<1>3. /\ b \in Seq(Byte) /\ Len(b) = len
      /\ \A k \in 1..len : b[k] = t[j + k]
  <2>1. \A k \in (j + 1)..(j + len) : t[k] \in Byte
    BY <1>1, ElementOfSeq
  <2>2. /\ b \in Seq(Byte)
        /\ Len(b) = IF j + 1 <= j + len THEN (j + len) - (j + 1) + 1 ELSE 0
        /\ \A k \in 1..((j + len) - (j + 1) + 1) : b[k] = t[(j + 1) + k - 1]
    BY <2>1, SubSeqProperties
  <2> HIDE DEF b
  <2>3. (j + len) - (j + 1) + 1 = len /\ \A k \in 1..len : (j + 1) + k - 1 = j + k
    OBVIOUS
  <2> QED
    BY <2>2, <2>3
<1> HIDE DEF a, b
<1>4. a = b <=> \A k \in 1..len : a[k] = b[k]
  BY <1>2, <1>3, SeqEqual
<1>5. a = b <=> \A k \in 1..len : s[i + k] = t[j + k]
  BY <1>2, <1>3, <1>4
<1> QED
  BY <1>5 DEF a, b, SameBytes

\* A part of the buffer is the image data that belongs to its places.
LEMMA BufRangeIs ==
  ASSUME TypeOK, Held,
         NEW b \in 0..BufferLength, NEW e \in 0..BufferLength,
         NEW s \in Nat, NEW t \in Nat, Slot(b) = Slot(s), Slot(e) = Slot(t),
         s < t, t - s <= BufferLength,
         b < BufferLength \/ t - s < BufferLength,
         off + n - BufferLength <= s, t <= off + n
  PROVE  BufRange(b, e) = SubSeq(image, s + 1, t)
<1>1. /\ BufferLength \in Nat \ {0} /\ b \in Int /\ e \in Int /\ s \in Int /\ t \in Int
      /\ image \in Seq(Byte) /\ Len(image) \in Nat /\ t <= Len(image)
      /\ off \in Int /\ n \in Int
  <2>1. /\ BufferLength \in Nat \ {0} /\ off \in Nat /\ n \in Nat
        /\ image \in Seq(Byte) /\ Len(image) \in Nat /\ off + n <= Len(image)
    BY BufferTypes
  <2> QED
    BY <2>1
<1> DEFINE len == IF b < e THEN e - b ELSE BufferLength - b + e
           r == BufRange(b, e)
<1>2. Slot(e - b) = Slot(t - s)
  BY <1>1, SlotDiff
<1>3. len = t - s
  <2> DEFINE x == e - b
             y == t - s
  <2>1. x \in Int /\ y \in Int /\ Slot(x) = Slot(y) /\ 0 < y /\ y <= BufferLength
    BY <1>1, <1>2
  <2>2. CASE b < e
    <3>1. x - y < BufferLength /\ y - x < BufferLength
      BY <1>1, <2>2
    <3> HIDE DEF x, y
    <3>2. x = y
      BY <2>1, <3>1, SlotNear
    <3> QED
      BY <2>2, <3>2 DEF x, y
  <2>3. CASE ~(b < e)
    <3> DEFINE z == x + BufferLength
    <3>1. /\ z \in Int /\ z - y < BufferLength /\ y - z < BufferLength
          /\ z = BufferLength - b + e
      BY <1>1, <2>3
    <3>2. Slot(z) = Slot(x)
      <4> HIDE DEF x
      <4> QED
        BY <2>1, SlotTurn
    <3> HIDE DEF x, y, z
    <3>3. z = y
      BY <2>1, <3>1, <3>2, SlotNear
    <3> QED
      BY <2>3, <3>1, <3>3 DEF y
  <2> QED
    BY <2>2, <2>3
<1>4. r = [i \in 1..len |-> buf[Slot(b + i - 1)]]
  BY DEF BufRange, Slot
<1> HIDE DEF len, r
<1>5. ASSUME NEW i \in 1..(t - s) PROVE buf[Slot(b + i - 1)] = image[s + i]
  <2> DEFINE c == i - 1
             o == s + c
             p == b + c
  <2>1. /\ c \in Int /\ o \in Nat /\ p = b + i - 1 /\ o + 1 = s + i
        /\ off + n - BufferLength <= o /\ o < off + n
    BY <1>1
  <2>2. Slot(p) = Slot(o)
    <3> HIDE DEF c
    <3> QED
      BY <1>1, <2>1, SlotShift, ZenonT(60)
  <2> HIDE DEF o, p
  <2>3. buf[Slot(o)] = image[o + 1]
    BY <2>1 DEF Held
  <2> QED
    BY <2>1, <2>2, <2>3
<1> DEFINE q == SubSeq(image, s + 1, t)
<1>6. q = [i \in 1..(t - s) |-> image[s + i]]
  <2>1. \A k \in (s + 1)..t : image[k] \in Byte
    BY <1>1, ElementOfSeq
  <2>2. /\ q \in Seq(Byte)
        /\ Len(q) = IF s + 1 <= t THEN t - (s + 1) + 1 ELSE 0
        /\ \A k \in 1..(t - (s + 1) + 1) : q[k] = image[(s + 1) + k - 1]
    BY <1>1, <2>1, SubSeqProperties
  <2> HIDE DEF q
  <2>3. Len(q) = t - s /\ \A k \in 1..(t - s) : q[k] = image[s + k]
    <3>1. t - (s + 1) + 1 = t - s /\ s + 1 <= t
      BY <1>1
    <3>2. Len(q) = t - s /\ \A k \in 1..(t - s) : q[k] = image[(s + 1) + k - 1]
      BY <2>2, <3>1
    <3>3. ASSUME NEW k \in 1..(t - s) PROVE q[k] = image[s + k]
      <4>1. (s + 1) + k - 1 = s + k
        OBVIOUS
      <4> QED
        BY <3>2, <4>1
    <3> QED
      BY <3>2, <3>3
  <2>4. DOMAIN q = 1..(t - s) /\ q = [k \in DOMAIN q |-> q[k]]
    BY <2>2, <2>3, LenProperties
  <2> QED
    BY <2>3, <2>4
<1> HIDE DEF q
<1>7. r = q
  BY <1>3, <1>4, <1>5, <1>6
<1> QED
  BY <1>7 DEF r, q

\* How many bytes of an entry have matched so far.
MatchedLen(m) == m.blockNr * CsumBlockLength

\* The block that checkChecksumMatch() compares.
LEMMA BlockIs ==
  ASSUME Inv, BufferInv, EventDue
  PROVE  LET x == matches[1]
             f == x.filePart
             k == MatchedLen(x)
         IN /\ k \in Nat /\ k < off - x.startOff
            /\ off - x.startOff <= Len(Content[f])
            /\ BlockMatches(x) <=>
                 /\ HasSums(fpState, f, x.blockNr)
                 /\ SameBytes(image, x.startOff + k, Content[f], k,
                              off - x.startOff - k)
<1> DEFINE x == matches[1]
           f == x.filePart
           k == MatchedLen(x)
           len == off - x.startOff - k
           size == Len(Content[f])
           s == x.startOff + k
<1>1. /\ TypeOK /\ matches \in Seq(Match) /\ x \in Entries(matches)
      /\ x \in Match /\ f \in Files /\ x.startOff \in Nat
      /\ x.nextEv = off /\ off \in Nat /\ n \in Nat
  BY EventFacts
<1>2. /\ BufferLength \in Nat \ {0} /\ CsumBlockLength \in Nat \ {0} /\ n <= ReadAmount
      /\ ReadAmount \in Nat
      /\ image \in Seq(Byte) /\ off + n <= Len(image) /\ data \in Nat
      /\ data <= BufferLength
  BY <1>1, BufferTypes DEF Inv, LoopOK
<1>3. /\ s = BlockStart(x) /\ s \in Nat /\ size \in Nat /\ Content[f] \in Seq(Byte)
  BY <1>1, BlockTypes DEF BlockStart, MatchedLen
<1>4. /\ x.blockNr \in Nat /\ x.blockOff \in Nat /\ k = x.blockNr * CsumBlockLength
      /\ k \in Nat /\ (x.blockNr + 1) * CsumBlockLength = k + CsumBlockLength
  BY <1>1, <1>2, MatchTypes, SMTT(30) DEF MatchedLen
<1>5. /\ Slot(x.blockOff) = Slot(s) /\ x.blockOff <= BufferLength
      /\ off = Min2(s + CsumBlockLength, x.startOff + size) /\ s < off
  BY <1>1, <1>3 DEF BufferInv, BlockOK
<1> HIDE DEF x, f, size, k
<1>6. /\ len \in Nat \ {0} /\ len <= CsumBlockLength /\ k + len <= size
      /\ s + len = off
      /\ k + len = Min2(k + CsumBlockLength, size)
      /\ k < off - x.startOff /\ off - x.startOff <= size
  <2> DEFINE a == x.startOff
  <2>1. /\ a \in Nat /\ k \in Nat /\ CsumBlockLength \in Nat \ {0} /\ size \in Nat
        /\ off \in Nat /\ off = Min2(a + k + CsumBlockLength, a + size) /\ a + k < off
    <3>1. k \in Nat
      BY <1>4
    <3>2. off = Min2(s + CsumBlockLength, x.startOff + size) /\ s < off
      BY <1>5
    <3> QED
      BY <1>1, <1>2, <1>3, <3>1, <3>2, Zenon
  <2> HIDE DEF a
  <2>2. LET l == off - a - k
        IN /\ l \in Nat \ {0} /\ l <= CsumBlockLength /\ k + l <= size
           /\ a + k + l = off /\ k + l = Min2(k + CsumBlockLength, size)
           /\ k < off - a /\ off - a <= size
    BY <2>1 DEF Min2
  <2> QED
    BY <2>2 DEF a
<1>7. CsumBlockLength + n <= BufferLength /\ CsumBlockLength < BufferLength
  <2>1. /\ BufferHalf \in Nat /\ BufferHalf >= CsumBlockLength
        /\ BufferHalf >= ReadAmount
    BY ScanAssumption DEF BufferHalf, Max2
  <2> QED
    BY <1>1, <1>2, <2>1, BufferLengthHalves
<1>8. BufRange(x.blockOff, data) = SubSeq(image, s + 1, s + len)
  <2>1. Slot(data) = Slot(off)
    BY DEF BufferInv, Placed
  <2>2. /\ off - s < BufferLength /\ off - s <= BufferLength
        /\ off + n - BufferLength <= s /\ off <= off + n /\ s < off
    <3> HIDE DEF s
    <3>1. s \in Nat /\ s < off /\ off - s <= CsumBlockLength
      <4> DEFINE l == len
      <4>1. l \in Nat \ {0} /\ l <= CsumBlockLength /\ s + l = off /\ s \in Nat
        BY <1>3, <1>6
      <4> HIDE DEF l
      <4> QED
        BY <1>1, <1>2, <4>1
    <3> QED
      BY <1>1, <1>2, <1>7, <3>1
  <2>3. x.blockOff \in 0..BufferLength /\ data \in 0..BufferLength
    BY <1>2, <1>4, <1>5
  <2> HIDE DEF s, len
  <2>4. BufRange(x.blockOff, data) = SubSeq(image, s + 1, off)
    <3>1. TypeOK /\ Held /\ s \in Nat /\ off \in Nat /\ Slot(x.blockOff) = Slot(s)
      BY <1>1, <1>3, <1>5 DEF BufferInv
    <3> QED
      BY <2>1, <2>2, <2>3, <3>1, BufRangeIs, Zenon
  <2> QED
    BY <1>6, <2>4
<1>9. FileBlock(f, x.blockNr) = SubSeq(Content[f], k + 1, k + len)
  BY <1>4, <1>6 DEF FileBlock, size
<1>10. s + len <= Len(image) /\ k + len <= Len(Content[f])
  BY <1>1, <1>2, <1>6 DEF size
<1> HIDE DEF s, len
<1>11. BufRange(x.blockOff, data) = FileBlock(f, x.blockNr)
         <=> SameBytes(image, s, Content[f], k, len)
  <2>1. SubSeq(image, s + 1, s + len) = SubSeq(Content[f], k + 1, k + len)
          <=> SameBytes(image, s, Content[f], k, len)
    <3>1. /\ image \in Seq(Byte) /\ Content[f] \in Seq(Byte)
          /\ s \in Nat /\ k \in Nat /\ len \in Nat
      <4>1. k \in Nat /\ len \in Nat
        BY <1>4, <1>6
      <4> QED
        BY <1>2, <1>3, <4>1
    <3> QED
      BY <1>10, <3>1, SubSeqEqual, Zenon
  <2> QED
    BY <1>8, <1>9, <2>1
<1>12. BlockMatches(x) <=> /\ HasSums(fpState, f, x.blockNr)
                           /\ SameBytes(image, s, Content[f], k, len)
  BY <1>11 DEF BlockMatches, f
<1>13. k \in Nat /\ k < off - x.startOff /\ off - x.startOff <= Len(Content[f])
  BY <1>4, <1>6 DEF size
<1> QED
  BY <1>12, <1>13 DEF x, f, k, s, len

-----------------------------------------------------------------------------
(* No occurrence of a file is overlooked *)

\* Only a file that has been lost is dropped from the scan.
StateOK == \A f \in Files : fpState[f] = "deleted" => f \in lost

\* The image ends where the read stopped.
EofOK == (eof => off + n = Len(image)) /\ (pc = "end" => eof)

\* The areas end with a matched file.
LastMatched(o) ==
  LET d == o.desc
  IN /\ d # << >> /\ d[Len(d)].type = "matched" /\ d[Len(d)].size > 0
     /\ d[Len(d)].offset + d[Len(d)].size = o.start

\* What has been dealt with ends before the window, or with a match.
LastOK == out.start <= Max2(off - BlockLength, 0) \/ LastMatched(out)

ProgressInv == StateOK /\ EofOK /\ (pc # "done" => LastOK)

\* The files that are searched for.
Watched == {FileSeq[i] : i \in Hashed}

\* File f at offset p overlaps with a recorded match.
Covered(d, f, p) ==
  \E i \in DOMAIN d : /\ d[i].type = "matched"
                      /\ d[i].offset < p + Len(Content[f])
                      /\ p < d[i].offset + d[i].size

\* It is being compared.
Pending(q, f, p) == \E m \in Entries(q) : m.startOff = p /\ m.filePart = f

\* Its window has just been found, and the file is to be looked at.
Found(f, p) == p + BlockLength = off /\ \E i \in todo : FileSeq[i] = f

\* It is still to come, or it has been found.
Seen(f, p) == \/ p + BlockLength > off \/ Found(f, p)
              \/ Pending(matches, f, p) \/ Covered(out.desc, f, p)

\* Nothing happened that may make the scan overlook a file.
Undisturbed == ~dropped /\ lost = {} /\ GreedyMatching

\* Then this holds of each occurrence.
CoverInv ==
  (pc # "done" /\ Undisturbed) =>
    \A f \in Watched, p \in 0..Len(image) : Occurs(f, p) => Seen(f, p)

\* What an occurrence is, byte by byte.
LEMMA OccursFacts ==
  ASSUME TypeOK, NEW f \in Watched, NEW p \in 0..Len(image), Occurs(f, p)
  PROVE  /\ f \in Files /\ p \in Nat /\ Len(Content[f]) \in Nat
         /\ Len(Content[f]) >= BlockLength /\ p + Len(Content[f]) <= Len(image)
         /\ Content[f] \in Seq(Byte)
         /\ \A j \in 1..Len(Content[f]) : image[p + j] = Content[f][j]
<1> DEFINE c == Content[f]
           len == Len(c)
<1>1. PICK i \in Hashed : f = FileSeq[i]
  BY DEF Watched
<1>2. f \in Files /\ len >= BlockLength
  BY <1>1, HashedFacts DEF Hashed
<1>3. c \in Seq(Byte) /\ len \in Nat /\ image \in Seq(Byte) /\ Len(image) \in Nat
  BY <1>2, FileFacts, BufferTypes
<1>4. p + len <= Len(image) /\ SubSeq(image, p + 1, p + len) = c
  BY DEF Occurs
<1>5. SubSeq(c, 1, len) = c
  BY <1>3, SubSeqFull
<1> HIDE DEF c, len
<1>6. 0 + 1 = 1 /\ 0 + len = len /\ p \in Nat /\ 0 \in Nat /\ len <= Len(c)
  BY <1>3 DEF len
<1>7. SameBytes(image, p, c, 0, len)
  <2>1. SubSeq(image, p + 1, p + len) = SubSeq(c, 0 + 1, 0 + len)
    BY <1>4, <1>5, <1>6
  <2>2. 0 + len <= Len(c)
    BY <1>6
  <2> QED
    BY <1>3, <1>4, <1>6, <2>1, <2>2, SubSeqEqual, Zenon
<1>8. ASSUME NEW j \in 1..len PROVE image[p + j] = c[j]
  <2>1. 0 + j = j
    OBVIOUS
  <2> QED
    BY <1>7, <2>1 DEF SameBytes
<1> QED
  BY <1>2, <1>3, <1>4, <1>6, <1>8 DEF c, len

\* A recorded match stays recorded.
LEMMA CoveredGrows ==
  ASSUME NEW d \in Seq(DescEntry), NEW e \in Seq(DescEntry), Grows(d, e),
         NEW f, NEW p, Covered(d, f, p)
  PROVE  Covered(e, f, p)
<1>1. PICK i \in DOMAIN d : /\ d[i].type = "matched"
                            /\ d[i].offset < p + Len(Content[f])
                            /\ p < d[i].offset + d[i].size
  BY DEF Covered
<1>2. e[i] = d[i]
  BY <1>1 DEF Grows, GrowsAt
<1>3. i \in DOMAIN e
  <2>1. /\ DOMAIN d = 1..Len(d) /\ DOMAIN e = 1..Len(e)
        /\ Len(d) \in Nat /\ Len(e) \in Nat /\ Len(d) <= Len(e)
    BY LenProperties DEF Grows
  <2> QED
    BY <2>1
<1> QED
  BY <1>1, <1>2, <1>3 DEF Covered

\* A partial match of a file that does occur there goes on.
LEMMA OccurrenceMatches ==
  ASSUME Inv, BufferInv, EventDue, StateOK, lost = {},
         matches[1].filePart \in Watched, matches[1].startOff \in 0..Len(image),
         Occurs(matches[1].filePart, matches[1].startOff)
  PROVE  BlockMatches(matches[1])
<1> DEFINE x == matches[1]
           f == x.filePart
           p == x.startOff
           k == MatchedLen(x)
           len == off - p - k
<1>1. /\ TypeOK /\ f \in Files /\ p \in Nat /\ off \in Nat
  BY EventFacts
<1>2. /\ k \in Nat /\ k < off - p /\ off - p <= Len(Content[f])
      /\ HasSums(fpState, f, x.blockNr) /\ SameBytes(image, p + k, Content[f], k, len)
           => BlockMatches(x)
  BY BlockIs
<1>3. /\ Len(Content[f]) \in Nat
      /\ \A j \in 1..Len(Content[f]) : image[p + j] = Content[f][j]
  BY <1>1, OccursFacts
<1>4. HasSums(fpState, f, x.blockNr)
  BY <1>1 DEF StateOK, HasSums, TypeOK
<1> HIDE DEF x, f, p, k
<1>5. SameBytes(image, p + k, Content[f], k, len)
  <2> SUFFICES ASSUME NEW j \in 1..len
               PROVE  image[p + k + j] = Content[f][k + j]
    BY DEF SameBytes
  <2>1. k + j \in 1..Len(Content[f]) /\ p + k + j = p + (k + j)
    BY <1>1, <1>2, <1>3
  <2> QED
    BY <1>3, <2>1
<1> QED
  BY <1>2, <1>4, <1>5 DEF x

\* When the window is at an occurrence, the file is found.
LEMMA WindowFound ==
  ASSUME TypeOK, Held, StateOK, lost = {}, NEW i \in Hashed,
         NEW p \in 0..Len(image), Occurs(FileSeq[i], p),
         NEW b \in 0..(BufferLength - 1), NEW d \in 0..BufferLength,
         Slot(b) = Slot(p), Slot(d) = Slot(p + BlockLength),
         p + BlockLength <= off + n, off + n - BufferLength <= p
  PROVE  i \in HashHits(b, d)
<1> DEFINE f == FileSeq[i]
           t == p + BlockLength
<1>1. f \in Watched
  BY DEF Watched
<1>2. /\ f \in Files /\ p \in Nat /\ Len(Content[f]) \in Nat
      /\ Len(Content[f]) >= BlockLength /\ p + Len(Content[f]) <= Len(image)
      /\ Content[f] \in Seq(Byte)
      /\ \A j \in 1..Len(Content[f]) : image[p + j] = Content[f][j]
  BY <1>1, OccursFacts
<1>3. /\ BufferLength \in Nat \ {0} /\ BlockLength \in Nat \ {0}
      /\ BlockLength < BufferLength /\ image \in Seq(Byte) /\ Len(image) \in Nat
      /\ off \in Nat /\ n \in Nat
  BY BufferTypes
<1>4. BufRange(b, d) = SubSeq(image, p + 1, t)
  <2>1. /\ b \in 0..BufferLength /\ p < t /\ t - p <= BufferLength /\ b < BufferLength
        /\ t \in Nat
    BY <1>2, <1>3
  <2> HIDE DEF t
  <2>2. Slot(d) = Slot(t) /\ t <= off + n
    BY DEF t
  <2> QED
    BY <1>2, <2>1, <2>2, BufRangeIs
<1>5. SubSeq(image, p + 1, t) = SubSeq(Content[f], 1, BlockLength)
  <2>1. SameBytes(image, p, Content[f], 0, BlockLength)
    <3>1. \A j \in 1..BlockLength : 0 + j = j /\ j \in 1..Len(Content[f])
      BY <1>2, <1>3
    <3> QED
      BY <1>2, <3>1 DEF SameBytes
  <2>2. /\ p + BlockLength <= Len(image) /\ 0 + BlockLength <= Len(Content[f])
        /\ 0 \in Nat /\ BlockLength \in Nat
    BY <1>2, <1>3
  <2>3. SubSeq(image, p + 1, p + BlockLength) = SubSeq(Content[f], 0 + 1, 0 + BlockLength)
    <3> DEFINE c == Content[f]
    <3>1. /\ image \in Seq(Byte) /\ c \in Seq(Byte) /\ p \in Nat /\ 0 \in Nat
          /\ BlockLength \in Nat /\ p + BlockLength <= Len(image)
          /\ 0 + BlockLength <= Len(c) /\ SameBytes(image, p, c, 0, BlockLength)
      BY <1>2, <1>3, <2>1, <2>2
    <3> HIDE DEF c
    <3>2. SubSeq(image, p + 1, p + BlockLength) = SubSeq(c, 0 + 1, 0 + BlockLength)
      BY <3>1, SubSeqEqual
    <3> QED
      BY <3>2 DEF c
  <2>4. 0 + 1 = 1 /\ 0 + BlockLength = BlockLength
    BY <1>3
  <2> QED
    BY <2>3, <2>4
<1>6. fpState[f] # "deleted"
  BY <1>2 DEF StateOK
<1> QED
  BY <1>4, <1>5, <1>6 DEF HashHits

\* Reading the sums of a file drops it only if it is lost.
LEMMA AfterSumsState ==
  ASSUME NEW state \in [Files -> {"head", "all", "deleted"}],
         \A g \in Files : state[g] = "deleted" => g \in lost,
         NEW f \in Files, NEW k
  PROVE  \A g \in Files : AfterSums(state, f, k)[g] = "deleted" => g \in lost
  BY DEF AfterSums

\* StateOK is inductive.
LEMMA NextState ==
  ASSUME Inv, StateOK, [Next]_vars
  PROVE  StateOK'
<1>1. TypeOK /\ fpState \in [Files -> {"head", "all", "deleted"}]
  BY DEF Inv, TypeOK
<1>2. CASE fpState' = fpState /\ lost \subseteq lost'
  BY <1>2 DEF StateOK
<1>3. ASSUME EventDue, lost' = lost, fpState' = ReadSums(matches[1])
      PROVE  StateOK'
  <2>1. matches[1].filePart \in Files
    BY <1>3, EventFacts
  <2> QED
    BY <1>1, <1>3, <2>1, AfterSumsState DEF ReadSums, StateOK
<1>4. ASSUME EventDue, lost' = lost,
             fpState' = AfterSums(ReadSums(matches[1]), matches[1].filePart, 1)
      PROVE  StateOK'
  <2> DEFINE f == matches[1].filePart
             s == ReadSums(matches[1])
  <2>1. f \in Files
    BY <1>4, EventFacts
  <2>2. /\ s \in [Files -> {"head", "all", "deleted"}]
        /\ \A g \in Files : s[g] = "deleted" => g \in lost
    BY <1>1, <2>1, AfterSumsType, AfterSumsState DEF ReadSums, StateOK
  <2> HIDE DEF f, s
  <2>3. \A g \in Files : AfterSums(s, f, 1)[g] = "deleted" => g \in lost
    BY <2>1, <2>2, AfterSumsState
  <2> QED
    BY <1>4, <2>3 DEF StateOK, f, s
<1>5. CASE FileMatch
  <2>1. /\ EventDue /\ lost' = lost
        /\ fpState' \in {ReadSums(matches[1]),
                         AfterSums(ReadSums(matches[1]), matches[1].filePart, 1)}
    BY <1>5 DEF FileMatch
  <2> QED
    BY <1>3, <1>4, <2>1
<1> QED
  BY <1>2, <1>3, <1>5
  DEF Next, ScanStep, Done, vars, fileVars, ReadChunk, Schedule, RollByte,
      FastForward, CheckFile, ReachEvent, Mismatch, NextBlock, IgnoreMatch,
      EventsDone, Finish, TemplateError, LoseFile

\* A read stops short of the buffer or of ReadAmount only at the end of the
\* image, and so does the scan.
LEMMA NextEof ==
  ASSUME Inv, BufferInv, EofOK, [Next]_vars
  PROVE  EofOK'
<1>1. /\ TypeOK /\ off \in Nat /\ n \in Nat /\ off + n <= Len(image)
      /\ Len(image) \in Nat /\ data \in Nat /\ BufferLength \in Nat
      /\ ReadAmount \in Nat \ {0}
  BY BufferTypes DEF Inv
<1>2. CASE ReadChunk
  <2> DEFINE amount == Min2(ReadAmount, BufferLength - data)
             got    == Min2(amount, Len(image) - off)
  <2>1. data < BufferLength
    BY <1>2 DEF ReadChunk, BufferInv
  <2>2. /\ n' = got /\ eof' = (got < amount) /\ off' = off /\ image' = image
        /\ pc' = "end" => got = 0
    BY <1>2 DEF ReadChunk
  <2>3. amount \in Nat \ {0}
    BY <1>1, <2>1 DEF Min2
  <2> HIDE DEF amount
  <2>4. got < amount => off + got = Len(image)
    BY <1>1, <2>3 DEF Min2
  <2>5. got = 0 => got < amount
    BY <2>3
  <2> HIDE DEF got
  <2> QED
    BY <2>2, <2>4, <2>5 DEF EofOK
<1>3. ASSUME NEW len \in Nat, Advance(len), image' = image, eof' = eof, pc' = pc,
             pc = "roll"
      PROVE  EofOK'
  <2>1. off' + n' = off + n
    BY <1>1, <1>3 DEF Advance
  <2> QED
    BY <1>3, <2>1 DEF EofOK
<1>4. CASE RollByte
  BY <1>3, <1>4 DEF RollByte, imageVars
<1>5. CASE FastForward
  <2> DEFINE len == Min2(NextAlignedOff - off, nextEvent - off)
  <2>1. nextEvent \in Nat /\ off < nextEvent
    BY <1>1, <1>5 DEF FastForward, TypeOK
  <2>2. len \in Nat
    BY <1>1, <2>1, JumpFacts DEF Min2
  <2>3. Advance(len)
    BY <1>5 DEF FastForward
  <2> HIDE DEF len
  <2> QED
    BY <1>3, <1>5, <2>2, <2>3 DEF FastForward, imageVars
<1>6. CASE EventsDone
  <2>1. /\ image' = image /\ eof' = eof /\ off' = off /\ n' = n
        /\ pc' = "end" => eof
    BY <1>6 DEF EventsDone, imageVars
  <2> QED
    BY <2>1 DEF EofOK
<1>7. CASE /\ image' = image /\ eof' = eof /\ off' = off /\ n' = n
           /\ pc' = "end" => pc = "end"
  BY <1>7 DEF EofOK
<1>8. CASE Mismatch \/ FileMatch
  BY <1>7, <1>8, EventFacts DEF Mismatch, FileMatch, GoOn, Fail, imageVars, bufVars
<1> QED
  BY <1>2, <1>4, <1>5, <1>6, <1>7, <1>8
  DEF Next, ScanStep, Done, vars, imageVars, bufVars, loopVars, Schedule, CheckFile,
      ReachEvent, NextBlock, IgnoreMatch, Finish, TemplateError, Fail, LoseFile

\* A match that is recorded becomes the last DESC entry.
LEMMA MatchAreaLast ==
  ASSUME NEW o \in Output, NEW start \in Nat, NEW f \in Files, o.descOff = start,
         NEW e \in Nat, e = off, start + Len(Content[f]) = e, start < e
  PROVE  LET a == MatchArea(o, start, f)
         IN LastMatched(a) /\ a.start = e /\ a.desc # << >>
            /\ a.desc[Len(a.desc)] = Matched(start, f)
<1> DEFINE a == MatchArea(o, start, f)
           d == Append(o.desc, Matched(start, f))
<1>1. o.desc \in Seq(DescEntry) /\ Len(o.desc) \in Nat /\ Len(Content[f]) \in Nat
  BY FileFacts, LenProperties DEF Output
<1>2. a.desc = d /\ a.start = e
  BY DEF MatchArea, Output
<1>3. Matched(start, f) \in DescEntry
  BY <1>1 DEF Matched, DescEntry
<1>4. Len(d) = Len(o.desc) + 1 /\ d[Len(o.desc) + 1] = Matched(start, f)
  BY <1>1, <1>3
<1>5. /\ Matched(start, f).type = "matched" /\ Matched(start, f).offset = start
      /\ Matched(start, f).size = Len(Content[f])
  BY DEF Matched
<1> HIDE DEF d, a
<1>6. d # << >>
  BY <1>1, <1>4
<1>7. Len(Content[f]) > 0 /\ start + Len(Content[f]) = e
  BY <1>1
<1> QED
  BY <1>2, <1>4, <1>5, <1>6, <1>7 DEF LastMatched, a

\* What a recorded match does to the output.
LEMMA FileMatchRecorded ==
  ASSUME Inv, FileMatch, pc' # "done"
  PROVE  /\ matches' = << >> /\ off' = off /\ out'.start = off
         /\ matches[1].startOff + Len(Content[matches[1].filePart]) = off
         /\ LastMatched(out') /\ out'.desc # << >>
         /\ out'.desc[Len(out'.desc)] = Matched(matches[1].startOff, matches[1].filePart)
<1> DEFINE x == matches[1]
           f == x.filePart
           p == x.startOff
<1>1. /\ f \in Files /\ p \in Nat /\ off \in Nat /\ p < off
  <2>1. EventDue
    BY DEF FileMatch
  <2>2. /\ f \in Files /\ p \in Nat /\ off \in Nat /\ x \in Entries(matches) /\ Claims
    BY <2>1, EventFacts
  <2>3. p + BlockLength <= off /\ BlockLength \in Nat \ {0}
    BY <2>2, ScanAssumption DEF Claims, EntryOK
  <2> QED
    BY <2>2, <2>3
<1>2. p + Len(Content[f]) = off /\ off' = off
  BY FileMatchOutput DEF FileMatch, bufVars
<1>3. PICK o \in Output : /\ o.descOff = p /\ matches' = << >>
                          /\ out' = MatchArea(o, p, f)
  BY FileMatchOutput
<1> HIDE DEF x, f, p
<1>4. LET a == MatchArea(o, p, f)
      IN LastMatched(a) /\ a.start = off /\ a.desc # << >>
         /\ a.desc[Len(a.desc)] = Matched(p, f)
  BY <1>1, <1>2, <1>3, MatchAreaLast
<1> QED
  BY <1>2, <1>3, <1>4 DEF x, f, p

\* The window moves forward.
LEMMA WindowGrows ==
  ASSUME NEW a \in Nat, NEW b \in Nat, NEW c \in Nat, a <= b
  PROVE  /\ Max2(a - c, 0) \in Int /\ Max2(b - c, 0) \in Int
         /\ Max2(a - c, 0) <= Max2(b - c, 0)
  BY DEF Max2

\* What has been dealt with ends before the window, or with a match.
LEMMA NextLast ==
  ASSUME Inv, LastOK, pc # "done", [Next]_vars
  PROVE  pc' # "done" => LastOK'
<1> SUFFICES ASSUME pc' # "done" PROVE LastOK'
  OBVIOUS
<1>1. /\ TypeOK /\ LoopOK /\ Settled(out) /\ Claims /\ off \in Nat /\ n \in Nat
      /\ out \in Output /\ out.start \in Nat /\ BlockLength \in Nat
  BY BufferTypes DEF Inv
<1>2. CASE out' = out /\ off' \in Nat /\ off' >= off
  <2> DEFINE a == off
             b == off'
  <2>5. a \in Nat /\ b \in Nat /\ BlockLength \in Nat /\ a <= b
    BY <1>1, <1>2
  <2> HIDE DEF a, b
  <2>6. /\ Max2(a - BlockLength, 0) \in Int /\ Max2(b - BlockLength, 0) \in Int
         /\ Max2(a - BlockLength, 0) <= Max2(b - BlockLength, 0)
    BY <2>5, WindowGrows, Zenon
  <2>1. Max2(off - BlockLength, 0) <= Max2(off' - BlockLength, 0)
    BY <2>6 DEF a, b
  <2>2. Max2(off - BlockLength, 0) \in Int /\ Max2(off' - BlockLength, 0) \in Int
    BY <2>6 DEF a, b
  <2>3. CASE out.start <= Max2(off - BlockLength, 0)
    <3>1. out.start <= Max2(off' - BlockLength, 0)
      BY <1>1, <2>1, <2>2, <2>3
    <3> QED
      BY <1>2, <3>1 DEF LastOK, Max2
  <2>4. CASE LastMatched(out)
    BY <1>2, <2>4 DEF LastOK, LastMatched
  <2> QED
    BY <2>3, <2>4 DEF LastOK
<1>3. CASE ReadChunk
  <2>1. /\ NewUnmatchedStart \in Nat
        /\ NewUnmatchedStart <= Max2(off - BlockLength, 0)
    BY <1>1, FlushLimit
  <2>2. off' = off /\ out' = Flush(out, NewUnmatchedStart)
    BY <1>3 DEF ReadChunk
  <2>3. CASE out.start < NewUnmatchedStart
    <3>1. out'.start = NewUnmatchedStart
      BY <1>1, <2>1, <2>2, <2>3, FlushFacts
    <3> QED
      BY <2>1, <2>2, <3>1 DEF LastOK, Max2
  <2>4. CASE ~(out.start < NewUnmatchedStart)
    BY <1>1, <1>2, <2>2, <2>4 DEF Flush
  <2> QED
    BY <2>3, <2>4
<1>4. CASE Mismatch
  <2>1. off' = off
    BY <1>4 DEF Mismatch, bufVars
  <2> DEFINE bytes == RereadData(matches[1].filePart, RereadEnd - out.start)
  <2>2. \/ out' = out
        \/ RereadEnd <= off - StillBuffered /\ IsArea(out, out', RereadEnd, bytes)
    BY <1>4, MismatchOutput
  <2>3. ASSUME RereadEnd <= off - StillBuffered, IsArea(out, out', RereadEnd, bytes)
        PROVE  LastOK'
    <3> HIDE DEF bytes
    <3>1. out'.start = RereadEnd /\ RereadEnd \in Nat
      BY <2>3 DEF IsArea, Area
    <3>2. /\ off - StillBuffered <= Max2(off - BlockLength, 0)
          /\ off - StillBuffered \in Nat /\ Max2(off - BlockLength, 0) \in Int
      BY <1>1, KeptIsOld, KeptFacts DEF LoopOK, Max2
    <3>3. out'.start <= Max2(off' - BlockLength, 0)
      BY <2>1, <2>3, <3>1, <3>2
    <3> QED
      BY <3>3 DEF LastOK, Max2
  <2> QED
    BY <1>1, <1>2, <2>1, <2>2, <2>3
<1>5. CASE FileMatch
  BY <1>5, FileMatchRecorded DEF LastOK, LastMatched
<1>6. CASE RollByte
  BY <1>1, <1>2, <1>6 DEF RollByte, Advance
<1>7. CASE FastForward
  <2>1. off' = off + Min2(NextAlignedOff - off, nextEvent - off) /\ out' = out
    BY <1>7 DEF FastForward, Advance
  <2>2. nextEvent \in Nat /\ off < nextEvent
    BY <1>1, <1>7 DEF FastForward, TypeOK
  <2> QED
    BY <1>1, <1>2, <2>1, <2>2, JumpFacts DEF Min2
<1>8. CASE Finish \/ TemplateError
  BY <1>8 DEF Finish, TemplateError, Fail
<1>9. CASE out' = out /\ off' = off
  BY <1>1, <1>2, <1>9
<1> QED
  BY <1>3, <1>4, <1>5, <1>6, <1>7, <1>8, <1>9
  DEF Next, ScanStep, Done, vars, bufVars, Schedule, CheckFile, ReachEvent,
      NextBlock, IgnoreMatch, EventsDone, LoseFile

\* Nothing is lost, read or dealt with at the beginning.
LEMMA InitProgress == Init => ProgressInv
<1> SUFFICES ASSUME Init PROVE ProgressInv
  OBVIOUS
<1>1. StateOK
  BY DEF Init, StateOK
<1>2. EofOK
  BY DEF Init, EofOK
<1>3. LastOK
  <2>1. off = 0 /\ out.start = 0 /\ BlockLength \in Nat
    BY ScanAssumption DEF Init
  <2> QED
    BY <2>1 DEF LastOK, Max2
<1> QED
  BY <1>1, <1>2, <1>3 DEF ProgressInv

\* ProgressInv is inductive, given the invariants before it.
LEMMA NextProgress ==
  Inv /\ BufferInv /\ ProgressInv /\ [Next]_vars => ProgressInv'
<1> SUFFICES ASSUME Inv, BufferInv, ProgressInv, [Next]_vars PROVE ProgressInv'
  OBVIOUS
<1>1. pc = "done" => pc' = "done"
  BY DEF Next, ScanStep, Done, vars, loopVars, ReadChunk, Schedule, RollByte,
         FastForward, CheckFile, ReachEvent, EventDue, Mismatch, NextBlock,
         IgnoreMatch, FileMatch, EventsDone, Finish, TemplateError, LoseFile
<1> QED
  BY <1>1, NextState, NextEof, NextLast DEF ProgressInv

\* ProgressInv holds of every state the scan can reach.
THEOREM ProgressInvariance == Spec => []ProgressInv
<1>1. Init => ProgressInv
  BY InitProgress
<1>2. Inv /\ BufferInv /\ ProgressInv /\ [Next]_vars => ProgressInv'
  BY NextProgress
<1> QED
  BY <1>1, <1>2, Invariance, BufferInvariance, PTL DEF Spec

\* The innermost loops stop at every window, unless the queue is full.
LEMMA OneByte ==
  ASSUME Inv, RollByte \/ FastForward, ~dropped'
  PROVE  /\ pc = "roll" /\ pc' = "roll" /\ Advance(1) /\ off < nextEvent
         /\ todo = {} /\ todo' = HashHits(rsumBack', data')
         /\ matches' = matches /\ out' = out /\ image' = image /\ buf' = buf
<1>1. TypeOK /\ off \in Nat /\ nextEvent \in Nat
  BY DEF Inv, TypeOK
<1>2. CASE RollByte
  BY <1>2 DEF RollByte, queueVars, imageVars
<1>3. CASE FastForward
  <2>1. NextAlignedOff = off + 1
    BY <1>3 DEF FastForward
  <2>2. off < nextEvent
    BY <1>3 DEF FastForward
  <2>3. Min2(NextAlignedOff - off, nextEvent - off) = 1
    BY <1>1, <2>1, <2>2 DEF Min2
  <2>4. Advance(1) /\ off' = off + 1
    BY <1>3, <2>3 DEF FastForward, Advance
  <2> QED
    BY <1>3, <2>1, <2>2, <2>4 DEF FastForward, imageVars
<1> QED
  BY <1>2, <1>3

\* When the window gets to an occurrence, the file is found.
LEMMA RollSeen ==
  ASSUME Inv, BufferInv, ProgressInv, lost = {}, RollByte \/ FastForward, ~dropped',
         NEW f \in Watched, NEW p \in 0..Len(image), Occurs(f, p), Seen(f, p)
  PROVE  Seen(f, p)'
<1>1. /\ TypeOK /\ LoopOK /\ off \in Nat /\ n \in Nat /\ nextEvent \in Nat
      /\ data \in Nat /\ BlockLength \in Nat \ {0} /\ image \in Seq(Byte)
      /\ BufferLength \in Nat \ {0} /\ Len(image) \in Nat /\ ReadAmount \in Nat
      /\ out.desc \in Seq(DescEntry)
  BY BufferTypes DEF Inv, TypeOK, Output
<1>2. /\ pc = "roll" /\ pc' = "roll" /\ Advance(1) /\ off < nextEvent
      /\ todo = {} /\ todo' = HashHits(rsumBack', data')
      /\ matches' = matches /\ out' = out /\ image' = image /\ buf' = buf
  BY OneByte
<1>3. off' = off + 1 /\ n' = n - 1 /\ data' = data + 1 /\ off + 1 <= off + n
  BY <1>1, <1>2 DEF Advance, LoopOK
<1>4. BufferInv' /\ Inv'
  BY RollBuffer, RollByteInv, FastForwardInv
<1>5. CASE p + BlockLength = off'
  <2>1. PICK i \in Hashed : FileSeq[i] = f
    BY DEF Watched
  <2>2. rsumBack' \in 0..(BufferLength - 1) /\ data' \in 0..BufferLength
    BY <1>4 DEF Inv, TypeOK
  <2>3. Slot(data') = Slot(p + BlockLength) /\ rsumBack' = Slot(p)
    <3>1. Slot(data') = Slot(off') /\ rsumBack' = Slot(off' - BlockLength)
      BY <1>4 DEF BufferInv, Placed, Slot
    <3>2. off' - BlockLength = p
      BY <1>1, <1>5
    <3> QED
      BY <1>5, <3>1, <3>2
  <2>4. Slot(rsumBack') = rsumBack'
    BY <2>2, SlotSmall
  <2>5. p + BlockLength <= off + n /\ off + n - BufferLength <= p
    <3>1. n <= ReadAmount
      BY <1>1 DEF LoopOK
    <3> QED
      BY <1>1, <1>3, <1>5, <3>1, BufferLengthBounds
  <2> DEFINE b == rsumBack'
             d == data'
  <2>6. b \in 0..(BufferLength - 1) /\ d \in 0..BufferLength
        /\ Slot(b) = Slot(p) /\ Slot(d) = Slot(p + BlockLength)
    BY <2>2, <2>3, <2>4
  <2>7. TypeOK /\ Held /\ StateOK /\ Occurs(FileSeq[i], p)
    BY <1>1, <2>1 DEF BufferInv, ProgressInv
  <2> HIDE DEF b, d
  <2>8. i \in HashHits(b, d)
    BY <2>5, <2>6, <2>7, WindowFound
  <2>9. i \in todo'
    BY <1>2, <2>8 DEF b, d
  <2> QED
    BY <1>5, <2>1, <2>9 DEF Seen, Found
<1>6. CASE p + BlockLength > off'
  BY <1>6 DEF Seen
<1>7. CASE p + BlockLength < off'
  <2>1. ~(p + BlockLength > off) /\ ~Found(f, p)
    BY <1>1, <1>2, <1>3, <1>7 DEF Found
  <2> QED
    BY <1>2, <2>1 DEF Seen, Pending, Covered
<1> QED
  BY <1>1, <1>3, <1>5, <1>6, <1>7

\* A file is not queued only if the match before reaches into the window.
LEMMA NotQueued ==
  ASSUME Inv, ProgressInv, pc # "done", StartImpossible,
         NEW f \in Watched, NEW p \in 0..Len(image), Occurs(f, p),
         p + BlockLength = off
  PROVE  Covered(out.desc, f, p)
<1> DEFINE d == out.desc
           k == Len(d)
<1>1. /\ TypeOK /\ Claims /\ off \in Nat /\ out.start \in Nat /\ d \in Seq(DescEntry)
      /\ BlockLength \in Nat \ {0} /\ k \in Nat
  BY BufferTypes, LenProperties DEF Inv, Output
<1>2. p \in Nat /\ Len(Content[f]) \in Nat /\ Len(Content[f]) >= BlockLength
  BY <1>1, OccursFacts
<1>3. out.start > p /\ out.start <= off
  BY <1>1, <1>2 DEF StartImpossible, Claims
<1>4. Max2(off - BlockLength, 0) = p
  BY <1>1, <1>2 DEF Max2
<1>5. /\ d # << >> /\ d[k].type = "matched" /\ d[k].size > 0
      /\ d[k].offset + d[k].size = out.start
  BY <1>1, <1>2, <1>3, <1>4 DEF ProgressInv, LastOK, LastMatched
<1>6. k \in DOMAIN d /\ d[k] \in DescEntry
  BY <1>1, <1>5, EmptySeq
<1>7. d[k].offset \in Nat /\ d[k].size \in Nat
  BY <1>5, <1>6 DEF DescEntry
<1> HIDE DEF d, k
<1>8. d[k].offset < p + Len(Content[f]) /\ p < d[k].offset + d[k].size
  <2> DEFINE a == d[k].offset
             s == d[k].size
             len == Len(Content[f])
             b == out.start
  <2>1. /\ a \in Nat /\ s \in Nat /\ len \in Nat /\ b \in Nat /\ p \in Nat
        /\ BlockLength \in Nat /\ len >= BlockLength /\ s > 0 /\ a + s = b
        /\ b > p /\ b <= p + BlockLength
    BY <1>1, <1>2, <1>3, <1>5, <1>7
  <2> HIDE DEF a, s, len, b
  <2>2. a < p + len /\ p < a + s
    BY <2>1
  <2> QED
    BY <2>2 DEF a, s, len
<1> QED
  BY <1>5, <1>6, <1>8 DEF Covered, d, k

\* A file that is found is queued.
LEMMA CheckFileSeen ==
  ASSUME Inv, ProgressInv, CheckFile, ~dropped',
         NEW f \in Watched, NEW p \in 0..Len(image), Occurs(f, p), Seen(f, p)
  PROVE  Seen(f, p)'
<1>1. /\ TypeOK /\ pc = "roll" /\ off' = off /\ out' = out /\ todo \subseteq Hashed
      /\ matches \in Seq(Match) /\ off \in Nat /\ BlockLength \in Nat
      /\ sectorLength \in SectorLengths
  BY BufferTypes DEF Inv, CheckFile, bufVars, TypeOK
<1>2. PICK i \in todo : Enqueue(FileSeq[i]) /\ todo' = todo \ {i}
  BY DEF CheckFile
<1> DEFINE g == FileSeq[i]
           m == NewMatch(g)
<1>3. CASE StartImpossible
  <2>1. matches' = matches
    BY <1>2, <1>3 DEF Enqueue
  <2>2. CASE Found(f, p)
    <3>1. Covered(out.desc, f, p)
      BY <1>1, <1>3, <2>2, NotQueued DEF Found
    <3> QED
      BY <1>1, <3>1 DEF Seen, Covered
  <2>3. CASE ~Found(f, p)
    BY <1>1, <2>1, <2>3 DEF Seen, Pending, Covered
  <2> QED
    BY <2>2, <2>3
<1>4. CASE ~StartImpossible
  <2>1. ~Full(matches)
    BY <1>2, <1>4 DEF Enqueue
  <2>2. matches' = InsertByEvent(matches, m)
    BY <1>2, <1>4, <2>1 DEF Enqueue
  <2>3. g \in Files
    BY <1>1, <1>2, HashedFacts
  <2>4. m \in Match /\ m.startOff = off - BlockLength /\ m.filePart = g
    BY <1>1, <1>4, <2>3, NewMatchFacts DEF NewMatch
  <2> HIDE DEF m
  <2>5. Entries(InsertByEvent(matches, m)) = Entries(matches) \cup {m}
    BY <1>1, <2>4, MatchTypes, InsertByEventFacts
  <2>6. Entries(matches') = Entries(matches) \cup {m}
    BY <2>2, <2>5
  <2>7. CASE Found(f, p)
    <3>1. p + BlockLength = off
      BY <2>7 DEF Found
    <3>2. PICK j \in todo : FileSeq[j] = f
      BY <2>7 DEF Found
    <3>3. CASE j = i
      <4>1. m.startOff = p
        BY <1>1, <2>4, <3>1
      <4>2. m \in Entries(matches') /\ m.filePart = f
        BY <2>4, <2>6, <3>2, <3>3
      <4> QED
        BY <4>1, <4>2 DEF Seen, Pending
    <3>4. CASE j # i
      <4>1. j \in todo' /\ p + BlockLength = off'
        BY <1>1, <1>2, <3>1, <3>2, <3>4
      <4> QED
        BY <3>2, <4>1 DEF Seen, Found
    <3> QED
      BY <3>3, <3>4
  <2>8. CASE ~Found(f, p)
    BY <1>1, <2>6, <2>8 DEF Seen, Pending, Covered
  <2> QED
    BY <2>7, <2>8
<1> QED
  BY <1>3, <1>4

\* The next block belongs to the same partial match.
LEMMA NextBlockSeen ==
  ASSUME Inv, NextBlock, NEW f, NEW p, Seen(f, p)
  PROVE  Seen(f, p)'
<1> DEFINE x == matches[1]
           y == NextEntry(x, data, NextEv(x))
<1>1. /\ y.startOff = x.startOff /\ y.filePart = x.filePart
      /\ Entries(matches') = Others(matches, 1) \cup {y}
  BY NextBlockFacts
<1>2. off' = off /\ out' = out /\ todo' = todo
  BY DEF NextBlock, bufVars
<1> HIDE DEF y
<1>3. Pending(matches, f, p) => Pending(matches', f, p)
  <2> SUFFICES ASSUME NEW i \in 1..Len(matches), matches[i].startOff = p,
                      matches[i].filePart = f
               PROVE  Pending(matches', f, p)
    BY DEF Pending, Entries
  <2>1. CASE i = 1
    BY <1>1, <2>1 DEF Pending
  <2>2. CASE i # 1
    BY <1>1, <2>2 DEF Pending, Others
  <2> QED
    BY <2>1, <2>2
<1> QED
  BY <1>2, <1>3 DEF Seen, Found, Covered, Pending

\* Only a file that is not there is given up.
LEMMA MismatchSeen ==
  ASSUME Inv, QueueInv, BufferInv, ProgressInv, Mismatch, lost = {},
         NEW f \in Watched, NEW p \in 0..Len(image), Occurs(f, p), Seen(f, p)
  PROVE  Seen(f, p)'
<1>1. /\ EventDue /\ ~BlockMatches(matches[1]) /\ matches' = EraseFront(matches)
      /\ off' = off /\ todo' = todo
  BY DEF Mismatch, bufVars
<1>2. /\ TypeOK /\ matches \in Seq(Match) /\ matches # << >> /\ Len(matches) <= MaxMatches
      /\ out.desc \in Seq(DescEntry)
  BY <1>1, EventFacts DEF Output
<1>3. \A i \in 1..Len(matches) : i # 1 => matches[i] \in Entries(matches')
  BY <1>1, <1>2, RestFacts
<1>4. Pending(matches, f, p) => Pending(matches', f, p)
  <2> SUFFICES ASSUME NEW i \in 1..Len(matches), matches[i].startOff = p,
                      matches[i].filePart = f
               PROVE  Pending(matches', f, p)
    BY DEF Pending, Entries
  <2>1. i # 1
    BY <1>1, OccurrenceMatches DEF ProgressInv
  <2> QED
    BY <1>3, <2>1 DEF Pending
<1>5. Covered(out.desc, f, p) => Covered(out'.desc, f, p)
  <2>1. Grows(out.desc, out'.desc)
    BY NextGrows DEF Next, ScanStep
  <2>2. out'.desc \in Seq(DescEntry)
    BY MismatchInv DEF Inv, TypeOK, Output
  <2> QED
    BY <1>2, <2>1, <2>2, CoveredGrows
<1> QED
  BY <1>1, <1>4, <1>5 DEF Seen, Found

\* A recorded match overlaps with every partial match that it ends.
LEMMA FileMatchSeen ==
  ASSUME Inv, QueueInv, FileMatch, pc' # "done",
         NEW f \in Watched, NEW p \in 0..Len(image), Occurs(f, p), Seen(f, p)
  PROVE  Seen(f, p)'
<1> DEFINE x == matches[1]
           d == out'.desc
           e == Matched(x.startOff, x.filePart)
<1>1. /\ EventDue /\ off' = off /\ todo' = todo
  BY DEF FileMatch, bufVars
<1>2. /\ TypeOK /\ Claims /\ matches \in Seq(Match) /\ out.desc \in Seq(DescEntry)
      /\ x.startOff \in Nat /\ x \in Entries(matches) /\ off \in Nat /\ pc = "event"
      /\ BlockLength \in Nat \ {0} /\ x.filePart \in Files
  BY <1>1, EventFacts, BufferTypes DEF Output
<1>3. d \in Seq(DescEntry)
  BY FileMatchInv DEF Inv, TypeOK, Output
<1>4. Covered(out.desc, f, p) => Covered(d, f, p)
  <2>1. Grows(out.desc, d)
    BY NextGrows DEF Next, ScanStep
  <2> QED
    BY <1>2, <1>3, <2>1, CoveredGrows
<1>5. /\ x.startOff + Len(Content[x.filePart]) = off /\ d # << >> /\ d[Len(d)] = e
  BY FileMatchRecorded
<1>6. ASSUME Pending(matches, f, p) PROVE Covered(d, f, p)
  <2>1. PICK m \in Entries(matches) : m.startOff = p /\ m.filePart = f
    BY <1>6 DEF Pending
  <2>2. /\ p + BlockLength <= off /\ m.nextEv <= p + Len(Content[f])
        /\ off <= m.nextEv /\ m.nextEv \in Nat
    BY <1>2, <2>1, EntryTypes, MatchTypes DEF Claims, EntryOK, QueueInv, EventsAhead
  <2>3. x.startOff + BlockLength <= off
    BY <1>2 DEF Claims, EntryOK
  <2>4. /\ e.type = "matched" /\ e.offset = x.startOff
        /\ e.size = Len(Content[x.filePart])
    BY DEF Matched
  <2>5. p \in Nat /\ Len(Content[f]) \in Nat
    BY <1>2, OccursFacts
  <2>6. x.startOff < p + Len(Content[f]) /\ p < off
    BY <1>2, <2>2, <2>3, <2>5, SMTT(30)
  <2>7. Len(d) \in DOMAIN d
    BY <1>3, <1>5, EmptySeq
  <2> HIDE DEF e, d
  <2> QED
    BY <1>5, <2>4, <2>6, <2>7 DEF Covered
<1> QED
  BY <1>1, <1>4, <1>6 DEF Seen, Found

\* Reading on keeps what is recorded.
LEMMA ReadChunkSeen ==
  ASSUME Inv, ReadChunk, NEW f, NEW p, Seen(f, p)
  PROVE  Seen(f, p)'
<1>1. matches' = matches /\ off' = off /\ todo' = todo
  BY DEF ReadChunk, queueVars
<1>2. out.desc \in Seq(DescEntry) /\ out'.desc \in Seq(DescEntry)
  BY ReadChunkInv DEF Inv, TypeOK, Output
<1>3. Grows(out.desc, out'.desc)
  BY NextGrows DEF Next, ScanStep
<1>4. Covered(out.desc, f, p) => Covered(out'.desc, f, p)
  BY <1>2, <1>3, CoveredGrows
<1> QED
  BY <1>1, <1>4 DEF Seen, Found, Pending

\* The steps that only move on in the loop.
LEMMA OtherSeen ==
  ASSUME NEW f, NEW p, Seen(f, p),
         matches' = matches, off' = off, todo' = todo, out' = out
  PROVE  Seen(f, p)'
  BY DEF Seen, Found, Pending, Covered

\* The image stays the same, and what disturbs the scan is not forgotten.
LEMMA Monotone ==
  ASSUME Inv, [Next]_vars
  PROVE  /\ image' = image /\ lost \subseteq lost' /\ (dropped => dropped')
         /\ (pc = "done" => pc' = "done" /\ out' = out /\ result' = result)
<1>1. dropped \in BOOLEAN
  BY DEF Inv, TypeOK
<1>2. CASE CheckFile
  <2>1. image' = image /\ lost' = lost /\ pc = "roll"
    BY <1>2 DEF CheckFile, imageVars, fileVars
  <2>2. PICK i \in todo : Enqueue(FileSeq[i])
    BY <1>2 DEF CheckFile
  <2>3. dropped' = dropped \/ dropped' = TRUE
    BY <2>2 DEF Enqueue
  <2> QED
    BY <2>1, <2>3
<1>3. CASE FastForward
  BY <1>1, <1>3 DEF FastForward, imageVars, fileVars
<1>4. CASE ReadChunk \/ Schedule \/ RollByte \/ (\E f \in Files : LoseFile(f)) \/ UNCHANGED vars
  BY <1>1, <1>4, SMTT(30)
  DEF ReadChunk, Schedule, RollByte, LoseFile, vars, imageVars, bufVars, loopVars,
      queueVars, fileVars
<1>5. CASE ReachEvent \/ Mismatch \/ NextBlock \/ IgnoreMatch \/ FileMatch \/ EventsDone
  BY <1>1, <1>5, SMTT(30)
  DEF ReachEvent, EventDue, Mismatch, NextBlock, IgnoreMatch, FileMatch, EventsDone,
      imageVars, fileVars, loopVars, queueVars
<1>6. CASE Finish \/ TemplateError \/ Done
  BY <1>1, <1>6, SMTT(30)
  DEF Finish, TemplateError, Done, Fail, vars, imageVars, fileVars, loopVars, queueVars
<1> QED
  BY <1>2, <1>3, <1>4, <1>5, <1>6 DEF Next, ScanStep

\* At the beginning every occurrence is still to come.
LEMMA InitCover == Init => CoverInv
<1> SUFFICES ASSUME Init, NEW f \in Watched, NEW p \in 0..Len(image)
             PROVE  p + BlockLength > off
  BY DEF CoverInv, Seen
<1>1. off = 0 /\ BlockLength \in Nat \ {0}
  BY ScanAssumption DEF Init
<1> QED
  BY <1>1

\* CoverInv is inductive, given the invariants before it.
LEMMA NextCover ==
  Inv /\ QueueInv /\ BufferInv /\ ProgressInv /\ CoverInv /\ [Next]_vars => CoverInv'
<1> SUFFICES ASSUME Inv, QueueInv, BufferInv, ProgressInv, CoverInv, [Next]_vars,
                    pc' # "done", Undisturbed',
                    NEW f \in Watched, NEW p \in 0..Len(image'), Occurs(f, p)'
             PROVE  Seen(f, p)'
  BY DEF CoverInv
<1>1. image' = image /\ pc # "done" /\ ~dropped /\ lost = {}
  BY Monotone DEF Undisturbed
<1>2. ~dropped' /\ GreedyMatching
  BY DEF Undisturbed
<1>3. Occurs(f, p) /\ p \in 0..Len(image)
  BY <1>1 DEF Occurs
<1>4. Seen(f, p)
  BY <1>1, <1>2, <1>3 DEF CoverInv, Undisturbed
<1>5. CASE RollByte \/ FastForward
  BY <1>1, <1>2, <1>3, <1>4, <1>5, RollSeen
<1>6. CASE CheckFile
  BY <1>2, <1>3, <1>4, <1>6, CheckFileSeen
<1>7. CASE NextBlock
  BY <1>4, <1>7, NextBlockSeen
<1>8. CASE Mismatch
  BY <1>1, <1>3, <1>4, <1>8, MismatchSeen
<1>9. CASE FileMatch
  BY <1>3, <1>4, <1>9, FileMatchSeen
<1>10. CASE ReadChunk
  BY <1>4, <1>10, ReadChunkSeen
<1>11. CASE IgnoreMatch
  BY <1>2, <1>11 DEF IgnoreMatch
<1>12. CASE Finish \/ TemplateError
  BY <1>12 DEF Finish, TemplateError, Fail
<1>13. CASE Schedule \/ ReachEvent \/ EventsDone \/ UNCHANGED vars
            \/ \E g \in Files : LoseFile(g)
  <2>1. matches' = matches /\ off' = off /\ todo' = todo /\ out' = out
    BY <1>13 DEF Schedule, ReachEvent, EventsDone, LoseFile, vars, bufVars, loopVars,
                 queueVars
  <2> QED
    BY <1>4, <2>1, OtherSeen
<1> QED
  BY <1>5, <1>6, <1>7, <1>8, <1>9, <1>10, <1>11, <1>12, <1>13
  DEF Next, ScanStep, Done

\* CoverInv holds of every state the scan can reach.
THEOREM CoverInvariance == Spec => []CoverInv
<1>1. Init => CoverInv
  BY InitCover
<1>2. Inv /\ QueueInv /\ BufferInv /\ ProgressInv /\ CoverInv /\ [Next]_vars
        => CoverInv'
  BY NextCover
<1> QED
  BY <1>1, <1>2, Invariance, QueueInvariance, BufferInvariance, ProgressInvariance,
     PTL DEF Spec

\* At the end of the image no occurrence is left to be found or compared.
LEMMA EndCovered ==
  ASSUME Inv, QueueInv, ProgressInv, pc = "end",
         NEW f \in Watched, NEW p \in 0..Len(image), Occurs(f, p), Seen(f, p)
  PROVE  Covered(out.desc, f, p)
<1> DEFINE len == Len(Content[f])
<1>1. /\ TypeOK /\ LoopOK /\ Claims /\ off \in Nat /\ n = 0 /\ Len(image) \in Nat
      /\ matches \in Seq(Match) /\ BlockLength \in Nat
  BY BufferTypes DEF Inv, LoopOK
<1>2. off = Len(image)
  BY <1>1 DEF ProgressInv, EofOK
<1>3. p \in Nat /\ len \in Nat /\ len >= BlockLength /\ p + len <= off
  BY <1>1, <1>2, OccursFacts
<1>4. ~(p + BlockLength > off)
  BY <1>1, <1>3
<1>5. ~Found(f, p)
  BY DEF QueueInv, TodoOK, Found
<1>6. ~Pending(matches, f, p)
  <2> SUFFICES ASSUME NEW m \in Entries(matches), m.startOff = p, m.filePart = f
               PROVE  FALSE
    BY DEF Pending
  <2>1. m.nextEv <= p + len /\ off < m.nextEv /\ m.nextEv \in Nat
    BY <1>1, EntryTypes, MatchTypes DEF Claims, EntryOK, QueueInv, EventsAhead
  <2> HIDE DEF len
  <2> QED
    BY <1>1, <1>3, <2>1
<1> QED
  BY <1>4, <1>5, <1>6 DEF Seen

\* Only unmatchedAtEnd() reports success.
LEMMA SuccessAtEnd ==
  ASSUME Inv, [Next]_vars, pc # "done", result' = "success"
  PROVE  Finish
<1>1. result = "none"
  BY DEF Inv
<1> QED
  BY <1>1
  DEF Next, ScanStep, Done, vars, ReadChunk, Schedule, RollByte, FastForward,
      CheckFile, ReachEvent, EventDue, Mismatch, NextBlock, IgnoreMatch, FileMatch,
      EventsDone, TemplateError, LoseFile, Fail, GoOn

\* Each step keeps EveryOccurrenceCovered.
LEMMA NextCovered ==
  Inv /\ QueueInv /\ ProgressInv /\ CoverInv /\ EveryOccurrenceCovered /\ [Next]_vars
    => EveryOccurrenceCovered'
<1> SUFFICES ASSUME Inv, QueueInv, ProgressInv, CoverInv, EveryOccurrenceCovered,
                    [Next]_vars, result' = "success", Undisturbed',
                    NEW f \in Watched, NEW p \in 0..Len(image'), Occurs(f, p)'
             PROVE  Covered(out'.desc, f, p)
  BY DEF EveryOccurrenceCovered, Undisturbed, Watched, Covered
<1>1. image' = image /\ Undisturbed
  BY Monotone DEF Undisturbed
<1>2. Occurs(f, p) /\ p \in 0..Len(image)
  BY <1>1 DEF Occurs
<1>3. CASE pc = "done"
  <2>1. out' = out /\ result = "success"
    BY <1>3, Monotone
  <2> QED
    BY <1>1, <1>2, <2>1 DEF EveryOccurrenceCovered, Undisturbed, Watched, Covered
<1>4. CASE pc # "done"
  <2>1. Finish /\ pc = "end"
    BY <1>4, SuccessAtEnd DEF Finish
  <2>2. Covered(out.desc, f, p)
    BY <1>1, <1>2, <1>4, <2>1, EndCovered DEF CoverInv
  <2>3. Grows(out.desc, out'.desc)
    BY NextGrows
  <2>4. out.desc \in Seq(DescEntry) /\ out'.desc \in Seq(DescEntry)
    BY <2>1, FinishInv DEF Inv, TypeOK, Output
  <2> QED
    BY <2>2, <2>3, <2>4, CoveredGrows
<1> QED
  BY <1>3, <1>4

\* No file is overlooked: when make-template succeeds, and neither the queue was
\* too small nor a file got lost, each place of the image where a file is found
\* overlaps with an area that is recorded as a match.
THEOREM OccurrencesAreCovered == Spec => []EveryOccurrenceCovered
<1>1. Init => EveryOccurrenceCovered
  BY DEF Init, EveryOccurrenceCovered
<1>2. Inv /\ QueueInv /\ ProgressInv /\ CoverInv /\ EveryOccurrenceCovered
        /\ [Next]_vars => EveryOccurrenceCovered'
  BY NextCovered
<1> QED
  BY <1>1, <1>2, Invariance, QueueInvariance, ProgressInvariance, CoverInvariance,
     PTL DEF Spec

-----------------------------------------------------------------------------
(* The template describes the image *)

\* Entry e of the DESC section gives the image data at its offset: it is the
\* content of a file, or template data from position a to position b.
Describes(e, z, a, b) ==
  /\ e.offset + e.size <= Len(image)
  /\ \/ /\ e.type = "matched" /\ b = a /\ e.size = Len(Content[e.file])
        /\ SameBytes(image, e.offset, Content[e.file], 0, e.size)
     \/ /\ e.type = "unmatched" /\ b = a + e.size
        /\ SameBytes(image, e.offset, z, a, e.size)

\* The first k entries give the first len bytes of the image one after the
\* other and use up the template data z: after entry i the image is described
\* up to at[i], with the template data up to pos[i].
Layout(d, k, z, len, at, pos) ==
  /\ at \in [0..k -> Nat] /\ at[0] = 0 /\ at[k] = len
  /\ pos \in [0..k -> 0..Len(z)] /\ pos[0] = 0 /\ pos[k] = Len(z)
  /\ \A i \in 1..k : /\ d[i].offset = at[i - 1] /\ at[i] = at[i - 1] + d[i].size
                     /\ Describes(d[i], z, pos[i - 1], pos[i])

LaidOut(d, k, z, len) == \E at, pos : Layout(d, k, z, len, at, pos)

OutputLaid(o) == LaidOut(o.desc, Len(o.desc), o.zip, o.descOff)

\* The elements of two sequences one after the other.
LEMMA ConcatAt ==
  ASSUME NEW s \in Seq(Byte), NEW t \in Seq(Byte)
  PROVE  /\ s \o t \in Seq(Byte) /\ Len(s \o t) = Len(s) + Len(t)
         /\ Len(s) \in Nat /\ Len(t) \in Nat
         /\ \A j \in 1..Len(s) : (s \o t)[j] = s[j]
         /\ \A j \in 1..Len(t) : (s \o t)[Len(s) + j] = t[j]
<1> DEFINE y == s \o t
           a == Len(s)
           b == Len(t)
<1>1. /\ y \in Seq(Byte) /\ Len(y) = a + b /\ a \in Nat /\ b \in Nat
      /\ \A i \in 1..(a + b) : y[i] = IF i <= a THEN s[i] ELSE t[i - a]
  BY ConcatProperties, LenProperties
<1> HIDE DEF y, a, b
<1>2. ASSUME NEW j \in 1..a PROVE y[j] = s[j]
  <2>1. j \in 1..(a + b) /\ j <= a
    BY <1>1
  <2> QED
    BY <1>1, <2>1
<1>3. ASSUME NEW j \in 1..b PROVE y[a + j] = t[j]
  <2> DEFINE i == a + j
  <2>1. i \in 1..(a + b) /\ ~(i <= a) /\ i - a = j
    BY <1>1
  <2> HIDE DEF i
  <2>2. y[i] = t[i - a]
    BY <1>1, <2>1
  <2> QED
    BY <2>1, <2>2 DEF i
<1> QED
  BY <1>1, <1>2, <1>3 DEF y, a, b

\* A function that is changed at one point.
LEMMA ChangedAt ==
  ASSUME NEW S, NEW T, NEW f \in [S -> T], NEW k \in S, NEW v \in T
  PROVE  /\ [f EXCEPT ![k] = v] \in [S -> T] /\ [f EXCEPT ![k] = v][k] = v
         /\ \A i \in S : i # k => [f EXCEPT ![k] = v][i] = f[i]
  OBVIOUS

\* More template data does not change what an entry gives.
LEMMA DescribesMore ==
  ASSUME NEW z \in Seq(Byte), NEW bytes \in Seq(Byte), NEW e \in DescEntry,
         e.type # "image", NEW a \in Nat, NEW b \in Nat, b <= Len(z),
         Describes(e, z, a, b)
  PROVE  Describes(e, z \o bytes, a, b)
<1>1. e.size \in Nat
  BY DEF DescEntry
<1>2. CASE e.type = "matched"
  BY <1>2 DEF Describes
<1>3. CASE e.type = "unmatched"
  <2>1. b = a + e.size /\ SameBytes(image, e.offset, z, a, e.size)
    BY <1>3 DEF Describes
  <2>2. ASSUME NEW j \in 1..e.size PROVE (z \o bytes)[a + j] = z[a + j]
    <3>1. a + j \in 1..Len(z)
      BY <1>1, <2>1, LenProperties
    <3> QED
      BY <3>1, ConcatProperties, LenProperties
  <2>3. SameBytes(image, e.offset, z \o bytes, a, e.size)
    BY <2>1, <2>2 DEF SameBytes
  <2> QED
    BY <1>3, <2>1, <2>3 DEF Describes
<1> QED
  BY <1>2, <1>3 DEF DescEntry

\* One more entry.
LEMMA LayoutAppend ==
  ASSUME NEW d \in Seq(DescEntry), NEW z \in Seq(Byte), NEW bytes \in Seq(Byte),
         NEW len \in Nat, LaidOut(d, Len(d), z, len),
         NEW e \in DescEntry, e.type # "image", e.offset = len,
         Describes(e, z \o bytes, Len(z), Len(z \o bytes)),
         NEW to \in Nat, to = len + e.size
  PROVE  LaidOut(Append(d, e), Len(d) + 1, z \o bytes, to)
<1> DEFINE k == Len(d)
           d2 == Append(d, e)
           z2 == z \o bytes
<1>1. PICK at, pos : Layout(d, k, z, len, at, pos)
  BY DEF LaidOut
<1> DEFINE at2 == [i \in 0..(k + 1) |-> IF i = k + 1 THEN to ELSE at[i]]
           pos2 == [i \in 0..(k + 1) |-> IF i = k + 1 THEN Len(z2) ELSE pos[i]]
<1>2. /\ k \in Nat /\ Len(z) \in Nat /\ z2 \in Seq(Byte) /\ Len(z2) \in Nat
      /\ Len(z) <= Len(z2) /\ e.size \in Nat
  <2>1. z2 \in Seq(Byte) /\ Len(z2) = Len(z) + Len(bytes) /\ Len(bytes) \in Nat
    BY ConcatProperties, LenProperties
  <2> QED
    BY <2>1, LenProperties DEF DescEntry
<1>3. /\ d2[k + 1] = e /\ \A i \in 1..k : d2[i] = d[i] /\ d[i] \in DescEntry
  BY <1>2, ElementOfSeq
<1>4. /\ at \in [0..k -> Nat] /\ at[0] = 0 /\ at[k] = len
      /\ pos \in [0..k -> 0..Len(z)] /\ pos[0] = 0 /\ pos[k] = Len(z)
      /\ \A i \in 1..k : /\ d[i].offset = at[i - 1] /\ at[i] = at[i - 1] + d[i].size
                         /\ Describes(d[i], z, pos[i - 1], pos[i])
  BY <1>1 DEF Layout
<1> HIDE DEF d2, z2, k
<1>5. /\ at2 \in [0..(k + 1) -> Nat] /\ at2[k + 1] = to
      /\ pos2 \in [0..(k + 1) -> 0..Len(z2)] /\ pos2[k + 1] = Len(z2)
      /\ \A i \in 0..k : at2[i] = at[i] /\ pos2[i] = pos[i]
  BY <1>2, <1>4, SMTT(30)
<1>6. at2[0] = 0 /\ pos2[0] = 0
  BY <1>2, <1>4, <1>5
<1> HIDE DEF at2, pos2
<1>7. ASSUME NEW i \in 1..(k + 1)
      PROVE  /\ d2[i].offset = at2[i - 1] /\ at2[i] = at2[i - 1] + d2[i].size
             /\ Describes(d2[i], z2, pos2[i - 1], pos2[i])
  <2>1. CASE i = k + 1
    <3>1. i - 1 = k /\ k \in 0..k
      BY <1>2, <2>1
    <3>2. at2[i - 1] = len /\ pos2[i - 1] = Len(z) /\ d2[i] = e
      BY <1>3, <1>4, <1>5, <2>1, <3>1
    <3>3. at2[i] = to /\ pos2[i] = Len(z2)
      BY <1>5, <2>1
    <3> QED
      BY <3>2, <3>3 DEF z2
  <2>2. CASE i # k + 1
    <3>1. i \in 1..k /\ i \in 0..k /\ i - 1 \in 0..k
      BY <1>2, <2>2
    <3>2. /\ at2[i] = at[i] /\ at2[i - 1] = at[i - 1] /\ pos2[i] = pos[i]
          /\ pos2[i - 1] = pos[i - 1] /\ d2[i] = d[i] /\ d[i] \in DescEntry
      BY <1>3, <1>5, <3>1
    <3>3. /\ d[i].offset = at[i - 1] /\ at[i] = at[i - 1] + d[i].size
          /\ Describes(d[i], z, pos[i - 1], pos[i])
          /\ pos[i] \in Nat /\ pos[i - 1] \in Nat /\ pos[i] <= Len(z)
      BY <1>2, <1>4, <3>1, SMTT(30)
    <3>4. d[i].type # "image"
      BY <3>3 DEF Describes
    <3> DEFINE a == pos[i - 1]
               b == pos[i]
               c == d[i]
    <3>5. /\ c \in DescEntry /\ c.type # "image" /\ a \in Nat /\ b \in Nat
          /\ b <= Len(z) /\ Describes(c, z, a, b)
      BY <3>2, <3>3, <3>4
    <3> HIDE DEF a, b, c
    <3>6. Describes(c, z \o bytes, a, b)
      BY <3>5, DescribesMore
    <3> QED
      BY <3>2, <3>3, <3>6 DEF z2, a, b, c
  <2> QED
    BY <2>1, <2>2
<1>8. Layout(d2, k + 1, z2, to, at2, pos2)
  BY <1>5, <1>6, <1>7 DEF Layout
<1> QED
  BY <1>8 DEF LaidOut, d2, z2, k

\* An unmatched area at the end grows.
LEMMA DescribesGrown ==
  ASSUME NEW z \in Seq(Byte), NEW bytes \in Seq(Byte), NEW e \in DescEntry,
         e.type = "unmatched", NEW a \in Nat, Describes(e, z, a, Len(z)),
         SameBytes(image, e.offset + e.size, bytes, 0, Len(bytes)),
         e.offset + e.size + Len(bytes) <= Len(image),
         NEW g, g.type = "unmatched", g.offset = e.offset, g.size = e.size + Len(bytes)
  PROVE  Describes(g, z \o bytes, a, Len(z \o bytes))
<1> DEFINE o == e.offset
           s == e.size
           l == Len(bytes)
           y == z \o bytes
<1>1. /\ o \in Nat /\ s \in Nat /\ l \in Nat /\ Len(z) \in Nat
      /\ Len(z) = a + s /\ SameBytes(image, o, z, a, s)
  BY LenProperties DEF DescEntry, Describes
<1>2. /\ y \in Seq(Byte) /\ Len(y) = Len(z) + l
      /\ \A j \in 1..Len(z) : y[j] = z[j]
      /\ \A j \in 1..l : y[Len(z) + j] = bytes[j]
  BY ConcatAt
<1>3. ASSUME NEW j \in 1..l PROVE image[o + s + j] = bytes[j]
  <2>1. 0 + j = j
    OBVIOUS
  <2> QED
    BY <2>1 DEF SameBytes
<1>4. o + (s + l) <= Len(image)
  BY <1>1, BufferTypes
<1> HIDE DEF o, s, l, y
<1>5. ASSUME NEW j \in 1..(s + l) PROVE image[o + j] = y[a + j]
  <2>1. CASE j <= s
    <3>1. a + j \in 1..Len(z) /\ j \in 1..s
      BY <1>1, <2>1
    <3> QED
      BY <1>1, <1>2, <3>1 DEF SameBytes
  <2>2. CASE ~(j <= s)
    <3> DEFINE i == j - s
    <3>1. i \in 1..l /\ Len(z) + i = a + j /\ o + s + i = o + j
      BY <1>1, <2>2
    <3> HIDE DEF i
    <3> QED
      BY <1>2, <1>3, <3>1
  <2> QED
    BY <2>1, <2>2
<1>6. SameBytes(image, o, y, a, s + l)
  BY <1>5 DEF SameBytes
<1>7. Len(y) = a + (s + l)
  BY <1>1, <1>2
<1> QED
  BY <1>4, <1>6, <1>7 DEF Describes, o, s, l, y

\* Then the last entry gives more of the image.
LEMMA LayoutGrow ==
  ASSUME NEW d \in Seq(DescEntry), NEW z \in Seq(Byte), NEW bytes \in Seq(Byte),
         NEW len \in Nat, LaidOut(d, Len(d), z, len),
         d # << >>, d[Len(d)].type = "unmatched",
         NEW to \in Nat, to = len + Len(bytes), to <= Len(image),
         SameBytes(image, len, bytes, 0, Len(bytes))
  PROVE  LaidOut([d EXCEPT ![Len(d)].size = @ + Len(bytes)], Len(d), z \o bytes, to)
<1> DEFINE k == Len(d)
           l == Len(bytes)
           e == d[k]
           g == [e EXCEPT !.size = @ + l]
           d2 == [d EXCEPT ![k] = g]
           z2 == z \o bytes
<1>1. PICK at, pos : Layout(d, k, z, len, at, pos)
  BY DEF LaidOut
<1> DEFINE at2 == [at EXCEPT ![k] = to]
           pos2 == [pos EXCEPT ![k] = Len(z2)]
<1>2. /\ k \in Nat /\ l \in Nat /\ Len(z) \in Nat /\ z2 \in Seq(Byte) /\ Len(z2) \in Nat
      /\ Len(z2) = Len(z) + l /\ k \in 1..k
  <2>1. z2 \in Seq(Byte) /\ Len(z2) = Len(z) + Len(bytes) /\ Len(bytes) \in Nat
    BY ConcatProperties, LenProperties
  <2>2. k \in 1..k
    BY EmptySeq
  <2> QED
    BY <2>1, <2>2, LenProperties
<1>3. /\ DOMAIN d = 1..k /\ e \in DescEntry /\ \A i \in 1..k : d[i] \in DescEntry
  BY <1>2, ElementOfSeq, LenProperties
<1>4. /\ e.offset \in Nat /\ e.size \in Nat /\ e.type = "unmatched"
      /\ g.type = "unmatched" /\ g.offset = e.offset /\ g.size = e.size + l
  BY <1>3 DEF DescEntry
<1>5. /\ at \in [0..k -> Nat] /\ at[0] = 0 /\ at[k] = len
      /\ pos \in [0..k -> 0..Len(z)] /\ pos[0] = 0 /\ pos[k] = Len(z)
      /\ \A i \in 1..k : /\ d[i].offset = at[i - 1] /\ at[i] = at[i - 1] + d[i].size
                         /\ Describes(d[i], z, pos[i - 1], pos[i])
  BY <1>1 DEF Layout
<1>6. /\ d2[k] = g /\ \A i \in 1..k : i # k => d2[i] = d[i]
  BY <1>2, <1>3
<1>7. k - 1 \in 0..k /\ k - 1 # k /\ k \in 0..k /\ 0 \in 0..k /\ 0 # k
  BY <1>2
<1>8. /\ len = e.offset + e.size /\ Describes(e, z, pos[k - 1], Len(z))
      /\ pos[k - 1] \in Nat /\ e.offset = at[k - 1]
  <2>1. /\ d[k].offset = at[k - 1] /\ at[k] = at[k - 1] + d[k].size
        /\ Describes(d[k], z, pos[k - 1], pos[k])
    BY <1>2, <1>5
  <2>2. pos[k - 1] \in Nat
    <3> DEFINE j == k - 1
    <3>1. j \in 0..k
      BY <1>7
    <3> HIDE DEF j, k
    <3>2. pos[j] \in 0..Len(z)
      BY <1>5, <3>1
    <3> QED
      BY <1>2, <3>2 DEF j
  <2> QED
    BY <1>5, <2>1, <2>2
<1>9. Describes(g, z2, pos[k - 1], Len(z2))
  <2> DEFINE a == pos[k - 1]
  <2>1. /\ e \in DescEntry /\ e.type = "unmatched" /\ a \in Nat /\ Describes(e, z, a, Len(z))
        /\ SameBytes(image, e.offset + e.size, bytes, 0, Len(bytes))
        /\ e.offset + e.size + Len(bytes) <= Len(image)
        /\ g.type = "unmatched" /\ g.offset = e.offset /\ g.size = e.size + Len(bytes)
    BY <1>3, <1>4, <1>8
  <2> HIDE DEF a, e, g, z2
  <2>2. Describes(g, z \o bytes, a, Len(z \o bytes))
    BY <2>1, DescribesGrown
  <2> QED
    BY <2>2 DEF a, z2
<1> HIDE DEF d2, z2, k, e, g, l
<1>10. /\ at2 \in [0..k -> Nat] /\ at2[k] = to
       /\ pos2 \in [0..k -> 0..Len(z2)] /\ pos2[k] = Len(z2)
       /\ \A i \in 0..k : i # k => at2[i] = at[i] /\ pos2[i] = pos[i]
  <2>1. at \in [0..k -> Nat] /\ k \in 0..k /\ to \in Nat
    BY <1>5, <1>7
  <2>2. /\ pos \in [0..k -> 0..Len(z2)] /\ Len(z2) \in 0..Len(z2)
    <3> DEFINE S == 0..k
               T == 0..Len(z)
               U == 0..Len(z2)
    <3>1. pos \in [S -> T] /\ T \subseteq U /\ Len(z2) \in U
      <4>1. T \subseteq U /\ Len(z2) \in U
        BY <1>2
      <4>2. pos \in [S -> T]
        BY <1>5
      <4> QED
        BY <4>1, <4>2
    <3> HIDE DEF S, T, U
    <3>2. pos \in [S -> U]
      BY <3>1
    <3> QED
      BY <3>1, <3>2 DEF S, U
  <2> HIDE DEF at2, pos2
  <2>3. /\ at2 \in [0..k -> Nat] /\ at2[k] = to
        /\ \A i \in 0..k : i # k => at2[i] = at[i]
    BY <2>1, ChangedAt DEF at2
  <2>4. /\ pos2 \in [0..k -> 0..Len(z2)] /\ pos2[k] = Len(z2)
        /\ \A i \in 0..k : i # k => pos2[i] = pos[i]
    BY <2>1, <2>2, ChangedAt DEF pos2
  <2> QED
    BY <2>3, <2>4
<1>11. at2[0] = 0 /\ pos2[0] = 0
  BY <1>5, <1>7, <1>10
<1> HIDE DEF at2, pos2
<1>12. ASSUME NEW i \in 1..k
       PROVE  /\ d2[i].offset = at2[i - 1] /\ at2[i] = at2[i - 1] + d2[i].size
              /\ Describes(d2[i], z2, pos2[i - 1], pos2[i])
  <2>1. CASE i = k
    <3>1. d2[i] = g /\ at2[i - 1] = at[k - 1] /\ pos2[i - 1] = pos[k - 1]
          /\ at2[i] = to /\ pos2[i] = Len(z2)
      BY <1>6, <1>7, <1>10, <2>1
    <3>2. to = len + l /\ to = e.offset + (e.size + l)
      BY <1>2, <1>4, <1>8, SMTT(30) DEF l
    <3> QED
      BY <1>4, <1>8, <1>9, <3>1, <3>2
  <2>2. CASE i # k
    <3>1. i \in 0..k /\ i - 1 \in 0..k /\ i - 1 # k
      BY <1>2, <2>2
    <3>2. /\ at2[i] = at[i] /\ at2[i - 1] = at[i - 1] /\ pos2[i] = pos[i]
          /\ pos2[i - 1] = pos[i - 1] /\ d2[i] = d[i] /\ d[i] \in DescEntry
      BY <1>3, <1>6, <1>10, <2>2, <3>1
    <3>3. /\ d[i].offset = at[i - 1] /\ at[i] = at[i - 1] + d[i].size
          /\ Describes(d[i], z, pos[i - 1], pos[i])
          /\ pos[i] \in Nat /\ pos[i - 1] \in Nat /\ pos[i] <= Len(z)
      <4>1. pos[i] \in 0..Len(z) /\ pos[i - 1] \in 0..Len(z)
        BY <1>5, <3>1
      <4> QED
        BY <1>2, <1>5, <4>1
    <3>4. d[i].type # "image"
      BY <3>3 DEF Describes
    <3> DEFINE a == pos[i - 1]
               b == pos[i]
               c == d[i]
    <3>5. /\ c \in DescEntry /\ c.type # "image" /\ a \in Nat /\ b \in Nat
          /\ b <= Len(z) /\ Describes(c, z, a, b)
      BY <3>2, <3>3, <3>4
    <3> HIDE DEF a, b, c
    <3>6. Describes(c, z \o bytes, a, b)
      BY <3>5, DescribesMore
    <3> QED
      BY <3>2, <3>3, <3>6 DEF z2, a, b, c
  <2> QED
    BY <2>1, <2>2
<1>13. Layout(d2, k, z2, to, at2, pos2)
  BY <1>10, <1>11, <1>12 DEF Layout
<1>14. d2 = [d EXCEPT ![Len(d)].size = @ + Len(bytes)]
  BY DEF d2, g, e, k, l
<1> QED
  BY <1>13, <1>14 DEF LaidOut, z2, k

\* An area of image data that follows what is laid out is laid out, too.
LEMMA AreaLaid ==
  ASSUME NEW o \in Output, Settled(o), OutputLaid(o), NEW o2, NEW to, NEW bytes,
         IsArea(o, o2, to, bytes), Len(bytes) = to - o.start, to <= Len(image),
         SameBytes(image, o.start, bytes, 0, to - o.start)
  PROVE  OutputLaid(o2)
<1> DEFINE d == o.desc
           z == o.zip
           s == o.start
           l == to - s
<1>1. /\ d \in Seq(DescEntry) /\ z \in Seq(Byte) /\ s \in Nat /\ o.descOff = s
      /\ to \in Nat /\ s <= to /\ bytes \in Seq(Byte) /\ Len(d) \in Nat
      /\ LaidOut(d, Len(d), z, s)
  BY LenProperties DEF Output, Settled, IsArea, OutputLaid
<1>2. /\ o2.desc = AddUnmatched(d, s, l) /\ o2.zip = z \o bytes /\ o2.descOff = to
  BY <1>1, SMTT(30) DEF IsArea, Area
<1>3. l \in Nat /\ Len(bytes) = l /\ s + l = to
  BY <1>1
<1>4. SameBytes(image, s, bytes, 0, l)
  OBVIOUS
<1> HIDE DEF d, z, s, l
<1>5. CASE d # << >> /\ d[Len(d)].type = "unmatched"
  <2> DEFINE d2 == [d EXCEPT ![Len(d)].size = @ + Len(bytes)]
  <2>1. LaidOut(d2, Len(d), z \o bytes, to)
    <3>1. to = s + Len(bytes) /\ SameBytes(image, s, bytes, 0, Len(bytes))
      BY <1>3, <1>4
    <3> QED
      BY <1>1, <1>5, <3>1, LayoutGrow
  <2>2. o2.desc = d2
    BY <1>2, <1>3, <1>5 DEF AddUnmatched
  <2>3. Len(d2) = Len(d)
    BY <1>1
  <2> QED
    BY <1>2, <2>1, <2>2, <2>3 DEF OutputLaid
<1>6. CASE ~(d # << >> /\ d[Len(d)].type = "unmatched")
  <2> DEFINE e == Unmatched(s, l)
             y == z \o bytes
  <2>1. /\ e \in DescEntry /\ e.type = "unmatched" /\ e.offset = s /\ e.size = l
    BY <1>1, <1>3 DEF Unmatched, DescEntry
  <2>2. o2.desc = Append(d, e)
    BY <1>2, <1>6 DEF AddUnmatched
  <2>3. /\ Len(y) = Len(z) + l /\ Len(z) \in Nat
        /\ \A j \in 1..l : y[Len(z) + j] = bytes[j]
    BY <1>1, <1>3, ConcatAt
  <2> HIDE DEF e, y
  <2>4. SameBytes(image, s, y, Len(z), l)
    <3>1. ASSUME NEW j \in 1..l PROVE image[s + j] = y[Len(z) + j]
      <4>1. 0 + j = j
        OBVIOUS
      <4> QED
        BY <1>4, <2>3, <4>1 DEF SameBytes
    <3> QED
      BY <3>1 DEF SameBytes
  <2>5. Describes(e, y, Len(z), Len(y))
    BY <1>3, <2>1, <2>3, <2>4 DEF Describes
  <2>6. LaidOut(Append(d, e), Len(d) + 1, z \o bytes, to)
    <3>1. Describes(e, z \o bytes, Len(z), Len(z \o bytes))
      BY <2>5 DEF y
    <3>2. e.type # "image" /\ to = s + e.size
      BY <1>3, <2>1
    <3> QED
      BY <1>1, <2>1, <3>1, <3>2, LayoutAppend
  <2>7. Len(Append(d, e)) = Len(d) + 1
    BY <1>1, <2>1
  <2> QED
    BY <1>2, <2>2, <2>6, <2>7 DEF OutputLaid
<1> QED
  BY <1>5, <1>6

\* A matched file that follows what is laid out is laid out, too.
LEMMA MatchLaid ==
  ASSUME NEW o \in Output, OutputLaid(o), NEW p \in Nat, o.descOff = p,
         NEW f \in Files, p + Len(Content[f]) <= Len(image),
         SameBytes(image, p, Content[f], 0, Len(Content[f]))
  PROVE  OutputLaid(MatchArea(o, p, f))
<1> DEFINE d == o.desc
           z == o.zip
           l == Len(Content[f])
           e == Matched(p, f)
           o2 == MatchArea(o, p, f)
           to == p + l
<1>1. /\ d \in Seq(DescEntry) /\ z \in Seq(Byte) /\ Len(d) \in Nat /\ l \in Nat
      /\ LaidOut(d, Len(d), z, p) /\ to \in Nat
  BY FileFacts, LenProperties DEF Output, OutputLaid
<1>2. /\ o2.desc = Append(d, e) /\ o2.zip = z /\ o2.descOff = to
  BY DEF MatchArea, Output
<1>3. /\ e \in DescEntry /\ e.type = "matched" /\ e.offset = p /\ e.size = l
      /\ e.file = f
  BY <1>1 DEF Matched, DescEntry
<1> HIDE DEF e, o2
<1>4. Describes(e, z, Len(z), Len(z))
  BY <1>3 DEF Describes
<1>5. z \o << >> = z /\ << >> \in Seq(Byte)
  BY <1>1
<1>6. LaidOut(Append(d, e), Len(d) + 1, z \o << >>, to)
  <2>1. Describes(e, z \o << >>, Len(z), Len(z \o << >>))
    BY <1>4, <1>5
  <2>2. e.type # "image" /\ to = p + e.size
    BY <1>3
  <2> HIDE DEF d, z, to, l
  <2> QED
    BY <1>1, <1>3, <1>5, <2>1, <2>2, LayoutAppend
<1>7. Len(Append(d, e)) = Len(d) + 1
  BY <1>1, <1>3
<1> QED
  BY <1>2, <1>5, <1>6, <1>7 DEF OutputLaid, o2

\* What has been compared of a partial match is equal to its file.
PrefixOK(m) == SameBytes(image, m.startOff, Content[m.filePart], 0, MatchedLen(m))

PrefixInv == \A m \in Entries(matches) : PrefixOK(m)

\* A new entry has nothing compared yet.
LEMMA CheckFilePrefix ==
  ASSUME Inv, PrefixInv, CheckFile
  PROVE  PrefixInv'
<1>1. PICK i \in todo :
        Entries(matches') \subseteq Entries(matches) \cup {NewMatch(FileSeq[i])}
  BY CheckFileFacts
<1> DEFINE x == NewMatch(FileSeq[i])
<1>2. image' = image
  BY DEF CheckFile, imageVars
<1>3. PrefixOK(x)
  <2>1. x.blockNr = 0
    BY DEF NewMatch
  <2> HIDE DEF x
  <2>2. MatchedLen(x) = 0
    BY <2>1, ScanAssumption DEF MatchedLen
  <2> QED
    BY <2>2 DEF PrefixOK, SameBytes
<1> HIDE DEF x
<1>4. \A m \in Entries(matches') : PrefixOK(m)
  BY <1>1, <1>3 DEF PrefixInv, x
<1> QED
  BY <1>2, <1>4 DEF PrefixInv, PrefixOK, SameBytes

\* Bytes that follow equal bytes.
LEMMA SameBytesJoin ==
  ASSUME NEW s, NEW t, NEW i \in Nat, NEW k \in Nat, NEW len \in Nat,
         SameBytes(s, i, t, 0, k), SameBytes(s, i + k, t, k, len)
  PROVE  SameBytes(s, i, t, 0, k + len)
<1> SUFFICES ASSUME NEW j \in 1..(k + len) PROVE s[i + j] = t[0 + j]
  BY DEF SameBytes
<1>1. CASE j <= k
  BY <1>1 DEF SameBytes
<1>2. CASE ~(j <= k)
  <2> DEFINE c == j - k
  <2>1. c \in 1..len /\ i + k + c = i + j /\ k + c = 0 + j
    BY <1>2
  <2> HIDE DEF c
  <2> QED
    BY <2>1 DEF SameBytes
<1> QED
  BY <1>1, <1>2

\* A block that matches extends what has been compared up to the current byte.
LEMMA BlockPrefix ==
  ASSUME Inv, BufferInv, PrefixInv, EventDue, BlockMatches(matches[1])
  PROVE  LET x == matches[1]
         IN SameBytes(image, x.startOff, Content[x.filePart], 0, off - x.startOff)
<1> DEFINE x == matches[1]
           f == x.filePart
           p == x.startOff
           k == MatchedLen(x)
           c == Content[f]
           len == off - p - k
<1>1. x \in Entries(matches) /\ p \in Nat /\ off \in Nat
  BY EventFacts
<1>2. k \in Nat /\ k < off - p /\ SameBytes(image, p + k, c, k, len)
  BY BlockIs
<1>3. SameBytes(image, p, c, 0, k)
  BY <1>1 DEF PrefixInv, PrefixOK
<1> HIDE DEF x, f, p, k, c
<1>4. len \in Nat /\ k + len = off - p
  BY <1>1, <1>2
<1> HIDE DEF len
<1>5. SameBytes(image, p, c, 0, k + len)
  BY <1>1, <1>2, <1>3, <1>4, SameBytesJoin DEF len
<1> QED
  BY <1>4, <1>5 DEF x, f, p, c

\* So the entry of a block that matched stays right.
LEMMA NextBlockPrefix ==
  ASSUME Inv, BufferInv, PrefixInv, NextBlock
  PROVE  PrefixInv'
<1> DEFINE x == matches[1]
           y == NextEntry(x, data, NextEv(x))
<1>1. /\ x \in Entries(matches) /\ x.nextEv = off
      /\ off < x.startOff + Len(Content[x.filePart])
      /\ y \in Match /\ y.startOff = x.startOff /\ y.blockNr = x.blockNr + 1
      /\ y.filePart = x.filePart
      /\ Entries(matches') = Others(matches, 1) \cup {y}
  BY NextBlockFacts
<1>2. EventDue /\ BlockMatches(x) /\ image' = image
  BY DEF NextBlock, imageVars
<1>3. x \in Match /\ x.startOff \in Nat /\ off \in Nat
  BY <1>2, EventFacts
<1>4. SameBytes(image, x.startOff, Content[x.filePart], 0, off - x.startOff)
  BY <1>2, BlockPrefix
<1>5. off = Min2(BlockStart(x) + CsumBlockLength, x.startOff + Len(Content[x.filePart]))
  BY <1>1 DEF BufferInv, BlockOK
<1>6. /\ BlockStart(x) \in Nat /\ Len(Content[x.filePart]) \in Nat
      /\ CsumBlockLength \in Nat /\ x.blockNr \in Nat
  BY <1>3, BlockTypes, MatchTypes, ScanAssumption
<1>7. off = BlockStart(x) + CsumBlockLength
  BY <1>1, <1>3, <1>5, <1>6 DEF Min2
<1>8. MatchedLen(y) = off - x.startOff
  <2>1. (x.blockNr + 1) * CsumBlockLength = x.blockNr * CsumBlockLength + CsumBlockLength
    BY <1>6
  <2>2. x.blockNr * CsumBlockLength \in Nat
    BY <1>6
  <2> HIDE DEF y, x
  <2>3. BlockStart(x) = x.startOff + x.blockNr * CsumBlockLength
    BY DEF BlockStart
  <2>4. MatchedLen(y) = x.blockNr * CsumBlockLength + CsumBlockLength
    BY <1>1, <2>1 DEF MatchedLen
  <2> DEFINE c == x.blockNr * CsumBlockLength
  <2>5. c \in Nat /\ off = x.startOff + c + CsumBlockLength /\ MatchedLen(y) = c + CsumBlockLength
    BY <1>7, <2>2, <2>3, <2>4
  <2> HIDE DEF c
  <2> QED
    BY <1>3, <1>6, <2>5
<1> HIDE DEF y
<1>9. PrefixOK(y)
  BY <1>1, <1>4, <1>8 DEF PrefixOK
<1>10. \A m \in Others(matches, 1) : PrefixOK(m)
  BY DEF PrefixInv, Others, Entries
<1> QED
  BY <1>1, <1>2, <1>9, <1>10 DEF PrefixInv, PrefixOK, SameBytes

\* PrefixInv is inductive, given the invariants before it.
LEMMA NextPrefix ==
  Inv /\ BufferInv /\ PrefixInv /\ [Next]_vars => PrefixInv'
<1> SUFFICES ASSUME Inv, BufferInv, PrefixInv, [Next]_vars PROVE PrefixInv'
  OBVIOUS
<1>1. image' = image
  BY Monotone
<1>2. CASE Entries(matches') \subseteq Entries(matches)
  BY <1>1, <1>2 DEF PrefixInv, PrefixOK, SameBytes
<1>3. CASE CheckFile
  BY <1>3, CheckFilePrefix
<1>4. CASE NextBlock
  BY <1>4, NextBlockPrefix
<1>5. CASE Mismatch \/ IgnoreMatch
  <2>1. EventDue /\ matches' = EraseFront(matches)
    BY <1>5 DEF Mismatch, IgnoreMatch
  <2> QED
    BY <1>2, <2>1, EventFacts, RestFacts
<1>6. CASE FileMatch
  <2>1. matches' \in {matches, EraseStartOffsetLess(matches, off)} /\ EventDue
    BY <1>6 DEF FileMatch
  <2>2. EraseStartOffsetLess(matches, off) = << >>
    BY <2>1, EventFacts, NothingPending
  <2> QED
    BY <1>2, <2>1, <2>2, NoEntries
<1>7. CASE matches' = matches
  BY <1>2, <1>7
<1> QED
  BY <1>3, <1>4, <1>5, <1>6, <1>7
  DEF Next, ScanStep, Done, vars, queueVars, ReadChunk, Schedule, RollByte,
      FastForward, ReachEvent, EventsDone, Finish, TemplateError, LoseFile

\* PrefixInv holds of every state the scan can reach.
THEOREM PrefixInvariance == Spec => []PrefixInv
<1>1. Init => PrefixInv
  BY NoEntries DEF Init, PrefixInv
<1>2. Inv /\ BufferInv /\ PrefixInv /\ [Next]_vars => PrefixInv'
  BY NextPrefix
<1> QED
  BY <1>1, <1>2, Invariance, BufferInvariance, PTL DEF Spec

\* What writeBuf() takes out of the buffer is image data.
LEMMA BufferedIs ==
  ASSUME TypeOK, Held, Placed, NEW s \in Nat, NEW to \in Nat, s < to, to <= off,
         off + n - BufferLength <= s
  PROVE  /\ Len(Buffered(s, to - s)) = to - s
         /\ SameBytes(image, s, Buffered(s, to - s), 0, to - s)
<1> DEFINE w == ModSub(data, off - s)
           l == to - s
           e == ModAdd(w, l)
           bytes == Buffered(s, l)
<1>1. /\ off \in Nat /\ n \in Nat /\ data \in Nat /\ data <= BufferLength
      /\ BufferLength \in Nat \ {0} /\ image \in Seq(Byte) /\ Len(image) \in Nat
      /\ off + n <= Len(image)
  BY BufferTypes
<1>2. /\ l \in 1..BufferLength /\ off - s \in 1..BufferLength /\ s + l = to
      /\ to <= Len(image)
  BY <1>1
<1>3. /\ w \in 0..(BufferLength - 1)
      /\ w = data - (off - s) \/ w = data - (off - s) + BufferLength
  BY <1>1, <1>2 DEF ModSub
<1>4. /\ e \in 0..(BufferLength - 1)
      /\ e = w + l \/ e = w + l - BufferLength
  <2> HIDE DEF w, l
  <2> QED
    BY <1>1, <1>2, <1>3 DEF ModAdd
<1>5. bytes = BufRange(w, e)
  BY DEF Buffered
<1>6. Slot(w) = Slot(s)
  <2> DEFINE a == data - (off - s)
             c == off - s
  <2>1. a \in Int /\ c \in Int /\ data \in Int /\ off \in Int /\ a = data - c
        /\ off - c = s
    BY <1>1, <1>3
  <2>2. Slot(a) = Slot(s)
    <3>1. Slot(data) = Slot(off) /\ Slot(c) = Slot(c)
      BY DEF Placed
    <3>2. Slot(data - c) = Slot(off - c)
      <4>1. c \in Int /\ data \in Int /\ off \in Int
        BY <2>1
      <4> HIDE DEF c
      <4> QED
        BY <3>1, <4>1, SlotDiff, SMTT(30)
    <3> QED
      BY <2>1, <3>2
  <2> HIDE DEF a, c, w
  <2>3. Slot(a + BufferLength) = Slot(a)
    <3>1. a \in Int
      BY <2>1
    <3> QED
      BY <3>1, SlotTurn
  <2>4. w = a \/ w = a + BufferLength
    BY <1>3 DEF a
  <2> QED
    BY <2>2, <2>3, <2>4
<1>7. Slot(e) = Slot(to)
  <2> DEFINE x == w + l
             y == s + l
  <2>1. w \in Int /\ l \in Int /\ s \in Int /\ x \in Int /\ y = to
        /\ x - BufferLength \in Int /\ x = x - BufferLength + BufferLength
    BY <1>1, <1>2, <1>3, SMTT(30)
  <2>2. Slot(x) = Slot(y)
    <3> HIDE DEF w, l
    <3> QED
      BY <1>6, <2>1, SlotShift, Zenon
  <2>3. e = x \/ e = x - BufferLength
    <3> HIDE DEF e
    <3>1. e = w + l \/ e = w + l - BufferLength
      BY <1>4
    <3> HIDE DEF w, l
    <3> QED
      BY <1>1, <2>1, <3>1
  <2> HIDE DEF x, y, e
  <2>4. Slot(x - BufferLength) = Slot(x)
    <3> DEFINE v == x - BufferLength
    <3>1. v \in Int /\ v + BufferLength = x
      BY <1>1, <2>1
    <3> HIDE DEF v
    <3>2. Slot(v + BufferLength) = Slot(v)
      BY <3>1, SlotTurn
    <3> QED
      BY <3>1, <3>2 DEF v
  <2> QED
    BY <2>1, <2>2, <2>3, <2>4
<1> HIDE DEF w, e, l, bytes
<1>8. BufRange(w, e) = SubSeq(image, s + 1, to)
  <2>1. /\ w \in 0..BufferLength /\ e \in 0..BufferLength
        /\ to - s <= BufferLength /\ w < BufferLength /\ to <= off + n
    BY <1>1, <1>2, <1>3, <1>4 DEF l
  <2> QED
    BY <1>6, <1>7, <2>1, BufRangeIs
<1>9. bytes = SubSeq(image, s + 1, to) /\ s + 1 <= to
  BY <1>5, <1>8
<1>10. /\ bytes \in Seq(Byte) /\ Len(bytes) = l
       /\ \A j \in 1..l : bytes[j] = image[s + j]
  <2> DEFINE q == SubSeq(image, s + 1, to)
  <2>1. \A i \in (s + 1)..to : image[i] \in Byte
    BY <1>1, <1>2, ElementOfSeq
  <2>2. /\ q \in Seq(Byte)
        /\ Len(q) = IF s + 1 <= to THEN to - (s + 1) + 1 ELSE 0
        /\ \A j \in 1..(to - (s + 1) + 1) : q[j] = image[(s + 1) + j - 1]
    BY <1>1, <2>1, SubSeqProperties
  <2> HIDE DEF q
  <2>3. to - (s + 1) + 1 = l
    BY <1>2 DEF l
  <2>4. ASSUME NEW j \in 1..l PROVE q[j] = image[s + j]
    <3>1. (s + 1) + j - 1 = s + j
      OBVIOUS
    <3> QED
      BY <2>2, <2>3, <3>1
  <2> QED
    BY <1>9, <2>2, <2>3, <2>4 DEF q
<1>11. SameBytes(image, s, bytes, 0, l)
  <2> SUFFICES ASSUME NEW j \in 1..l PROVE image[s + j] = bytes[0 + j]
    BY DEF SameBytes
  <2>1. 0 + j = j
    OBVIOUS
  <2> QED
    BY <1>10, <2>1
<1> QED
  BY <1>10, <1>11 DEF l, bytes

\* A flush of buffered data is laid out.
LEMMA FlushLaid ==
  ASSUME TypeOK, Held, Placed, NEW o \in Output, Settled(o), OutputLaid(o),
         NEW to \in Nat, to <= off,
         o.start < to => off + n - BufferLength <= o.start
  PROVE  OutputLaid(Flush(o, to))
<1>1. o.start \in Nat /\ off \in Nat /\ n \in Nat /\ off + n <= Len(image)
      /\ Len(image) \in Nat
  BY BufferTypes DEF Output
<1>2. CASE Flush(o, to) = o
  BY <1>2
<1>3. CASE /\ o.start < to
           /\ IsArea(o, Flush(o, to), to, Buffered(o.start, to - o.start))
  <2> DEFINE bytes == Buffered(o.start, to - o.start)
             s == o.start
  <2>1. Len(bytes) = to - s /\ SameBytes(image, s, bytes, 0, to - s) /\ to <= Len(image)
    <3> HIDE DEF bytes, s
    <3>1. s \in Nat /\ s < to /\ off + n - BufferLength <= s /\ to <= Len(image)
      BY <1>1, <1>3 DEF s
    <3> QED
      BY <3>1, BufferedIs DEF bytes, s
  <2> HIDE DEF bytes
  <2> QED
    BY <1>3, <2>1, AreaLaid DEF bytes
<1> QED
  BY <1>2, <1>3, FlushIsArea

\* What a re-read gets out of the file of a partial match is image data, as far
\* as it has been compared.
LEMMA RereadIs ==
  ASSUME TypeOK, PrefixInv, NEW m \in Entries(matches), NEW to \in Nat,
         m.startOff <= to, to <= BlockStart(m), CanReread(m.filePart, to - m.startOff)
  PROVE  LET bytes == RereadData(m.filePart, to - m.startOff)
         IN /\ Len(bytes) = to - m.startOff
            /\ SameBytes(image, m.startOff, bytes, 0, to - m.startOff)
<1> DEFINE p == m.startOff
           c == Content[m.filePart]
           l == to - p
           k == MatchedLen(m)
           bytes == RereadData(m.filePart, l)
<1>1. /\ m \in Match /\ p \in Nat /\ m.filePart \in Files /\ m.blockNr \in Nat
      /\ c \in Seq(Byte) /\ Len(c) \in Nat /\ BlockStart(m) \in Nat
  BY BufferTypes, EntryTypes, MatchTypes, BlockTypes
<1>2. BlockStart(m) = p + k /\ k \in Nat /\ l \in Nat
  <2>1. k \in Nat
    BY <1>1, ScanAssumption DEF MatchedLen
  <2> QED
    BY <1>1, <2>1 DEF BlockStart, MatchedLen
<1>3. Len(bytes) = l
  BY DEF CanReread
<1>4. SameBytes(image, p, c, 0, k)
  BY DEF PrefixInv, PrefixOK
<1>5. ASSUME NEW j \in 1..l PROVE bytes[j] = c[j]
  <2>1. bytes # << >>
    BY <1>2, <1>3, <1>5
  <2> DEFINE h == Min2(l, Len(c))
  <2>2. bytes = SubSeq(c, 1, h)
    BY <2>1 DEF RereadData
  <2>3. h \in Nat /\ h <= Len(c)
    BY <1>1, <1>2 DEF Min2
  <2> HIDE DEF bytes, c, h, l
  <2>4. \A i \in 1..h : c[i] \in Byte
    BY <1>1, <2>3, ElementOfSeq
  <2>5. /\ Len(bytes) = IF 1 <= h THEN h - 1 + 1 ELSE 0
        /\ \A i \in 1..(h - 1 + 1) : bytes[i] = c[1 + i - 1]
    BY <1>1, <2>2, <2>3, <2>4, SubSeqProperties
  <2>6. j \in 1..(h - 1 + 1) /\ 1 + j - 1 = j
    BY <1>2, <1>3, <1>5, <2>3, <2>5
  <2> QED
    BY <2>5, <2>6
<1> HIDE DEF bytes, c, p, l, k
<1>6. l <= k
  BY <1>1, <1>2 DEF l
<1>7. SameBytes(image, p, bytes, 0, l)
  <2> SUFFICES ASSUME NEW j \in 1..l PROVE image[p + j] = bytes[0 + j]
    BY DEF SameBytes
  <2>1. 0 + j = j /\ j \in 1..k
    BY <1>2, <1>6
  <2> QED
    BY <1>4, <1>5, <2>1 DEF SameBytes
<1> QED
  BY <1>3, <1>7 DEF bytes, p, l

\* What has left the buffer of a partial match has been compared.
LEMMA RereadLimit ==
  ASSUME Inv, QueueInv, BufferInv, pc \in {"event", "end"}, NEW m \in Entries(matches)
  PROVE  /\ off - StillBuffered <= BlockStart(m)
         /\ off + n - BufferLength <= BlockStart(m)
         /\ BlockStart(m) <= off /\ BlockStart(m) \in Nat
<1>1. /\ TypeOK /\ off \in Nat /\ n \in Nat /\ m \in Match /\ BlockStart(m) \in Nat
      /\ BufferLength \in Nat /\ m.nextEv \in Nat
      /\ CsumBlockLength \in Nat /\ n <= ReadAmount /\ ReadAmount \in Nat
      /\ m.startOff \in Nat /\ Len(Content[m.filePart]) \in Nat
  BY BufferTypes, EntryTypes, BlockTypes, MatchTypes DEF Inv, LoopOK
<1>2. off <= m.nextEv
  BY <1>1 DEF QueueInv, EventsAhead
<1>3. m.nextEv <= BlockStart(m) + CsumBlockLength /\ BlockStart(m) <= off
  BY <1>1 DEF BufferInv, BlockOK, Min2
<1>4. CsumBlockLength + n <= BufferLength
  <2>1. /\ BufferHalf \in Nat /\ BufferHalf >= CsumBlockLength
        /\ BufferHalf >= ReadAmount
    BY ScanAssumption DEF BufferHalf, Max2
  <2> QED
    BY <1>1, <2>1, BufferLengthHalves
<1>5. \/ off - StillBuffered = 0
      \/ off - StillBuffered = off + n - BufferLength
  BY <1>1, KeptFacts
<1> QED
  BY <1>1, <1>2, <1>3, <1>4, <1>5

\* A re-read that succeeds is laid out.
LEMMA RereadLaid ==
  ASSUME Inv, QueueInv, BufferInv, PrefixInv, OutputLaid(out), pc \in {"event", "end"},
         NEW m \in Entries(matches), m.startOff = out.start,
         NEW to, to <= BlockStart(m), NEW o,
         IsArea(out, o, to, RereadData(m.filePart, to - out.start)),
         CanReread(m.filePart, to - out.start)
  PROVE  OutputLaid(o)
<1> DEFINE bytes == RereadData(m.filePart, to - out.start)
<1>1. /\ TypeOK /\ Settled(out) /\ out \in Output /\ to \in Nat /\ out.start <= to
      /\ off \in Nat /\ n \in Nat /\ off + n <= Len(image) /\ Len(image) \in Nat
  BY BufferTypes DEF Inv, IsArea
<1>2. Len(bytes) = to - out.start /\ SameBytes(image, out.start, bytes, 0, to - out.start)
  BY <1>1, RereadIs
<1>3. to <= Len(image)
  BY <1>1, RereadLimit
<1> HIDE DEF bytes
<1> QED
  BY <1>1, <1>2, <1>3, AreaLaid DEF bytes

\* While the scan runs, what has been disposed of is described.
TemplateInv == pc # "done" => OutputLaid(out)

\* The promise of make-template, without a fold: when it reports success, the
\* last DESC entry is the ImageInfo, and the entries before it give the image
\* byte by byte out of the files and all of the template data.
ImageDescribed ==
  result = "success" =>
    \E k \in Nat : /\ Len(out.desc) = k + 1
                   /\ out.desc[k + 1] = ImageInfo(Len(image))
                   /\ LaidOut(out.desc, k, out.zip, Len(image))

\* Facts that the actions have in common.
LEMMA LaidTypes ==
  ASSUME Inv, BufferInv, TemplateInv, pc # "done"
  PROVE  /\ TypeOK /\ Held /\ Placed /\ Claims /\ Settled(out) /\ OutputLaid(out)
         /\ FlushOK /\ out \in Output /\ out.start \in Nat /\ off \in Nat /\ n \in Nat
         /\ BufferLength \in Nat /\ matches \in Seq(Match)
  BY BufferTypes DEF Inv, BufferInv, TemplateInv

\* Before a read, nothing is flushed that a pending match claims.
LEMMA ReadChunkLaid ==
  ASSUME Inv, BufferInv, TemplateInv, ReadChunk
  PROVE  OutputLaid(out')
<1>1. pc = "read" /\ out' = Flush(out, NewUnmatchedStart)
  BY DEF ReadChunk
<1>2. /\ TypeOK /\ Held /\ Placed /\ Claims /\ Settled(out) /\ OutputLaid(out)
      /\ FlushOK /\ out \in Output /\ out.start \in Nat /\ off \in Nat /\ n \in Nat
      /\ BufferLength \in Nat /\ BlockLength \in Nat
  BY <1>1, LaidTypes, BufferTypes
<1> DEFINE to == NewUnmatchedStart
<1>3. /\ to \in Nat /\ to <= off
      /\ \A m \in Entries(matches) : to <= m.startOff
  <2>1. /\ to \in Nat /\ to <= Max2(off - BlockLength, 0)
        /\ \A m \in Entries(matches) : to <= m.startOff
    BY <1>2, FlushLimit
  <2> HIDE DEF to
  <2> QED
    BY <1>2, <2>1 DEF Max2
<1> HIDE DEF to
<1>4. out.start < to => off + n - BufferLength <= out.start
  <2> SUFFICES ASSUME out.start < to PROVE off + n - BufferLength <= out.start
    OBVIOUS
  <2>1. ~\E m \in Entries(matches) : m.startOff = out.start
    BY <1>2, <1>3
  <2> QED
    BY <1>2, <2>1 DEF FlushOK
<1>5. OutputLaid(Flush(out, to))
  BY <1>2, <1>3, <1>4, FlushLaid
<1> QED
  BY <1>1, <1>5 DEF to

\* A mismatch writes out what has been compared of the file.
LEMMA MismatchLaid ==
  ASSUME Inv, QueueInv, BufferInv, PrefixInv, TemplateInv, Mismatch, pc' # "done"
  PROVE  OutputLaid(out')
<1> DEFINE x == matches[1]
           bytes == RereadData(x.filePart, RereadEnd - out.start)
<1>1. EventDue /\ pc = "event"
  BY DEF Mismatch, EventDue
<1>2. OutputLaid(out) /\ x \in Entries(matches) /\ TypeOK /\ off \in Nat
  BY <1>1, EventFacts DEF TemplateInv
<1>3. \/ out' = out
      \/ /\ x.startOff = out.start /\ RereadEnd <= off - StillBuffered
         /\ IsArea(out, out', RereadEnd, bytes)
         /\ CanReread(x.filePart, RereadEnd - out.start)
  BY MismatchOutput
<1>4. CASE /\ x.startOff = out.start /\ RereadEnd <= off - StillBuffered
           /\ IsArea(out, out', RereadEnd, bytes)
           /\ CanReread(x.filePart, RereadEnd - out.start)
  <2> HIDE DEF x
  <2>1. RereadEnd \in Nat
    BY <1>4 DEF IsArea
  <2>2. /\ off - StillBuffered <= BlockStart(x) /\ BlockStart(x) \in Nat
        /\ off - StillBuffered \in Nat
    BY <1>1, <1>2, RereadLimit, KeptFacts
  <2>3. RereadEnd <= BlockStart(x)
    BY <1>4, <2>1, <2>2
  <2> QED
    BY <1>1, <1>2, <1>4, <2>3, RereadLaid
<1> QED
  BY <1>2, <1>3, <1>4

\* A match is recorded after what precedes it.
LEMMA FileMatchLaid ==
  ASSUME Inv, QueueInv, BufferInv, PrefixInv, TemplateInv, FileMatch, pc' # "done"
  PROVE  OutputLaid(out')
<1> DEFINE x == matches[1]
           f == x.filePart
           p == x.startOff
           oldest == matches[LowestStartOffset(matches)]
           end == MatchRereadEnd
           kept == off - StillBuffered
           bytes == RereadData(oldest.filePart, end - out.start)
<1>1. EventDue /\ BlockMatches(x) /\ pc = "event"
  BY DEF FileMatch, EventDue
<1>2. /\ TypeOK /\ Held /\ Placed /\ Claims /\ Settled(out) /\ OutputLaid(out)
      /\ FlushOK /\ out \in Output /\ out.start \in Nat /\ off \in Nat /\ n \in Nat
      /\ BufferLength \in Nat /\ matches \in Seq(Match)
  BY <1>1, LaidTypes
<1>3. matches # << >> /\ x \in Entries(matches) /\ p \in Nat /\ f \in Files
  BY <1>1, EventFacts
<1>4. /\ oldest \in Entries(matches) /\ oldest.startOff \in Nat
      /\ \A m \in Entries(matches) : oldest.startOff <= m.startOff /\ m.startOff \in Nat
  BY <1>2, <1>3, OldestFacts, EntryTypes, MatchTypes
<1>5. kept \in Nat /\ kept <= off /\ kept >= off + n - BufferLength
      /\ kept <= BlockStart(oldest) /\ BlockStart(oldest) \in Nat
  BY <1>1, <1>2, <1>4, KeptFacts, RereadLimit
<1>6. p + Len(Content[f]) = off /\ Len(Content[f]) \in Nat
  BY <1>3, FileFacts, FileMatchOutput
<1>7. PICK o \in Output :
        /\ o.start <= p
        /\ \/ /\ o = out
              /\ LowestStartOffset(matches) = 1 \/ oldest.startOff >= kept
           \/ /\ oldest.startOff = out.start
              /\ IsArea(out, o, end, bytes)
              /\ CanReread(oldest.filePart, end - out.start)
        /\ Flush(o, p) \in Output /\ Flush(o, p).descOff = p
        /\ out' = MatchArea(Flush(o, p), p, f)
  BY FileMatchOutput
<1>8. end = Min2(kept, p)
  BY DEF MatchRereadEnd
<1> HIDE DEF x, f, p, oldest, kept, end
<1>9. end \in Nat /\ end <= kept /\ end <= p /\ end \in {kept, p}
  BY <1>3, <1>5, <1>8 DEF Min2
<1>10. OutputLaid(o) /\ Settled(o) /\ (o.start < p => off + n - BufferLength <= o.start)
  <2>1. CASE /\ o = out
             /\ LowestStartOffset(matches) = 1 \/ oldest.startOff >= kept
    <3>1. ASSUME out.start < p PROVE off + n - BufferLength <= out.start
      <4>1. CASE \E m \in Entries(matches) : m.startOff = out.start
        <5>1. PICK m \in Entries(matches) : m.startOff = out.start
          BY <4>1
        <5>2. oldest.startOff <= out.start
          BY <1>4, <5>1
        <5>3. CASE LowestStartOffset(matches) = 1
          <6>1. oldest.startOff = p
            BY <5>3 DEF oldest, p, x
          <6> QED
            BY <1>2, <1>3, <3>1, <5>2, <6>1
        <5>4. CASE oldest.startOff >= kept
          BY <1>2, <1>4, <1>5, <5>2, <5>4
        <5> QED
          BY <2>1, <5>3, <5>4
      <4> QED
        BY <1>2, <4>1 DEF FlushOK
    <3> QED
      BY <1>2, <2>1, <3>1
  <2>2. CASE /\ oldest.startOff = out.start /\ IsArea(out, o, end, bytes)
             /\ CanReread(oldest.filePart, end - out.start)
    <3>1. end <= BlockStart(oldest)
      BY <1>5, <1>9
    <3>2. OutputLaid(o)
      BY <1>1, <1>2, <1>4, <2>2, <3>1, RereadLaid
    <3>3. Settled(o) /\ o.start = end
      <4> HIDE DEF bytes
      <4>1. o = Area(out, out.start, end, bytes) /\ bytes \in Seq(Byte) /\ out.start <= end
        BY <2>2 DEF IsArea
      <4> QED
        BY <1>2, <1>9, <4>1, AreaFacts
    <3> QED
      BY <1>3, <1>5, <1>9, <3>2, <3>3
  <2> QED
    BY <1>7, <2>1, <2>2
<1>11. OutputLaid(Flush(o, p))
  <2>1. p <= off
    BY <1>2, <1>3, <1>6
  <2> QED
    BY <1>2, <1>3, <1>10, <2>1, FlushLaid
<1>12. SameBytes(image, p, Content[f], 0, Len(Content[f]))
  <2>1. SameBytes(image, p, Content[f], 0, off - p)
    BY <1>1, BlockPrefix DEF x, p, f
  <2>2. off - p = Len(Content[f])
    BY <1>2, <1>3, <1>6
  <2> QED
    BY <2>1, <2>2
<1>13. p + Len(Content[f]) <= Len(image)
  BY <1>2, <1>6, BufferTypes
<1>14. OutputLaid(MatchArea(Flush(o, p), p, f))
  BY <1>3, <1>7, <1>11, <1>12, <1>13, MatchLaid
<1> QED
  BY <1>7, <1>14

\* TemplateInv is inductive, given the invariants before it.
LEMMA NextTemplate ==
  Inv /\ QueueInv /\ BufferInv /\ PrefixInv /\ TemplateInv /\ [Next]_vars
    => TemplateInv'
<1> SUFFICES ASSUME Inv, QueueInv, BufferInv, PrefixInv, TemplateInv, [Next]_vars,
                    pc' # "done"
             PROVE  OutputLaid(out)'
  BY DEF TemplateInv
<1>1. image' = image /\ pc # "done"
  BY Monotone
<1>2. OutputLaid(out)
  BY <1>1 DEF TemplateInv
<1>3. ASSUME OutputLaid(out') PROVE OutputLaid(out)'
  <2> DEFINE d == out'.desc
             z == out'.zip
  <2>1. PICK at, pos : Layout(d, Len(d), z, out'.descOff, at, pos)
    BY <1>3 DEF OutputLaid, LaidOut
  <2>2. \A i \in 1..Len(d) : Describes(d[i], z, pos[i - 1], pos[i])
                               => Describes(out.desc[i], out.zip, pos[i - 1], pos[i])'
    BY <1>1 DEF Describes, SameBytes
  <2>3. Layout(out.desc, Len(out.desc), out.zip, out.descOff, at, pos)'
    BY <2>1, <2>2 DEF Layout
  <2> QED
    BY <2>3 DEF OutputLaid, LaidOut
<1>4. CASE ReadChunk
  BY <1>3, <1>4, ReadChunkLaid
<1>5. CASE Mismatch
  BY <1>3, <1>5, MismatchLaid
<1>6. CASE FileMatch
  BY <1>3, <1>6, FileMatchLaid
<1>7. CASE Finish \/ TemplateError
  BY <1>7 DEF Finish, TemplateError, Fail
<1>8. CASE out' = out
  BY <1>2, <1>3, <1>8
<1> QED
  BY <1>4, <1>5, <1>6, <1>7, <1>8
  DEF Next, ScanStep, Done, vars, Schedule, RollByte, FastForward, CheckFile,
      ReachEvent, NextBlock, IgnoreMatch, EventsDone, LoseFile

\* Nothing is described at the beginning.
LEMMA InitTemplate == Init => TemplateInv
<1> SUFFICES ASSUME Init PROVE OutputLaid(out)
  BY DEF TemplateInv
<1>1. out.desc = << >> /\ out.zip = << >> /\ out.descOff = 0
  BY DEF Init
<1>2. Len(out.desc) = 0 /\ Len(out.zip) = 0
  BY <1>1, EmptySeq
<1> DEFINE zero == [i \in 0..0 |-> 0]
<1>3. Layout(out.desc, 0, out.zip, 0, zero, zero)
  BY <1>2 DEF Layout
<1> QED
  BY <1>1, <1>2, <1>3 DEF OutputLaid, LaidOut

\* TemplateInv holds of every state the scan can reach.
THEOREM TemplateInvariance == Spec => []TemplateInv
<1>1. Init => TemplateInv
  BY InitTemplate
<1>2. Inv /\ QueueInv /\ BufferInv /\ PrefixInv /\ TemplateInv /\ [Next]_vars
        => TemplateInv'
  BY NextTemplate
<1> QED
  BY <1>1, <1>2, Invariance, QueueInvariance, BufferInvariance, PrefixInvariance,
     PTL DEF Spec

\* An entry after the first k ones does not matter.
LEMMA LaidOutPrefix ==
  ASSUME NEW d \in Seq(DescEntry), NEW z, NEW len, LaidOut(d, Len(d), z, len),
         NEW e \in DescEntry
  PROVE  /\ LaidOut(Append(d, e), Len(d), z, len)
         /\ Len(Append(d, e)) = Len(d) + 1 /\ Append(d, e)[Len(d) + 1] = e
<1> DEFINE k == Len(d)
           d2 == Append(d, e)
<1>1. PICK at, pos : Layout(d, k, z, len, at, pos)
  BY DEF LaidOut
<1>2. k \in Nat /\ Len(d2) = k + 1 /\ d2[k + 1] = e /\ \A i \in 1..k : d2[i] = d[i]
  BY LenProperties
<1> HIDE DEF k, d2
<1>3. Layout(d2, k, z, len, at, pos)
  BY <1>1, <1>2 DEF Layout
<1> QED
  BY <1>2, <1>3 DEF LaidOut, d2, k

\* unmatchedAtEnd() finds the match at out.start if the data is not buffered.
LEMMA EndBuffered ==
  ASSUME Inv, BufferInv, pc = "end", out.start < off, EndReread = {}
  PROVE  off + n - BufferLength <= out.start
<1>1. /\ TypeOK /\ FlushOK /\ off \in Nat /\ n = 0 /\ out.start \in Nat
      /\ BufferLength \in Nat /\ matches \in Seq(Match) /\ image \in Images
      /\ off <= Len(image) /\ Len(image) \in Nat /\ Word \in Nat \ {0}
  <2>1. TypeOK /\ LoopOK /\ image \in Images /\ FlushOK
    BY DEF Inv, BufferInv
  <2> QED
    BY <2>1, BufferTypes, Constants DEF LoopOK
<1>2. off < Word
  BY <1>1, ScanAssumption
<1>3. CASE \E m \in Entries(matches) : m.startOff = out.start
  <2> DEFINE S == {i \in 1..Len(matches) : matches[i].startOff = out.start}
  <2>1. S \in SUBSET Nat /\ S # {}
    BY <1>1, <1>3 DEF Entries
  <2>2. PICK i \in S : \A j \in S : i <= j
    BY <2>1, MinExists
  <2>3. \A j \in 1..(i - 1) : matches[j].startOff # out.start
    <3> SUFFICES ASSUME NEW j \in 1..(i - 1), matches[j].startOff = out.start
                 PROVE  FALSE
      OBVIOUS
    <3>1. i \in 1..Len(matches) /\ Len(matches) \in Nat
      BY <1>1, <2>2
    <3>2. j \in S /\ j < i
      BY <3>1
    <3> QED
      BY <2>2, <3>1, <3>2
  <2>4. i \in DOMAIN matches /\ matches[i].startOff = out.start
    BY <1>1, <2>2
  <2>5. ~(out.start < Minus(off, BufferLength))
    BY <2>3, <2>4 DEF EndReread
  <2>6. CASE off >= BufferLength
    <3>1. Minus(off, BufferLength) = off - BufferLength
      BY <1>1, <1>2, <2>6 DEF Minus
    <3> QED
      BY <1>1, <2>5, <2>6, <3>1
  <2>7. CASE off < BufferLength
    BY <1>1, <2>7
  <2> QED
    BY <1>1, <2>6, <2>7
<1>4. CASE ~\E m \in Entries(matches) : m.startOff = out.start
  BY <1>1, <1>4 DEF FlushOK
<1> QED
  BY <1>3, <1>4

\* The description is one of the image, which never changes.
LEMMA DescribedAfter ==
  ASSUME image' = image, NEW CONSTANT k \in Nat, Len(out'.desc) = k + 1,
         out'.desc[k + 1] = ImageInfo(Len(image)),
         LaidOut(out'.desc, k, out'.zip, Len(image))
  PROVE  ImageDescribed'
<1> DEFINE c == out'.desc
           z == out'.zip
<1>1. PICK at, pos : Layout(c, k, z, Len(image), at, pos)
  BY DEF LaidOut
<1>2. \A i \in 1..k : Describes(c[i], z, pos[i - 1], pos[i])
                        => Describes(out.desc[i], out.zip, pos[i - 1], pos[i])'
  BY DEF Describes, SameBytes
<1>3. Layout(out.desc, k, out.zip, Len(image), at, pos)'
  BY <1>1, <1>2 DEF Layout
<1>4. LaidOut(out.desc, k, out.zip, Len(image))'
  BY <1>3 DEF LaidOut
<1> QED
  BY <1>4 DEF ImageDescribed

\* At the end of the image, the rest of it is written out.
LEMMA FinishDescribed ==
  ASSUME Inv, QueueInv, BufferInv, ProgressInv, PrefixInv, TemplateInv, Finish,
         result' = "success"
  PROVE  ImageDescribed'
<1>1. pc = "end" /\ image' = image
  BY DEF Finish, imageVars
<1>2. /\ TypeOK /\ Held /\ Placed /\ Claims /\ Settled(out) /\ OutputLaid(out)
      /\ FlushOK /\ out \in Output /\ out.start \in Nat /\ off \in Nat /\ n \in Nat
      /\ BufferLength \in Nat /\ matches \in Seq(Match)
  BY <1>1, LaidTypes
<1>3. n = 0 /\ off = Len(image)
  BY <1>1, <1>2 DEF Inv, LoopOK, ProgressInv, EofOK
<1>4. PICK o \in Output :
        /\ \/ o = out /\ (out.start < off => EndReread = {})
           \/ \E y \in Entries(matches), to \in Nat :
                /\ y.startOff = out.start
                /\ IsArea(out, o, to, RereadData(y.filePart, to - out.start))
                /\ to = off - BufferLength
                /\ CanReread(y.filePart, to - out.start)
        /\ o.start <= off
        /\ Flush(o, off) \in Output /\ Flush(o, off).start = off
        /\ out' = [Flush(o, off) EXCEPT !.desc = Append(@, ImageInfo(off))]
  BY FinishOutput
<1>5. OutputLaid(o) /\ Settled(o) /\ (o.start < off => off + n - BufferLength <= o.start)
  <2>1. CASE o = out /\ (out.start < off => EndReread = {})
    BY <1>1, <1>2, <2>1, EndBuffered
  <2>2. ASSUME NEW y \in Entries(matches), NEW to \in Nat, y.startOff = out.start,
               IsArea(out, o, to, RereadData(y.filePart, to - out.start)),
               to = off - BufferLength, CanReread(y.filePart, to - out.start)
        PROVE  OutputLaid(o) /\ Settled(o) /\ off + n - BufferLength <= o.start
    <3> DEFINE bytes == RereadData(y.filePart, to - out.start)
    <3>1. to <= BlockStart(y)
      BY <1>1, <1>2, <1>3, <2>2, RereadLimit
    <3>2. OutputLaid(o)
      BY <1>1, <1>2, <2>2, <3>1, RereadLaid
    <3> HIDE DEF bytes
    <3>3. o = Area(out, out.start, to, bytes) /\ bytes \in Seq(Byte) /\ out.start <= to
      BY <2>2 DEF IsArea, bytes
    <3>4. Settled(o) /\ o.start = to
      BY <1>2, <2>2, <3>3, AreaFacts
    <3> QED
      BY <1>2, <1>3, <2>2, <3>2, <3>4
  <2> QED
    BY <1>4, <2>1, <2>2
<1> DEFINE o2 == Flush(o, off)
           d == o2.desc
           k == Len(d)
           e == ImageInfo(off)
<1>6. OutputLaid(o2) /\ Settled(o2)
  BY <1>2, <1>5, FlushLaid, FlushFacts
<1>7. d \in Seq(DescEntry) /\ e \in DescEntry /\ k \in Nat
  BY <1>2, <1>4, LenProperties DEF Output, ImageInfo, DescEntry
<1>8. LaidOut(d, k, o2.zip, off)
  <2>1. o2.descOff = off
    BY <1>4, <1>6 DEF Settled
  <2> QED
    BY <1>6, <2>1 DEF OutputLaid
<1>9. out'.desc = Append(d, e) /\ out'.zip = o2.zip
  BY <1>4 DEF Output
<1> HIDE DEF o2, e
<1>10. /\ LaidOut(Append(d, e), k, o2.zip, off)
       /\ Len(Append(d, e)) = k + 1 /\ Append(d, e)[k + 1] = e
  BY <1>7, <1>8, LaidOutPrefix
<1>11. /\ Len(out'.desc) = k + 1 /\ out'.desc[k + 1] = ImageInfo(Len(image))
       /\ LaidOut(out'.desc, k, out'.zip, Len(image))
  BY <1>3, <1>9, <1>10 DEF e
<1> HIDE DEF d, k
<1>12. PICK i \in Nat :
         /\ Len(out'.desc) = i + 1 /\ out'.desc[i + 1] = ImageInfo(Len(image))
         /\ LaidOut(out'.desc, i, out'.zip, Len(image))
  BY <1>7, <1>11
<1> QED
  BY <1>1, <1>12, DescribedAfter

\* Each step keeps ImageDescribed.
LEMMA NextDescribed ==
  Inv /\ QueueInv /\ BufferInv /\ ProgressInv /\ PrefixInv /\ TemplateInv
    /\ ImageDescribed /\ [Next]_vars => ImageDescribed'
<1> SUFFICES ASSUME Inv, QueueInv, BufferInv, ProgressInv, PrefixInv, TemplateInv,
                    ImageDescribed, [Next]_vars, result' = "success"
             PROVE  ImageDescribed'
  BY DEF ImageDescribed
<1>1. CASE pc = "done"
  <2>1. image' = image /\ out' = out /\ result = "success"
    BY <1>1, Monotone
  <2>2. PICK k \in Nat : /\ Len(out'.desc) = k + 1
                         /\ out'.desc[k + 1] = ImageInfo(Len(image))
                         /\ LaidOut(out'.desc, k, out'.zip, Len(image))
    BY <2>1 DEF ImageDescribed
  <2> QED
    BY <2>1, <2>2, DescribedAfter
<1>2. CASE pc # "done"
  BY <1>2, SuccessAtEnd, FinishDescribed
<1> QED
  BY <1>1, <1>2

\* When make-template reports success, the files and the template give back the
\* image: the DESC entries follow each other from the first byte of the image
\* to the last one, a matched entry's file has exactly the bytes of that place,
\* and the template data has those of the unmatched entries, none left over.
THEOREM ImageIsDescribed == Spec => []ImageDescribed
<1>1. Init => ImageDescribed
  BY DEF Init, ImageDescribed
<1>2. Inv /\ QueueInv /\ BufferInv /\ ProgressInv /\ PrefixInv /\ TemplateInv
        /\ ImageDescribed /\ [Next]_vars => ImageDescribed'
  BY NextDescribed
<1> QED
  BY <1>1, <1>2, Invariance, QueueInvariance, BufferInvariance, ProgressInvariance,
     PrefixInvariance, TemplateInvariance, PTL DEF Spec

-----------------------------------------------------------------------------
(* What make-image rebuilds is the image *)

\* The elements of a part of a sequence.
LEMMA SubSeqAt ==
  ASSUME NEW s \in Seq(Byte), NEW i \in Nat, NEW len \in Nat, i + len <= Len(s)
  PROVE  /\ SubSeq(s, i + 1, i + len) \in Seq(Byte)
         /\ Len(SubSeq(s, i + 1, i + len)) = len
         /\ \A k \in 1..len : SubSeq(s, i + 1, i + len)[k] = s[i + k]
<1> DEFINE a == SubSeq(s, i + 1, i + len)
<1>1. \A k \in (i + 1)..(i + len) : s[k] \in Byte
  BY LenProperties, ElementOfSeq
<1>2. /\ a \in Seq(Byte)
      /\ Len(a) = IF i + 1 <= i + len THEN (i + len) - (i + 1) + 1 ELSE 0
      /\ \A k \in 1..((i + len) - (i + 1) + 1) : a[k] = s[(i + 1) + k - 1]
  <2> DEFINE p == i + 1
             m == i + len
  <2>1. p \in Int /\ m \in Int /\ \A k \in p..m : s[k] \in Byte
    BY <1>1
  <2> HIDE DEF p, m
  <2>2. /\ SubSeq(s, p, m) \in Seq(Byte)
        /\ Len(SubSeq(s, p, m)) = IF p <= m THEN m - p + 1 ELSE 0
        /\ \A k \in 1..(m - p + 1) : SubSeq(s, p, m)[k] = s[p + k - 1]
    BY <2>1, SubSeqProperties
  <2> QED
    BY <2>2 DEF p, m
<1> HIDE DEF a
<1>3. (i + len) - (i + 1) + 1 = len /\ \A k \in 1..len : (i + 1) + k - 1 = i + k
  OBVIOUS
<1>4. Len(a) = len
  BY <1>2, <1>3
<1>5. \A k \in 1..len : a[k] = s[i + k]
  BY <1>2, <1>3
<1> QED
  BY <1>2, <1>4, <1>5, Zenon DEF a

\* The beginning of a sequence and what follows it.
LEMMA PrefixConcat ==
  ASSUME NEW s \in Seq(Byte), NEW t \in Seq(Byte), NEW a \in Nat, NEW b \in Nat,
         b = a + Len(t), b <= Len(s), SameBytes(s, a, t, 0, Len(t))
  PROVE  SubSeq(s, 1, a) \o t = SubSeq(s, 1, b)
<1> DEFINE l == Len(t)
           p == SubSeq(s, 1, a)
           q == SubSeq(s, 1, b)
           y == p \o t
<1>1. l \in Nat /\ Len(s) \in Nat
  BY LenProperties
<1>2. ASSUME NEW c \in Nat, c <= Len(s)
      PROVE  /\ SubSeq(s, 1, c) \in Seq(Byte) /\ Len(SubSeq(s, 1, c)) = c
             /\ \A k \in 1..c : SubSeq(s, 1, c)[k] = s[k]
  <2>1. 0 + 1 = 1 /\ 0 + c = c /\ \A k \in 1..c : 0 + k = k
    OBVIOUS
  <2>2. 0 + c <= Len(s) /\ 0 \in Nat
    BY <1>2
  <2>3. /\ SubSeq(s, 0 + 1, 0 + c) \in Seq(Byte) /\ Len(SubSeq(s, 0 + 1, 0 + c)) = c
        /\ \A k \in 1..c : SubSeq(s, 0 + 1, 0 + c)[k] = s[0 + k]
    BY <2>2, SubSeqAt, Zenon
  <2> QED
    BY <2>1, <2>3
<1>3. a <= Len(s)
  BY <1>1
<1>4. p \in Seq(Byte) /\ Len(p) = a /\ \A k \in 1..a : p[k] = s[k]
  BY <1>2, <1>3
<1>5. q \in Seq(Byte) /\ Len(q) = b /\ \A k \in 1..b : q[k] = s[k]
  BY <1>2
<1> HIDE DEF p, q
<1>6. /\ y \in Seq(Byte) /\ Len(y) = a + l
      /\ \A j \in 1..a : y[j] = p[j]
      /\ \A j \in 1..l : y[a + j] = t[j]
  BY <1>4, ConcatAt
<1> HIDE DEF y, l
<1>7. ASSUME NEW j \in 1..b PROVE y[j] = q[j]
  <2>1. CASE j <= a
    <3>1. j \in 1..a
      BY <2>1
    <3> QED
      BY <1>4, <1>5, <1>6, <3>1
  <2>2. CASE ~(j <= a)
    <3> DEFINE i == j - a
    <3>1. i \in 1..l /\ a + i = j /\ 0 + i = i
      BY <1>1, <2>2 DEF l
    <3> HIDE DEF i
    <3>2. y[a + i] = t[i]
      BY <1>6, <3>1
    <3>3. s[a + i] = t[0 + i]
      BY <3>1 DEF SameBytes, l
    <3> QED
      BY <1>5, <3>1, <3>2, <3>3
  <2> QED
    BY <2>1, <2>2
<1>8. Len(y) = b
  BY <1>6 DEF l
<1>9. y = q
  BY <1>5, <1>6, <1>7, <1>8, SeqEqual
<1> QED
  BY <1>9 DEF y, p, q

\* A part of the template data that is the next part of the image extends the
\* beginning of the image that was written.
LEMMA SubSeqPlaced ==
  ASSUME image \in Seq(Byte), NEW z \in Seq(Byte), NEW a \in Nat, NEW l \in Nat,
         a + l <= Len(z), NEW c \in Nat, NEW to \in Nat, to = c + l,
         to <= Len(image), SameBytes(image, c, z, a, l)
  PROVE  SubSeq(image, 1, c) \o SubSeq(z, a + 1, a + l) = SubSeq(image, 1, to)
<1>1. \E t : /\ t = SubSeq(z, a + 1, a + l)
             /\ t \in Seq(Byte) /\ Len(t) = l /\ \A k \in 1..l : t[k] = z[a + k]
  <2>1. /\ SubSeq(z, a + 1, a + l) \in Seq(Byte)
        /\ Len(SubSeq(z, a + 1, a + l)) = l
        /\ \A k \in 1..l : SubSeq(z, a + 1, a + l)[k] = z[a + k]
    BY SubSeqAt
  <2> QED
    BY <2>1, Zenon
<1>2. PICK t : /\ t = SubSeq(z, a + 1, a + l)
               /\ t \in Seq(Byte) /\ Len(t) = l /\ \A k \in 1..l : t[k] = z[a + k]
  BY <1>1
<1>3. SameBytes(image, c, t, 0, l)
  <2> SUFFICES ASSUME NEW k \in 1..l PROVE image[c + k] = t[0 + k]
    BY DEF SameBytes
  <2>1. 0 + k = k
    OBVIOUS
  <2> QED
    BY <1>2, <2>1 DEF SameBytes
<1>4. SubSeq(image, 1, c) \o t = SubSeq(image, 1, to)
  <2>1. /\ to = c + Len(t) /\ SameBytes(image, c, t, 0, Len(t))
        /\ t \in Seq(Byte)
    BY <1>2, <1>3
  <2> QED
    BY <2>1, PrefixConcat, Zenon
<1> QED
  BY <1>2, <1>4

\* The beginning of the image.
Beginning(i) == SubSeq(image, 1, i)

\* An entry that describes the image extends the image by its place.
LEMMA ExtendIs ==
  ASSUME image \in Seq(Byte), NEW z \in Seq(Byte), NEW e \in DescEntry,
         NEW a \in Nat, NEW b \in Nat, b <= Len(z), Describes(e, z, a, b)
  PROVE  Extend([img |-> Beginning(e.offset), pos |-> a], e, z)
           = [img |-> Beginning(e.offset + e.size), pos |-> b]
<1> DEFINE c == e.offset
           to == e.offset + e.size
           acc == [img |-> Beginning(c), pos |-> a]
<1>1. /\ e.type # "image" /\ e.size \in Nat /\ c \in Nat /\ to = c + e.size
      /\ to \in Nat /\ to <= Len(image) /\ Len(z) \in Nat
  BY LenProperties DEF DescEntry, Describes
<1>2. acc = [img |-> SubSeq(image, 1, c), pos |-> a]
  BY DEF Beginning
<1>3. CASE e.type = "matched"
  <2> DEFINE t == Content[e.file]
  <2>1. b = a /\ e.size = Len(t) /\ SameBytes(image, c, t, 0, Len(t)) /\ t \in Seq(Byte)
    BY <1>3, FileFacts DEF Describes, DescEntry
  <2>2. Extend(acc, e, z) = [img |-> SubSeq(image, 1, c) \o t, pos |-> a]
    BY <1>2, <1>3 DEF Extend
  <2> HIDE DEF t, c, to, acc
  <2>3. SubSeq(image, 1, c) \o t = SubSeq(image, 1, to)
    BY <1>1, <2>1, PrefixConcat
  <2> QED
    BY <2>1, <2>2, <2>3 DEF acc, to, c, Beginning
<1>4. CASE e.type = "unmatched"
  <2> DEFINE l == e.size
             t == SubSeq(z, a + 1, a + l)
  <2>1. /\ b = a + l /\ SameBytes(image, c, z, a, l) /\ l \in Nat
        /\ a + l <= Len(z) /\ to = c + l
    BY <1>1, <1>4 DEF Describes
  <2>2. Min2(a + l, Len(z)) = a + l
    BY <1>1, <2>1 DEF Min2
  <2>3. Extend(acc, e, z) = [img |-> SubSeq(image, 1, c) \o t, pos |-> a + l]
    BY <1>2, <1>4, <2>2 DEF Extend
  <2> HIDE DEF l, c, to, acc
  <2>4. SubSeq(image, 1, c) \o t = SubSeq(image, 1, to)
    <3>1. /\ c \in Nat /\ to \in Nat /\ to <= Len(image) /\ l \in Nat
          /\ a + l <= Len(z) /\ to = c + l /\ SameBytes(image, c, z, a, l)
      BY <1>1, <2>1
    <3> QED
      BY <3>1, SubSeqPlaced, SMTT(30)
  <2> HIDE DEF t
  <2> QED
    BY <2>1, <2>3, <2>4 DEF acc, to, c, Beginning
<1> QED
  BY <1>1, <1>3, <1>4 DEF DescEntry

\* What follows the definition of the accumulation over the first k entries.
Accumulates(g, d, z, k) ==
  g = [i \in 0..k |-> IF i = 0 THEN [img |-> << >>, pos |-> 0]
                      ELSE Extend(g[i - 1], d[i], z)]

\* From entry to entry.
LEMMA AccumulatesAt ==
  ASSUME NEW g, NEW d, NEW z, NEW k \in Nat, Accumulates(g, d, z, k)
  PROVE  /\ g[0] = [img |-> << >>, pos |-> 0]
         /\ \A i \in 1..k : g[i] = Extend(g[i - 1], d[i], z)
BY DEF Accumulates

\* The accumulation is what any function is that follows its definition.
LEMMA RebuildUnique ==
  ASSUME NEW d \in Seq(DescEntry), NEW z, NEW k \in Nat, Len(d) = k, NEW g,
         Accumulates(g, d, z, k)
  PROVE  Rebuild(d, z) = g[k]
<1> DEFINE f == CHOOSE h : Accumulates(h, d, z, Len(d))
<1>1. Accumulates(f, d, z, k)
  <2>1. \E h : Accumulates(h, d, z, Len(d))
    OBVIOUS
  <2>2. Accumulates(f, d, z, Len(d))
    BY <2>1, Zenon
  <2> QED
    BY <2>2
<1>2. Rebuild(d, z) = f[Len(d)]
  BY Zenon DEF Rebuild, Accumulates
<1> HIDE DEF f
<1>3. \A i \in 0..k : f[i] = g[i]
  <2> SUFFICES ASSUME NEW j \in 0..k, f[j] # g[j] PROVE FALSE
    OBVIOUS
  <2> DEFINE S == {i \in 0..k : f[i] # g[i]}
  <2>1. S \subseteq Nat /\ S # {}
    OBVIOUS
  <2>2. PICK m \in S : \A i \in S : m <= i
    BY <2>1, MinExists
  <2>3. m \in 0..k /\ f[m] # g[m]
    BY <2>2
  <2>4. m # 0
    BY <1>1, <2>3, AccumulatesAt
  <2>5. f[m - 1] = g[m - 1]
    <3>1. m - 1 \in 0..k /\ ~(m <= m - 1)
      BY <2>3, <2>4
    <3> QED
      BY <2>2, <3>1
  <2>6. /\ f[m] = Extend(f[m - 1], d[m], z) /\ g[m] = Extend(g[m - 1], d[m], z)
    <3>1. m \in 1..k
      BY <2>3, <2>4
    <3> QED
      BY <1>1, <3>1, AccumulatesAt
  <2> QED
    BY <2>3, <2>5, <2>6
<1> QED
  BY <1>2, <1>3

\* A layout is rebuilt as the image.
LEMMA LayoutRebuilt ==
  ASSUME image \in Seq(Byte), NEW d \in Seq(DescEntry), NEW z \in Seq(Byte),
         NEW k \in Nat, Len(d) = k + 1, d[k + 1].type = "image",
         LaidOut(d, k, z, Len(image))
  PROVE  Rebuild(d, z) = [img |-> image, pos |-> Len(z)]
<1>1. PICK at, pos : Layout(d, k, z, Len(image), at, pos)
  BY DEF LaidOut
<1>2. /\ at \in [0..k -> Nat] /\ at[0] = 0 /\ at[k] = Len(image)
      /\ pos \in [0..k -> 0..Len(z)] /\ pos[0] = 0 /\ pos[k] = Len(z)
      /\ \A i \in 1..k : /\ d[i].offset = at[i - 1] /\ at[i] = at[i - 1] + d[i].size
                         /\ Describes(d[i], z, pos[i - 1], pos[i])
  BY <1>1 DEF Layout
<1> DEFINE r(i) == [img |-> Beginning(at[i]), pos |-> pos[i]]
           g == [i \in 0..(k + 1) |-> IF i = k + 1 THEN r(k) ELSE r(i)]
           zero == [img |-> << >>, pos |-> 0]
<1>3. r(0) = zero
  BY <1>2 DEF Beginning
<1>4. ASSUME NEW i \in 1..k PROVE r(i) = Extend(r(i - 1), d[i], z)
  <2> DEFINE e == d[i]
             a == pos[i - 1]
             b == pos[i]
  <2>1. i \in 0..k /\ i - 1 \in 0..k /\ i \in 1..Len(d) /\ Len(z) \in Nat
    BY LenProperties
  <2>2. a \in Nat /\ b \in Nat /\ b <= Len(z)
    BY <1>2, <2>1
  <2>3. e \in DescEntry
    BY <2>1, ElementOfSeq
  <2>4. Describes(e, z, a, b)
    BY <1>2
  <2>5. e.offset = at[i - 1] /\ e.offset + e.size = at[i]
    BY <1>2
  <2> HIDE DEF e, a, b
  <2>6. Extend([img |-> Beginning(e.offset), pos |-> a], e, z)
          = [img |-> Beginning(e.offset + e.size), pos |-> b]
    BY <2>2, <2>3, <2>4, ExtendIs
  <2>7. r(i - 1) = [img |-> Beginning(e.offset), pos |-> a]
    BY <2>5 DEF a
  <2>8. r(i) = [img |-> Beginning(e.offset + e.size), pos |-> b]
    BY <2>5 DEF b
  <2> HIDE DEF r
  <2> QED
    BY <2>6, <2>7, <2>8 DEF e
<1>5. r(k) = Extend(r(k), d[k + 1], z)
  BY DEF Extend
<1>6. r(k) = [img |-> image, pos |-> Len(z)]
  BY <1>2, SubSeqFull DEF Beginning
<1> HIDE DEF r
<1>7. /\ g[k + 1] = r(k) /\ \A i \in 0..k : g[i] = r(i)
  OBVIOUS
<1>8. ASSUME NEW i \in 0..(k + 1)
      PROVE  g[i] = IF i = 0 THEN zero ELSE Extend(g[i - 1], d[i], z)
  <2>1. CASE i = 0
    BY <1>3, <1>7, <2>1
  <2>2. CASE i = k + 1
    <3>1. i - 1 = k /\ k \in 0..k /\ i # 0
      BY <2>2
    <3> QED
      BY <1>5, <1>7, <2>2, <3>1
  <2>3. CASE i # 0 /\ i # k + 1
    <3>1. i \in 1..k /\ i \in 0..k /\ i - 1 \in 0..k
      BY <2>3
    <3> QED
      BY <1>4, <1>7, <2>3, <3>1
  <2> QED
    BY <2>1, <2>2, <2>3
<1>9. g = [i \in 0..(k + 1) |-> IF i = 0 THEN zero ELSE Extend(g[i - 1], d[i], z)]
  <2>1. g = [i \in 0..(k + 1) |-> g[i]]
    OBVIOUS
  <2> HIDE DEF g, zero
  <2> QED
    BY <1>8, <2>1
<1>10. Rebuild(d, z) = g[k + 1]
  <2> DEFINE count == k + 1
  <2>1. count \in Nat /\ Len(d) = count
    OBVIOUS
  <2>2. Accumulates(g, d, z, count)
    BY <1>9, Zenon DEF Accumulates
  <2> HIDE DEF g, count
  <2>3. Rebuild(d, z) = g[count]
    BY <2>1, <2>2, RebuildUnique
  <2> QED
    BY <2>3 DEF count
<1> QED
  BY <1>6, <1>7, <1>10

\* What make-template promises: when it reports success, make-image gets the
\* image back byte by byte out of the files and the template, no template data
\* is left over, and the ImageInfo has the size of the image.
THEOREM TemplateRebuilds == Spec => []TemplateRebuildsImage
<1>1. Inv /\ ImageDescribed => TemplateRebuildsImage
  <2> SUFFICES ASSUME Inv, ImageDescribed, result = "success"
               PROVE  TemplateRebuildsImage
    BY DEF TemplateRebuildsImage
  <2>1. PICK k \in Nat : /\ Len(out.desc) = k + 1
                         /\ out.desc[k + 1] = ImageInfo(Len(image))
                         /\ LaidOut(out.desc, k, out.zip, Len(image))
    BY DEF ImageDescribed
  <2>2. image \in Seq(Byte) /\ out.desc \in Seq(DescEntry) /\ out.zip \in Seq(Byte)
    BY DEF Inv, TypeOK, Output
  <2>3. out.desc[k + 1].type = "image"
    BY <2>1 DEF ImageInfo
  <2> DEFINE d == out.desc
             z == out.zip
  <2>4. Last(d) = ImageInfo(Len(image))
    BY <2>1 DEF Last
  <2>5. Rebuild(d, z) = [img |-> image, pos |-> Len(z)]
    <3> HIDE DEF d, z
    <3> QED
      BY <2>1, <2>2, <2>3, LayoutRebuilt DEF d, z
  <2> QED
    BY <2>4, <2>5 DEF TemplateRebuildsImage
<1> QED
  BY <1>1, Invariance, ImageIsDescribed, PTL
=============================================================================
