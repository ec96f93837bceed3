----------------------------- MODULE MkTemplate -----------------------------
(***************************************************************************)
(* MkTemplate::scanImage and its helpers (src/mktemplate.cc): one pass     *)
(* over the image that finds the areas equal to one of the input files and *)
(* writes everything else to the template.                                 *)
(*                                                                         *)
(* The image is read in chunks into a circular buffer.  A window of        *)
(* BlockLength bytes rolls over it; when its RsyncSum equals that of the   *)
(* head of a file, a PartialMatch is queued, and the file is then compared *)
(* in blocks of CsumBlockLength bytes as their last byte comes by.         *)
(* Data that left the buffer while a match was still possible can only be  *)
(* recovered by re-reading the file that had matched so far.               *)
(*                                                                         *)
(* A checksum (MD5 or SHA256) of a block is the block itself: collision    *)
(* free.  RsyncSum is a parameter and may collide.  Offsets are exact; the *)
(* one subtraction the code does without a check is done modulo Word.      *)
(***************************************************************************)
EXTENDS PartialMatchQueue

CONSTANTS
  Byte,             \* values of a byte of the image or of a file
  Pad,              \* 0x7f, the initial content of the buffer
  Images,           \* the images the scan may be given
  FileSeq,          \* the files, in the order of the cache
  Content,          \* their content: [file -> Seq(Byte)]
  WholeScanned,     \* files whose every sum is known after scanFiles()
  RsyncSum(_),      \* the rolling checksum of BlockLength bytes
  BlockLength, CsumBlockLength, ReadAmount,
  Slack,            \* the "+ 64" of run()
  Word,             \* 2^64: offsets are uint64
  GreedyMatching,   \* --greedy-matching
  MatchExecFails,   \* outcomes of --match-exec: subset of BOOLEAN
  MaxLost,          \* bound: how many files become unreadable during a scan
  TemplateMayFail   \* may compression or the template stream fail?

Max2(a, b) == IF a > b THEN a ELSE b
Min2(a, b) == IF a < b THEN a ELSE b

\* run(): two halves, each able to hold a read, a checksum block or a window.
BufferHalf == Max2(Max2(BlockLength + Slack, CsumBlockLength), ReadAmount)
\* Mutant of BufferLength: one half only.
BufferLengthHalf ==
  ((BufferHalf + ReadAmount - 1) \div ReadAmount) * ReadAmount

BufferLength ==
  ((2 * BufferHalf + ReadAmount - 1) \div ReadAmount) * ReadAmount

Files == ToSet(FileSeq)

\* run() kicks out the files that are shorter than BlockLength: the positions
\* in FileSeq of the others.
Hashed == {i \in DOMAIN FileSeq : Len(Content[FileSeq[i]]) >= BlockLength}

ASSUME ScanAssumption ==
  /\ BlockLength \in Nat \ {0} /\ CsumBlockLength \in Nat
  /\ BlockLength < CsumBlockLength         \* Assert in run()
  /\ ReadAmount \in Nat \ {0} /\ Slack \in Nat
  /\ Word \in Nat \ {0}
  /\ Pad \in Byte
  /\ \A i \in Images : Len(i) < Word
  /\ \A f \in Files : Len(Content[f]) + BufferLength <= Word
  /\ Images \subseteq Seq(Byte)
  /\ FileSeq \in Seq(Files)
  /\ Content \in [Files -> Seq(Byte)]
  /\ WholeScanned \subseteq Files
  /\ GreedyMatching \in BOOLEAN /\ MatchExecFails \subseteq BOOLEAN
  /\ MaxLost \in Nat /\ TemplateMayFail \in BOOLEAN

VARIABLES
  image,            \* what the image stream will deliver
  eof,              \* ~image->good()
  pc,               \* "read", "scan", "roll", "event", "end" or "done"
  buf, data,        \* the circular buffer and the offset of the current byte
  off, n,           \* offset in the image; bytes of the buffer still to scan
  rsumBack,         \* offset in buf of the first byte of the window
  nextEvent,        \* value of off at which the innermost loop ends
  fast,             \* is the innermost loop the fastForward variant?
  todo,             \* files (positions in FileSeq) of the hash entry still to
                    \* be looked at
  matches, sectorLength,
  out,              \* what has been disposed of, see Area
  matchedParts,
  fpState,          \* state of each FilePart: "head", "all" or "deleted"
  lost,             \* files that can no longer be read (environment)
  dropped,          \* queue full: was a possible match dropped or passed over?
  result            \* "none", "success", "failure" or "crash"

imageVars == <<image, eof>>
bufVars   == <<buf, data, off, n, rsumBack>>
loopVars  == <<pc, nextEvent, fast, todo>>
queueVars == <<matches, sectorLength, dropped>>
fileVars  == <<fpState, lost>>
vars == <<imageVars, bufVars, loopVars, queueVars, out, matchedParts,
          fileVars, result>>

-----------------------------------------------------------------------------
(* Buffer arithmetic *)

ModAdd(a, b) == IF a + b >= BufferLength THEN a + b - BufferLength ELSE a + b

ModSub(a, b) ==
  LET r == a + BufferLength - b
  IN IF r >= BufferLength THEN r - BufferLength ELSE r

\* writeBuf(), and the two-part md.update() of checkChecksumMatch().
BufRange(begin, end) ==
  [i \in 1..(IF begin < end THEN end - begin ELSE BufferLength - begin + end)
     |-> buf[(begin + i - 1) % BufferLength]]

\* Image data [start, start + len) taken out of the buffer.
Buffered(start, len) ==
  LET writeStart == ModSub(data, off - start)
  IN BufRange(writeStart, ModAdd(writeStart, len))

\* Mutant of StillBuffered: forgets that the read has overwritten n bytes.
StillBufferedAll == Min2(BufferLength, off)

StillBuffered == Min2(BufferLength - n, off)

-----------------------------------------------------------------------------
(* The files *)

Size(f) == IF fpState[f] = "deleted" THEN 0 ELSE Len(Content[f])

\* Does getMD5Sums(cache, blockNr) return a sum?  Every block but the first
\* needs the whole file; a deleted FilePart never comes back.
HasSums(state, f, blockNr) ==
  \/ state[f] = "all"
  \/ state[f] = "head" /\ (blockNr = 0 \/ f \notin lost)

\* The FilePart after that call.
AfterSums(state, f, blockNr) ==
  IF state[f] = "head" /\ blockNr > 0
  THEN [state EXCEPT ![f] = IF f \in lost THEN "deleted" ELSE "all"]
  ELSE state

FileBlock(f, k) ==
  SubSeq(Content[f], k * CsumBlockLength + 1,
         Min2((k + 1) * CsumBlockLength, Len(Content[f])))

\* rereadUnmatched(f, count): what it gets out of the file, and its success.
RereadData(f, count) ==
  IF f \in lost THEN << >>
  ELSE SubSeq(Content[f], 1, Min2(count, Len(Content[f])))

\* Mutant of CanReread: the result of the re-read is ignored.
CanRereadUnchecked(f, count) == TRUE

CanReread(f, count) == Len(RereadData(f, count)) = count

\* The files whose RsyncSum is that of the window buf[back .. d - 1].
HashHits(back, d) ==
  {i \in Hashed :
     /\ fpState[FileSeq[i]] # "deleted"
     /\ RsyncSum(SubSeq(Content[FileSeq[i]], 1, BlockLength))
          = RsyncSum(BufRange(back, d))}

-----------------------------------------------------------------------------
(* The template: DESC section and compressed data *)

Unmatched(o, len) == [type |-> "unmatched", offset |-> o, size |-> len]
Matched(o, f) ==
  [type |-> "matched", offset |-> o, size |-> Len(Content[f]), file |-> f]
ImageInfo(len) == [type |-> "image", size |-> len]

\* Mutant of AddUnmatched: sets the length instead of adding to it.
AddUnmatchedOverwrites(d, o, len) ==
  IF d # << >> /\ d[Len(d)].type = "unmatched"
  THEN [d EXCEPT ![Len(d)].size = len]
  ELSE Append(d, Unmatched(o, len))

\* Desc::unmatchedData(): consecutive unmatched areas are merged.
AddUnmatched(d, o, len) ==
  IF d # << >> /\ d[Len(d)].type = "unmatched"
  THEN [d EXCEPT ![Len(d)].size = @ + len]
  ELSE Append(d, Unmatched(o, len))

\* out is a record of
\*   start    unmatchedStart, the end of what has been dealt with
\*   desc, descOff   Desc::files and Desc::offset
\*   zip      the bytes given to the Zobstream
\*   areaEnd, failed   oldAreaEnd, and whether debugRangeFailed() was called
\* Area(o, from, to, bytes): o after [from, to) went to the template.
Area(o, from, to, bytes) ==
  [start   |-> to,
   desc    |-> AddUnmatched(o.desc, o.descOff, to - from),
   descOff |-> o.descOff + (to - from),
   zip     |-> o.zip \o bytes,
   areaEnd |-> to,
   failed  |-> o.failed \/ o.areaEnd # from]

\* The same with bytes out of the buffer, up to image offset to.
Flush(o, to) ==
  IF o.start < to
  THEN Area(o, o.start, to, Buffered(o.start, to - o.start)) ELSE o

\* o after file f was found at offset start.
MatchArea(o, start, f) ==
  [o EXCEPT !.start   = off,
            !.desc    = Append(@, Matched(o.descOff, f)),
            !.descOff = @ + Len(Content[f]),
            !.areaEnd = off,
            !.failed  = @ \/ o.areaEnd # start]

-----------------------------------------------------------------------------
Init ==
  /\ image \in Images /\ eof = FALSE
  /\ buf = [i \in 0..(BufferLength - 1) |-> Pad]
  /\ data = 0 /\ off = 0 /\ n = 0
  /\ rsumBack = BufferLength - BlockLength
  /\ pc = "read" /\ nextEvent = 0 /\ fast = FALSE /\ todo = {}
  /\ matches = << >> /\ sectorLength = InitialSectorLength /\ dropped = FALSE
  /\ out = [start |-> 0, desc |-> << >>, descOff |-> 0, zip |-> << >>,
            areaEnd |-> 0, failed |-> FALSE]
  /\ matchedParts = << >>
  /\ fpState = [f \in Files |-> IF f \in WholeScanned THEN "all" ELSE "head"]
  /\ lost = {}
  /\ result = "none"

\* Mutant of NewUnmatchedStart: the pending matches are not looked at.
NewUnmatchedStartBlind == IF off > BlockLength THEN off - BlockLength ELSE 0

\* Top of the main loop: write out the old data that the read may destroy,
\* then read the next chunk.
NewUnmatchedStart ==
  LET limit == IF off > BlockLength THEN off - BlockLength ELSE 0
  IN IF matches = << >> THEN limit
     ELSE Min2(limit, matches[LowestStartOffset(matches)].startOff)

ReadChunk ==
  /\ pc = "read" /\ ~eof
  /\ out' = Flush(out, NewUnmatchedStart)
  /\ LET amount == Min2(ReadAmount, BufferLength - data)
         got    == Min2(amount, Len(image) - off)
     IN /\ buf' = [i \in DOMAIN buf |->
                     IF data <= i /\ i < data + got
                     THEN image[off + (i - data) + 1] ELSE buf[i]]
        /\ n' = got
        /\ eof' = (got < amount)
        /\ pc' = IF got = 0 THEN "end" ELSE "scan"
  /\ UNCHANGED <<image, data, off, rsumBack, nextEvent, fast, todo, queueVars,
                 matchedParts, fileVars, result>>

\* Top of the loop over the chunk.
Schedule ==
  /\ pc = "scan"
  /\ nextEvent' = IF matches = << >> THEN off + n
                  ELSE Min2(off + n, matches[1].nextEv)
  /\ fast' = Full(matches)
  /\ sectorLength' = IF Full(matches) THEN sectorLength ELSE InitialSectorLength
  /\ pc' = "roll"
  /\ UNCHANGED <<imageVars, bufVars, todo, matches, dropped, out, matchedParts,
                 fileVars, result>>

Advance(len) ==
  /\ data' = data + len /\ off' = off + len /\ n' = n - len
  /\ rsumBack' = ModAdd(rsumBack, len)

\* Innermost loop: roll the window by one byte and look up its RsyncSum.
RollByte ==
  /\ pc = "roll" /\ todo = {} /\ ~fast /\ off < nextEvent
  /\ Advance(1)
  /\ todo' = HashHits(rsumBack', data')
  /\ UNCHANGED <<imageVars, buf, pc, nextEvent, fast, queueVars, out,
                 matchedParts, fileVars, result>>

\* Mutants of NextAlignedOff: no progress; one sector too far.
NextAlignedOffStuck ==
  ((off - BlockLength) \div sectorLength) * sectorLength + BlockLength
NextAlignedOffSkips ==
  ((off - BlockLength + 2 * sectorLength) \div sectorLength) * sectorLength
    + BlockLength

NextAlignedOff ==
  ((off - BlockLength + sectorLength) \div sectorLength) * sectorLength
    + BlockLength

FastForward ==
  /\ pc = "roll" /\ todo = {} /\ fast /\ off < nextEvent
  /\ Advance(Min2(NextAlignedOff - off, nextEvent - off))
  /\ todo' = IF off' = NextAlignedOff THEN HashHits(rsumBack', data') ELSE {}
  /\ dropped' = (dropped \/ NextAlignedOff # off + 1)
  /\ UNCHANGED <<imageVars, buf, pc, nextEvent, fast, matches, sectorLength,
                 out, matchedParts, fileVars, result>>

\* checkRsyncSumMatch2: file f may start BlockLength bytes back.
NewMatch(f) ==
  LET start == off - BlockLength
  IN [startOff |-> start,
      nextEv   |-> start + Min2(Size(f), CsumBlockLength),
      blockOff |-> rsumBack, blockNr |-> 0, filePart |-> f]

\* Mutant of StartImpossible: off by one.
StartImpossibleLate == off <= out.start + BlockLength

\* The window starts in an area that has already been dealt with.
StartImpossible == off < out.start + BlockLength

Enqueue(f) ==
  LET m    == NewMatch(f)
      s    == DropSectorLength(matches, sectorLength, m.startOff)
      drop == DropCandidate(matches, s, m.startOff)
      keep == UNCHANGED <<matches, nextEvent>>
      add(q) == matches' = q /\ nextEvent' = Min2(nextEvent, m.nextEv)
  IN IF StartImpossible
     THEN keep /\ UNCHANGED <<sectorLength, dropped>>
     ELSE IF ~Full(matches)
     THEN add(InsertByEvent(matches, m)) /\ UNCHANGED <<sectorLength, dropped>>
     ELSE /\ sectorLength' = s
          /\ dropped' = TRUE
          /\ IF drop = 0 THEN keep
             ELSE IF matches[drop].filePart = f THEN keep
             ELSE add(SetNextEvent(matches, drop, m))

\* One turn of checkRsyncSumMatch's loop.  The 32-fold unrolled loop switches
\* to fastForward at once when the queue is full, the single-byte loop only
\* at the next event: which of them runs here is left open.
CheckFile ==
  /\ pc = "roll"
  /\ \E i \in todo : /\ \A j \in todo : i <= j
                    /\ Enqueue(FileSeq[i])
                    /\ todo' = todo \ {i}
  /\ \/ fast' = fast
     \/ todo' = {} /\ Full(matches') /\ fast' = TRUE
  /\ UNCHANGED <<imageVars, bufVars, pc, out, matchedParts, fileVars, result>>

ReachEvent ==
  /\ pc = "roll" /\ todo = {} /\ ~(off < nextEvent)
  /\ pc' = "event"
  /\ UNCHANGED <<imageVars, bufVars, nextEvent, fast, todo, queueVars, out,
                 matchedParts, fileVars, result>>

-----------------------------------------------------------------------------
(* checkChecksumMatch, for the first entry of the queue *)

\* Mutant of EventDue: misses the event at the current offset.
EventDueLate == pc = "event" /\ matches # << >> /\ matches[1].nextEv < off

EventDue == pc = "event" /\ matches # << >> /\ matches[1].nextEv = off

BlockMatches(x) ==
  /\ HasSums(fpState, x.filePart, x.blockNr)
  /\ BufRange(x.blockOff, data) = FileBlock(x.filePart, x.blockNr)

ReadSums(x) == AfterSums(fpState, x.filePart, x.blockNr)

LastBlock(x) == off >= x.startOff + Len(Content[x.filePart])

Fail(r) == result' = r /\ pc' = "done"
GoOn == UNCHANGED <<result, pc>>

\* checkMatch_mismatch: give up x; what is no longer buffered and is not
\* claimed by another match is re-read from x's file.
Mismatch ==
  /\ EventDue /\ ~BlockMatches(matches[1])
  /\ fpState' = ReadSums(matches[1])
  /\ matches' = EraseFront(matches)
  /\ LET x    == matches[1]
         kept == off - StillBuffered
         rest == EraseFront(matches)
         rereadEnd ==
           IF rest = << >> THEN kept
           ELSE Min2(kept, rest[LowestStartOffset(rest)].startOff)
         count == rereadEnd - x.startOff
     IN IF LowestStartOffset(matches) # 1 \/ x.startOff >= kept
        THEN GoOn /\ UNCHANGED out
        ELSE /\ out' = Area(out, x.startOff, rereadEnd,
                            RereadData(x.filePart, count))
             /\ IF CanReread(x.filePart, count) THEN GoOn ELSE Fail("failure")
  /\ UNCHANGED <<imageVars, bufVars, nextEvent, fast, todo, sectorLength,
                 dropped, matchedParts, lost>>

\* A block matched and it was not the last one: wait for the next one.
NextBlock ==
  /\ EventDue /\ BlockMatches(matches[1]) /\ ~LastBlock(matches[1])
  /\ fpState' = ReadSums(matches[1])
  /\ LET x  == matches[1]
         ev == Min2(x.nextEv + CsumBlockLength,
                    x.startOff + Len(Content[x.filePart]))
     IN /\ matches' = SetNextEvent(matches, 1,
                        [x EXCEPT !.blockOff = data, !.blockNr = @ + 1,
                                  !.nextEv = ev])
        /\ nextEvent' = Min2(nextEvent, ev)
  /\ UNCHANGED <<imageVars, bufVars, pc, fast, todo, sectorLength, dropped,
                 out, matchedParts, lost, result>>

\* --no-greedy-matching: a larger match is possible, so skip this one.
IgnoreMatch ==
  /\ EventDue /\ BlockMatches(matches[1]) /\ LastBlock(matches[1])
  /\ ~GreedyMatching /\ LowestStartOffset(matches) # 1
  /\ fpState' = ReadSums(matches[1])
  /\ matches' = EraseFront(matches)
  /\ UNCHANGED <<imageVars, bufVars, loopVars, sectorLength, dropped, out,
                 matchedParts, lost, result>>

\* The file is in the image: abandon the partial matches around it, write out
\* what precedes it, and record it.
FileMatch ==
  /\ EventDue /\ BlockMatches(matches[1]) /\ LastBlock(matches[1])
  /\ GreedyMatching \/ LowestStartOffset(matches) = 1
  /\ matchedParts' = Append(matchedParts, matches[1].filePart)
  /\ LET x      == matches[1]
         oldest == matches[LowestStartOffset(matches)]
         kept   == off - StillBuffered
         reread == LowestStartOffset(matches) # 1 /\ oldest.startOff < kept
         end    == Min2(kept, x.startOff)
         count  == end - oldest.startOff
         out1   == IF reread
                   THEN Area(out, oldest.startOff, end,
                             RereadData(oldest.filePart, count))
                   ELSE out
         out2   == Flush(out1, x.startOff)
         state1 == ReadSums(x)
         \* getMD5Sum(cache): as for a block beyond the first
         state2 == AfterSums(state1, x.filePart, 1)
     IN IF reread /\ ~CanReread(oldest.filePart, count)
        THEN /\ out' = out1 /\ fpState' = state1
             /\ Fail("failure") /\ UNCHANGED matches
        ELSE IF ~HasSums(state1, x.filePart, 1)
        THEN \* a null pointer is dereferenced
             /\ out' = out2 /\ fpState' = state2
             /\ Fail("crash") /\ UNCHANGED matches
        ELSE /\ out' = MatchArea(out2, x.startOff, x.filePart)
             /\ fpState' = state2
             /\ \E failed \in MatchExecFails :
                  IF failed THEN Fail("failure") /\ UNCHANGED matches
                  ELSE matches' = EraseStartOffsetLess(matches, off) /\ GoOn
  /\ UNCHANGED <<imageVars, bufVars, nextEvent, fast, todo, sectorLength,
                 dropped, lost>>

\* No event is due: next part of the chunk, next chunk, or end of the image.
EventsDone ==
  /\ pc = "event" /\ ~EventDue
  /\ pc' = IF n > 0 THEN "scan" ELSE IF eof THEN "end" ELSE "read"
  /\ data' = IF n = 0 /\ data = BufferLength THEN 0 ELSE data
  /\ UNCHANGED <<imageVars, buf, off, n, rsumBack, nextEvent, fast, todo,
                 queueVars, out, matchedParts, fileVars, result>>

-----------------------------------------------------------------------------
\* uint64 subtraction
Minus(a, b) == (a - b) % Word

\* unmatchedAtEnd: findStartOffset(unmatchedStart), then compare with the
\* start of the buffered data -- computed without looking whether the image
\* is as long as the buffer.
EndReread ==
  {i \in DOMAIN matches :
     /\ matches[i].startOff = out.start
     /\ \A j \in 1..(i - 1) : matches[j].startOff # out.start
     /\ matches[i].startOff < Minus(off, BufferLength)}

\* End of the image: the pending partial matches become unmatched data, the
\* DESC section gets its ImageInfo and is written.
Finish ==
  /\ pc = "end"
  /\ LET reread == out.start < off /\ EndReread # {}
         y      == matches[CHOOSE i \in EndReread : TRUE]
         end    == Minus(off, BufferLength)
         count  == end - y.startOff
         out1   == IF reread
                   THEN Area(out, y.startOff, end,
                             RereadData(y.filePart, count))
                   ELSE out
         out2   == Flush(out1, off)
     IN IF reread /\ ~CanReread(y.filePart, count)
        THEN out' = out1 /\ Fail("failure")
        ELSE /\ out' = [out2 EXCEPT !.desc = Append(@, ImageInfo(off))]
             /\ Fail("success")
  /\ UNCHANGED <<imageVars, bufVars, nextEvent, fast, todo, queueVars,
                 matchedParts, fileVars>>

\* A Zerror, or the template stream has gone bad: no recovery.
TemplateError ==
  /\ TemplateMayFail /\ pc \in {"read", "event", "end"}
  /\ Fail("failure")
  /\ UNCHANGED <<imageVars, bufVars, nextEvent, fast, todo, queueVars, out,
                 matchedParts, fileVars>>

\* Environment: a file is removed or becomes unreadable during the scan.
LoseFile(f) ==
  /\ pc # "done" /\ f \notin lost /\ Cardinality(lost) < MaxLost
  /\ lost' = lost \cup {f}
  /\ UNCHANGED <<imageVars, bufVars, loopVars, queueVars, out, matchedParts,
                 fpState, result>>

ScanStep ==
  \/ ReadChunk \/ Schedule \/ RollByte \/ FastForward \/ CheckFile
  \/ ReachEvent
  \/ Mismatch \/ NextBlock \/ IgnoreMatch \/ FileMatch \/ EventsDone
  \/ Finish \/ TemplateError

Done == pc = "done" /\ UNCHANGED vars

Next == ScanStep \/ (\E f \in Files : LoseFile(f)) \/ Done

\* The scan is one sequential loop: it goes on until it returns.
Spec == Init /\ [][Next]_vars /\ WF_vars(ScanStep)

-----------------------------------------------------------------------------
(* Properties *)

Match == [startOff : Nat, nextEv : Nat, blockOff : Nat, blockNr : Nat,
          filePart : Files]

DescEntry ==
  [type : {"unmatched"}, offset : Nat, size : Nat]
    \cup [type : {"matched"}, offset : Nat, size : Nat, file : Files]
    \cup [type : {"image"}, size : Nat]

Output == [start : Nat, desc : Seq(DescEntry), descOff : Nat, zip : Seq(Byte),
           areaEnd : Nat, failed : BOOLEAN]

\* Types, and the bounds of the buffer offsets and of the queue.
TypeOK ==
  /\ image \in Seq(Byte) /\ eof \in BOOLEAN
  /\ pc \in {"read", "scan", "roll", "event", "end", "done"}
  /\ buf \in [0..(BufferLength - 1) -> Byte]
  /\ data \in 0..BufferLength /\ rsumBack \in 0..(BufferLength - 1)
  /\ off \in Nat /\ n \in Nat /\ data + n <= BufferLength
  /\ off + n <= Len(image)
  /\ nextEvent \in Nat /\ fast \in BOOLEAN /\ todo \subseteq Hashed
  /\ matches \in Seq(Match) /\ Len(matches) <= MaxMatches
  /\ sectorLength \in SectorLengths /\ dropped \in BOOLEAN
  /\ out \in Output /\ matchedParts \in Seq(Files)
  /\ fpState \in [Files -> {"head", "all", "deleted"}] /\ lost \subseteq Files
  /\ result \in {"none", "success", "failure", "crash"}

\* debugRangeFailed() is never called: the areas of the image that the scan
\* disposes of, by matching, flushing or re-reading, follow each other without
\* a gap and without an overlap.
RangesContiguous == ~out.failed

\* consistencyCheck() and the Assert after the event loop: the queue is sorted,
\* and no event of the past is left in it when scanning goes on.
QueueConsistent ==
  /\ \A i \in 1..(Len(matches) - 1) : matches[i].nextEv <= matches[i + 1].nextEv
  /\ pc \in {"read", "scan", "end"} =>
       \A i \in DOMAIN matches : matches[i].nextEv > off

\* What make-image has written, and read of the template data z, after entry e.
Extend(acc, e, z) ==
  LET end == acc.pos + e.size
  IN IF e.type = "matched" THEN [acc EXCEPT !.img = @ \o Content[e.file]]
     ELSE IF e.type = "unmatched"
     THEN [img |-> acc.img \o SubSeq(z, acc.pos + 1, Min2(end, Len(z))),
           pos |-> end]
     ELSE acc

\* What make-image rebuilds out of a DESC section and the template data.
Rebuild(d, z) ==
  LET acc[i \in 0..Len(d)] == IF i = 0 THEN [img |-> << >>, pos |-> 0]
                              ELSE Extend(acc[i - 1], d[i], z)
  IN acc[Len(d)]

\* The promise of make-template: when it reports success, the files and the
\* template together give back the image byte by byte, no template data is
\* left over, and the ImageInfo has the size of the image.
TemplateRebuildsImage ==
  result = "success" =>
    /\ Rebuild(out.desc, out.zip) = [img |-> image, pos |-> Len(out.zip)]
    /\ Last(out.desc) = ImageInfo(Len(image))

\* Nothing that is still needed has left the buffer: what checkChecksumMatch is
\* going to hash is the image data of the block, and the unmatched data is there
\* except for the part that can be re-read from the file of a partial match.
NeededDataBuffered ==
  LET blockStart(m) == m.startOff + m.blockNr * CsumBlockLength
      unmatched == IF \E i \in DOMAIN matches : matches[i].startOff = out.start
                   THEN Max2(out.start, off - StillBuffered)
                   ELSE out.start
  IN pc \in {"scan", "roll", "event"} =>
       /\ \A o \in unmatched..(off - 1) :
            buf[(data - (off - o)) % BufferLength] = image[o + 1]
       /\ \A i \in DOMAIN matches :
            \A k \in 0..(off - blockStart(matches[i]) - 1) :
              buf[(matches[i].blockOff + k) % BufferLength] =
                image[blockStart(matches[i]) + k + 1]

\* Where file f occurs in the image, at offset p.
Occurs(f, p) ==
  /\ p + Len(Content[f]) <= Len(image)
  /\ SubSeq(image, p + 1, p + Len(Content[f])) = Content[f]

\* No file is overlooked: unless the queue overflowed or a file got lost, each
\* occurrence of a file overlaps with an area recorded as a match.
EveryOccurrenceCovered ==
  (result = "success" /\ ~dropped /\ lost = {} /\ GreedyMatching) =>
    \A f \in {FileSeq[i] : i \in Hashed}, p \in 0..Len(image) :
      Occurs(f, p) =>
        \E i \in DOMAIN out.desc :
          /\ out.desc[i].type = "matched"
          /\ out.desc[i].offset < p + Len(Content[f])
          /\ p < out.desc[i].offset + out.desc[i].size

\* What has been decided about an area is never taken back: a DESC entry only
\* ever changes by an unmatched area at the end growing.
DecisionsFinal ==
  [][LET d == out.desc
         e == out'.desc
     IN /\ Len(d) <= Len(e)
        /\ \A i \in DOMAIN d :
             \/ e[i] = d[i]
             \/ /\ i = Len(d) /\ d[i].type = "unmatched"
                /\ e[i] = Unmatched(d[i].offset, e[i].size)
                /\ e[i].size >= d[i].size]_vars

\* The sizes in the DESC section add up: what precedes the ImageInfo covers the
\* image exactly, and while the scan runs it covers what has been disposed of.
DescCoversImage ==
  /\ pc # "done" => out.descOff = out.start
  /\ result = "success" =>
       out.descOff = off /\ Last(out.desc) = ImageInfo(out.descOff)

\* fastForward passes over no window that starts at a multiple of the assumed
\* sector length: it stops there to look the window up.
AlignedStep ==
  \A o \in (off + 1)..off' : (o - BlockLength) % sectorLength = 0 => o = off'
AlignedWindowsSeen == [][AlignedStep]_vars

\* The scan ends, also in the fastForward loop over a full queue.
ScanEnds == <>(pc = "done")

\* scan.hh and the comment of unmatchedAtEnd: as long as every file stays
\* readable and the template can be written, make-template does not fail.
FailsOnlyForCause ==
  result = "failure" =>
    lost # {} \/ TemplateMayFail \/ TRUE \in MatchExecFails

\* jigdo-file(1) on --no-greedy-matching: "In the case where a large partial
\* match is present and a shorter match has been confirmed, ignore the small
\* match."
SmallMatchIgnored ==
  [][(~GreedyMatching /\ Len(matchedParts') > Len(matchedParts)) =>
       \A i \in DOMAIN matches :
         matches[i].startOff <= matches[1].startOff =>
           Len(Content[matches[i].filePart])
             <= Len(Content[matches[1].filePart])]_vars

\* checkChecksumMatch's "Assert(x->file->mdValid)": the sums of a file that is
\* recorded as a match are known, no null pointer is dereferenced.
NeverCrashes == result # "crash"
=============================================================================
