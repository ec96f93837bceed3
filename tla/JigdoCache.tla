----------------------------- MODULE JigdoCache -----------------------------
(***************************************************************************)
(* JigdoCache and FilePart (src/scan.hh, src/scan.cc) with the database    *)
(* behind them (src/cachefile.cc): the checksums of the files named on the *)
(* command line are computed only when they are asked for, first those of  *)
(* the head of a file and then, maybe, all of them, and they are kept from *)
(* one run of jigdo-file to the next in a database file.                   *)
(*                                                                         *)
(* A checksum is what it is the checksum of: a content, or one of its      *)
(* blocks, or its head of blockLength bytes.  MD5 and SHA256 sums are      *)
(* computed, stored and returned side by side and count as one.  The       *)
(* content of a file changes only together with its modification time;     *)
(* that is what the cache relies on.                                       *)
(***************************************************************************)
EXTENDS Integers, Sequences, FiniteSets

CONSTANTS
  Files,            \* file names
  Contents,
  SizeOf,           \* [Contents -> sizes in bytes]
  Params,           \* what a run may use: blockLength, csumBlockLength, and
                    \* FALSE for --no-check-files
  ReadAmount,       \* --readbuffer
  Expiry,           \* --cache-expiry
  ParamsChange,     \* may setParams() be called while there are files?
  ReadErrors,       \* may reading a file fail half-way?
  MaxTime           \* bound: ticks of the clock

\* What is in a file of which nothing is known
NoContent == <<"no content">>

CacheAssumption ==
  /\ NoContent \notin Contents
  /\ SizeOf \in [Contents -> Nat \ {0}]
  /\ Params \subseteq (Nat \ {0}) \X (Nat \ {0}) \X BOOLEAN
  /\ \A p \in Params : p[1] =< p[2]
  /\ ReadAmount \in Nat \ {0} /\ Expiry \in Nat /\ MaxTime \in Nat \ {0}
  /\ ParamsChange \in BOOLEAN /\ ReadErrors \in BOOLEAN

VARIABLES
  now,
  disk,             \* what is in a file now, and its mtime
  past,             \* what was in it, by mtime
  db,               \* the database: at most one entry for a name
  params,           \* of the run under way; << >> between two runs
  part,             \* the FilePart of each file in this run
  nrOfFiles,
  seen,             \* what was in the file since it was listed
  answer,           \* of the last call of a method that returns checksums
  used              \* when an entry was last read or written

envVars == <<now, disk, past>>
runVars == <<params, part, nrOfFiles, seen, answer>>
vars == <<envVars, db, used, runVars>>

MaxBlocks == 4       \* bound: blocks asked for
SizeTWord == 16     \* size_t has the values 0..SizeTWord-1; 2^64 in the program

\* Checksums.  Junk is memory that nobody gave a value, NullPtr no checksum.
Junk == <<"junk">>
NullPtr == <<"null">>
Block(c, len, i) == <<"block", c, len, i>>
HeadOf(c, len) == <<"head", c, len>>
Whole(c) == <<"whole", c>>

Times == 0..MaxTime
NoFile == << >>
NoEntry == << >>

Running == params # << >>
BlockLen == params[1]
CsumBlockLen == params[2]
CheckFiles == params[3]
Blocks(size) == (size + CsumBlockLen - 1) \div CsumBlockLen

NewPart(size, mtime) ==
  [size |-> size, mtime |-> mtime, sums |-> << >>, rsync |-> Junk,
   md |-> Junk, mdValid |-> FALSE, wasLookedUp |-> FALSE,
   toBeWritten |-> FALSE]

Deleted(p) == p.size = 0
Listed(f) == part[f] # NoFile /\ ~Deleted(part[f])

NoAnswer == [file |-> << >>, kind |-> "none", block |-> 0, value |-> NullPtr,
             opened |-> FALSE]

Init ==
  /\ now = 1
  /\ \E c \in [Files -> Contents] :
       /\ disk = [f \in Files |-> [content |-> c[f], mtime |-> 0]]
       /\ past = [f \in Files |->
                   [t \in Times |-> IF t = 0 THEN c[f] ELSE NoContent]]
  /\ db = [f \in Files |-> NoEntry] /\ used = [f \in Files |-> 0]
  /\ params = << >> /\ part = [f \in Files |-> NoFile] /\ nrOfFiles = 0
  /\ seen = [f \in Files |-> {}] /\ answer = NoAnswer

-----------------------------------------------------------------------------
(* The world outside *)

Tick ==
  /\ now < MaxTime /\ now' = now + 1
  /\ UNCHANGED <<disk, past, db, used, runVars>>

Modify(f) ==
  /\ past[f][now] = NoContent
  /\ \E c \in Contents :
       /\ disk' = [disk EXCEPT ![f] = [content |-> c, mtime |-> now]]
       /\ past' = [past EXCEPT ![f][now] = c]
       /\ seen' = [seen EXCEPT ![f] = IF part[f] = NoFile THEN @
                                      ELSE @ \union {c}]
  /\ UNCHANGED <<now, db, used, params, part, nrOfFiles, answer>>

Remove(f) ==
  /\ disk[f] # NoFile
  /\ disk' = [disk EXCEPT ![f] = NoFile]
  /\ UNCHANGED <<now, past, db, used, runVars>>

-----------------------------------------------------------------------------
(* The database: CacheFile::find, findName, expire *)

\* Mutant of Matches: the modification time is not compared.
MatchesAnyTime(f, p) == db[f] # NoEntry /\ db[f].size = p.size

Matches(f, p) ==
  db[f] # NoEntry /\ db[f].mtime = p.mtime /\ db[f].size = p.size

\* Mutant of Accessed: the time of the last access is not updated.
AccessedNot(f) == db[f]

Accessed(f) == [db[f] EXCEPT !.access = now]

\* Mutant of Expired: entries that are just as old as permitted are removed.
ExpiredSoon(e) == e # NoEntry /\ now - Expiry >= e.access

Expired(e) == e # NoEntry /\ now - Expiry > e.access

-----------------------------------------------------------------------------
(* A new JigdoCache and its list of files *)

StartRun ==
  /\ ~Running
  /\ params' \in Params
  /\ UNCHANGED <<envVars, db, used, part, nrOfFiles, seen, answer>>

\* The objects go away, with the destructor or without it.
Gone ==
  /\ params' = << >> /\ part' = [f \in Files |-> NoFile] /\ nrOfFiles' = 0
  /\ seen' = [f \in Files |-> {}] /\ answer' = NoAnswer

\* The size in the static fileInfo of a process that has called stat() for no
\* file.
SizeNotRead == 0

\* readFilenames() for one name, and addFile().  With --no-check-files
\* findName() finds the size and the mtime in the cache; addFile() uses that
\* mtime, but the size in fileInfo.  nrOfFiles stays as it is.
ReadFilename(f) ==
  /\ Running /\ part[f] = NoFile
  /\ IF CheckFiles
     THEN /\ disk[f] # NoFile
          /\ part' = [part EXCEPT ![f] =
                       NewPart(SizeOf[disk[f].content], disk[f].mtime)]
          /\ UNCHANGED <<db, used>>
     ELSE /\ db[f] # NoEntry
          /\ part' = [part EXCEPT ![f] = NewPart(SizeNotRead, db[f].mtime)]
          /\ db' = [db EXCEPT ![f] = Accessed(f)]
          /\ used' = [used EXCEPT ![f] = now]
  /\ seen' = [seen EXCEPT ![f] = IF disk[f] = NoFile THEN {}
                                 ELSE {disk[f].content}]
  /\ UNCHANGED <<envVars, params, nrOfFiles, answer>>

\* setParams(): the sums are discarded, the flags of the files are not.
SetParams ==
  /\ ParamsChange /\ Running
  /\ params' \in Params \ {params}
  /\ part' = [f \in Files |-> IF part[f] = NoFile THEN NoFile
                              ELSE [part[f] EXCEPT !.sums = << >>]]
  /\ answer' = NoAnswer
  /\ UNCHANGED <<envVars, db, used, nrOfFiles, seen>>

-----------------------------------------------------------------------------
(* FilePart::getChecksumsRead *)

\* The resize() of MD5sums.
Resized(p) ==
  [p EXCEPT !.sums = [i \in 1..Blocks(p.size) |->
                       IF i \in DOMAIN p.sums THEN p.sums[i] ELSE Junk]]

\* Mutant of AllPresent: every entry is taken for a complete one.
AllPresentAlways(e, p) == TRUE

\* "All blocks of file present?"  The code compares the number of blocks with
\* the size of both vectors together: see CacheIsUsed and SumIsRight.
AllPresent(e, p) == Len(e.sums) = Len(p.sums) + Len(p.sums)

\* unserializeCacheEntry(); nothing happens if csumBlockLength differs.
Unserialized(p, e) ==
  IF e.csumBlockLen # CsumBlockLen THEN p
  ELSE [p EXCEPT !.rsync = e.rsync,
                 !.mdValid = AllPresent(e, p),
                 !.md = IF AllPresent(e, p) THEN e.md ELSE @,
                 !.sums = [i \in DOMAIN @ |-> IF i \in DOMAIN e.sums
                                              THEN e.sums[i] ELSE @[i]]]

\* Mutant of Suffices: the blockLength of the entry is not compared.
SufficesAnyLen(p, e, blockNr) ==
  e.csumBlockLen = CsumBlockLen /\ (blockNr = 0 \/ p.mdValid)

\* "Was all necessary data in cache?"  p is what Unserialized returned.
Suffices(p, e, blockNr) ==
  /\ e.csumBlockLen = CsumBlockLen /\ e.blockLen = BlockLen
  /\ blockNr = 0 \/ p.mdValid

\* Where a read of the file may end: the first read fills the buffer, which
\* has at least blockLength bytes; the last one may be short.
FirstRead == IF ReadAmount > BlockLen THEN ReadAmount ELSE BlockLen
OnGrid(o) == o >= FirstRead /\ (o - FirstRead) % ReadAmount = 0
ReadEnds(actual) == {o \in 1..actual : o = actual \/ OnGrid(o)}

\* The reads after which the first block is complete; the loop stops at the
\* first of these if it is the head only that is wanted.
HeadEnds(actual) == {o \in ReadEnds(actual) : o >= CsumBlockLen}
HeadEnd(actual) == CHOOSE o \in HeadEnds(actual) :
                     \A q \in HeadEnds(actual) : o =< q

\* The stream knows that it is at the end only after a short read.
SeesEof(o, actual) == o = actual /\ ~OnGrid(o)

\* What comes of reading a file of actual bytes: "all", "head" or "error".
ReadResult(p, actual, blockNr) ==
  IF blockNr = 0 /\ HeadEnds(actual) # {}
  THEN LET h == HeadEnd(actual)
       IN IF h > p.size THEN "error"
          ELSE IF h = p.size /\ SeesEof(h, actual) THEN "all" ELSE "head"
  ELSE IF actual = p.size THEN "all" ELSE "error"

AllRead(p, c) ==
  [p EXCEPT !.sums = [i \in DOMAIN @ |-> Block(c, CsumBlockLen, i)],
            !.rsync = HeadOf(c, BlockLen), !.md = Whole(c), !.mdValid = TRUE]

\* md5Sum.abort(); sums of later blocks may be in the buffer already.
HeadRead(p, c) ==
  LET done == HeadEnd(SizeOf[c]) \div CsumBlockLen
  IN [p EXCEPT !.sums = [i \in DOMAIN @ |-> IF i =< done
                                  THEN Block(c, CsumBlockLen, i) ELSE @[i]],
               !.rsync = HeadOf(c, BlockLen), !.md = Junk]

MarkedAsDeleted(p) == [p EXCEPT !.size = 0, !.sums = << >>]

\* Mutant of OneLess: no wrap-around.
OneLessSigned == nrOfFiles - 1

\* The decrement in markAsDeleted().
OneLess == (nrOfFiles + SizeTWord - 1) % SizeTWord

\* What getChecksumsRead() may leave behind once the file has to be read.
FromFile(f, p, blockNr) ==
  LET q == [p EXCEPT !.toBeWritten = TRUE]
      c == disk[f].content
      result == ReadResult(p, SizeOf[c], blockNr)
  IN IF disk[f] = NoFile THEN {MarkedAsDeleted(p)}
     ELSE (IF ReadErrors \/ result = "error"
           THEN {MarkedAsDeleted(q)} ELSE {})
          \union (CASE result = "all"  -> {AllRead(q, c)}
                    [] result = "head" -> {HeadRead(q, c)}
                    [] OTHER           -> {})

\* getChecksumsRead(): what may become of the FilePart and of its entry, and
\* whether the file had to be opened.
ChecksumsRead(f, blockNr) ==
  LET p == Resized(part[f])
      hit == ~p.wasLookedUp /\ Matches(f, p)
      looked == [p EXCEPT !.wasLookedUp = TRUE]
      loaded == IF hit THEN Unserialized(looked, db[f]) ELSE looked
      enough == hit /\ Suffices(loaded, db[f], blockNr)
  IN [parts  |-> IF enough THEN {loaded} ELSE FromFile(f, loaded, blockNr),
      hit    |-> hit,
      entry  |-> IF hit THEN Accessed(f) ELSE db[f],
      opened |-> ~enough]

\* getMD5Sums(blockNr), getMD5Sum() by way of getMD5SumRead(), getRsyncSum():
\* whether the file (or the database) is needed, for which block, and what is
\* returned in the end.  Beyond the end of the vector of sums there is junk.
Needs(p, kind, blockNr) ==
  CASE kind = "block" -> (blockNr > 0 \/ p.sums = << >>) /\ ~p.mdValid
    [] kind = "whole" -> ~p.mdValid
    [] kind = "head"  -> p.sums = << >>

NeededBlock(p, kind, blockNr) ==
  CASE kind = "block" -> blockNr
    [] kind = "whole" -> Blocks(p.size) - 1
    [] kind = "head"  -> 0

Value(p, kind, blockNr) ==
  CASE kind = "block" -> IF blockNr + 1 \in DOMAIN p.sums
                         THEN p.sums[blockNr + 1] ELSE Junk
    [] kind = "whole" -> p.md
    [] kind = "head"  -> p.rsync

Ask(f, kind, blockNr) ==
  /\ Running /\ Listed(f) /\ blockNr < Blocks(part[f].size)
  /\ UNCHANGED <<envVars, params, seen>>
  /\ IF Needs(part[f], kind, blockNr)
     THEN LET r == ChecksumsRead(f, NeededBlock(part[f], kind, blockNr))
          IN /\ db' = [db EXCEPT ![f] = r.entry]
             /\ used' = [used EXCEPT ![f] = IF r.hit THEN now ELSE @]
             /\ \E p \in r.parts :
                  /\ part' = [part EXCEPT ![f] = p]
                  /\ nrOfFiles' = IF Deleted(p) THEN OneLess ELSE nrOfFiles
                  /\ answer' = [file |-> f, kind |-> kind,
                                block |-> blockNr, opened |-> r.opened,
                                value |-> IF Deleted(p) THEN NullPtr
                                          ELSE Value(p, kind, blockNr)]
     ELSE /\ answer' = [file |-> f, kind |-> kind, block |-> blockNr,
                        opened |-> FALSE,
                        value |-> Value(part[f], kind, blockNr)]
          /\ UNCHANGED <<part, nrOfFiles, db, used>>

GetSums(f, blockNr) == Ask(f, "block", blockNr)
GetSum(f) == Ask(f, "whole", 0)
GetRsyncSum(f) == Ask(f, "head", 0)

-----------------------------------------------------------------------------
(* ~JigdoCache *)

\* Mutant of Entry: the file is looked at again when the entry is written.
EntryOfNow(f, p) ==
  [size |-> p.size, mtime |-> IF disk[f] = NoFile THEN p.mtime
                              ELSE disk[f].mtime, access |-> now,
   blockLen |-> BlockLen, csumBlockLen |-> CsumBlockLen,
   rsync |-> p.rsync, md |-> p.md,
   sums |-> IF p.mdValid THEN p.sums ELSE <<p.sums[1]>>]

\* CacheFile::insert of a SerializeCacheEntry.
Entry(f, p) ==
  [size |-> p.size, mtime |-> p.mtime, access |-> now,
   blockLen |-> BlockLen, csumBlockLen |-> CsumBlockLen,
   rsync |-> p.rsync, md |-> p.md,
   sums |-> IF p.mdValid THEN p.sums ELSE <<p.sums[1]>>]

ToBeInserted(f) == Listed(f) /\ part[f].toBeWritten

\* The destructor asserts this of SerializeCacheEntry.
CanBeWritten == \A f \in Files : ToBeInserted(f) => part[f].sums # << >>

EndRun ==
  /\ Running /\ CanBeWritten
  /\ LET inserted == [f \in Files |-> IF ToBeInserted(f) THEN Entry(f, part[f])
                                      ELSE db[f]]
     IN db' = [f \in Files |-> IF Expiry > 0 /\ Expired(inserted[f])
                               THEN NoEntry ELSE inserted[f]]
  /\ used' = [f \in Files |-> IF ToBeInserted(f) THEN now ELSE used[f]]
  /\ Gone
  /\ UNCHANGED envVars

\* The process is killed: no destructor.
Kill ==
  /\ Running /\ Gone
  /\ UNCHANGED <<envVars, db, used>>

Next ==
  \/ Tick \/ StartRun \/ SetParams \/ EndRun \/ Kill
  \/ \E f \in Files :
       \/ Modify(f) \/ Remove(f) \/ ReadFilename(f)
       \/ GetSum(f) \/ GetRsyncSum(f)
       \/ \E n \in 0..(MaxBlocks - 1) : GetSums(f, n)

Spec == Init /\ [][Next]_vars

-----------------------------------------------------------------------------
(* Properties *)

Contains(c, kind, blockNr) ==
  CASE kind = "block" -> Block(c, CsumBlockLen, blockNr + 1)
    [] kind = "whole" -> Whole(c)
    [] kind = "head"  -> HeadOf(c, BlockLen)

\* Types.  nrOfFiles wraps around.
TypeOK ==
  /\ now \in Times /\ params \in Params \union {<< >>}
  /\ past \in [Files -> [Times -> Contents \union {NoContent}]]
  /\ disk \in [Files -> [content : Contents, mtime : Times] \union {NoFile}]
  /\ seen \in [Files -> SUBSET Contents] /\ used \in [Files -> Times]
  /\ nrOfFiles \in 0..(SizeTWord - 1)
  /\ \A f \in Files :
       /\ Listed(f) => /\ part[f].mtime \in Times /\ part[f].size \in Nat
                       /\ Len(part[f].sums) \in {0, Blocks(part[f].size)}
       /\ db[f] # NoEntry => /\ db[f].mtime \in Times /\ db[f].size \in Nat
                             /\ Len(db[f].sums) > 0

\* A checksum that is returned is one of the content the file had when it was
\* listed or later, whatever the cache said and although the file may change
\* at any time (FilePart::getMD5Sums and the like).
SumIsRight ==
  answer.value # NullPtr =>
    LET f == answer.file
        known == seen[f] \union {past[f][part[f].mtime]}
    IN \E c \in known \ {NoContent} :
         answer.value = Contains(c, answer.kind, answer.block)

\* Two changes of a file, in different runs or in the middle of one, never
\* leave an entry that passes for one of the file as it is but holds sums of
\* what it was.
EntriesRight ==
  \A f \in Files :
    LET e == db[f]
        c == disk[f].content
    IN db[f] # NoEntry /\ disk[f] # NoFile /\ e.mtime = disk[f].mtime =>
         /\ e.size = SizeOf[c]
         /\ e.rsync = HeadOf(c, e.blockLen)
         /\ \A i \in DOMAIN e.sums : e.sums[i] = Block(c, e.csumBlockLen, i)

\* The three states that the comment in class FilePart permits: no sums, those
\* of the head, or all of them and then all of the same content.
PartStates ==
  \A f \in Files : Listed(f) =>
    LET p == part[f]
    IN /\ p.sums = << >> =>  ~p.mdValid
       /\ p.sums # << >> =>
            \E c \in Contents : /\ p.sums[1] = Block(c, CsumBlockLen, 1)
                                /\ p.rsync = HeadOf(c, BlockLen)
       /\ p.mdValid =>
            \E c \in Contents :
              /\ p.md = Whole(c) /\ p.rsync = HeadOf(c, BlockLen)
              /\ \A i \in DOMAIN p.sums : p.sums[i] = Block(c, CsumBlockLen, i)

\* "If any old entries are accessed before expiry takes place, they will be
\* kept" (the manual, section CACHE FILES), unless the run lasts for longer
\* than the time of expiry.
KeptStep ==
  \A f \in Files : db[f] # NoEntry /\ db'[f] = NoEntry => now - used[f] > Expiry
UsedIsKept == [][KeptStep]_vars

\* "scan" is to enter files into the cache "unless they are already cached":
\* a file all of whose sums are in a matching entry is not read again.
CacheIsUsed ==
  [][answer' # answer /\ answer'.opened =>
       LET f == answer'.file
       IN ~(/\ Matches(f, part[f]) /\ ~part[f].wasLookedUp
            /\ db[f].blockLen = BlockLen /\ db[f].csumBlockLen = CsumBlockLen
            /\ Len(db[f].sums) = Blocks(part[f].size))]_vars

\* "Skip zero-length files" (readFilenames()): a part that is new stands for a
\* file with something in it.
SkipsEmpty ==
  [][\A f \in Files : part[f] = NoFile /\ part'[f] # NoFile =>
                       ~Deleted(part'[f])]_vars

\* "Equal to files.size() less any files that are deleted()".
CountIsRight ==
  nrOfFiles = Cardinality({f \in Files : Listed(f)})
=============================================================================
