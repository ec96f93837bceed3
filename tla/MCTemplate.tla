------------------------------ MODULE MCTemplate ------------------------------
(***************************************************************************)
(* What make-template is made of, in small instances: the scan of the      *)
(* image (MkTemplate) with several sets of files, the queue of partial     *)
(* matches as it is written (PartialMatchList), the list of files with     *)
(* their checksums (JigdoCache), the file they are cached in (CacheFile)   *)
(* and the names on the command line (RecurseDir).                         *)
(*                                                                         *)
(* The components are independent of each other: a behaviour is about one  *)
(* of them, which is chosen at the beginning.  The scan has its own        *)
(* variables, the others share the slots v1 to v10.                        *)
(*                                                                         *)
(* With BlockLength 2, CsumBlockLength 3, ReadAmount 3 and Slack 1 the     *)
(* buffer has 7 bytes: an image of 8 or more bytes outgrows it, and so     *)
(* does a file of 8 bytes, whose partial match has to be re-read when its  *)
(* last block differs.                                                     *)
(***************************************************************************)
EXTENDS MkTemplate, TLC

CONSTANTS Subjects, Null, Head1, FreeHead, X, Y, Z

VARIABLES subject, v1, v2, v3, v4, v5, v6, v7, v8, v9, v10

slots == <<v1, v2, v3, v4, v5, v6, v7, v8, v9, v10>>
allVars == <<subject, vars, slots>>

-----------------------------------------------------------------------------
(* The scan *)

Strings(lens) == UNION {[1..k -> {0, 1}] : k \in lens}
AllImages == Strings(0..10)
LongImages == [1..10 -> {0, 1}]

\* A RsyncSum that ignores the order of the bytes, and one for BlockLength 1.
WeakSum(s) == s[1] + s[2]
FirstByte(s) == s[1]

\* tiny is kicked out; short has one block and occurs inside of long, which
\* has three blocks and does not fit into the buffer.
TinyShortLong == <<"tiny", "short", "long">>
TinyShortLongData ==
  [tiny |-> <<1>>, short |-> <<1, 0, 1>>, long |-> <<1, 1, 0, 0, 1, 0, 1, 1>>]

\* Files get lost or the program that --match-exec names fails.
Lossy ==
  INSTANCE MkTemplate
    WITH Images <- {s \in LongImages : s[1] = 1 /\ s[4] = 0},
         ReadAmount <- 2, MatchExecFails <- {FALSE, TRUE}, MaxLost <- 1,
         TemplateMayFail <- TRUE

\* Two files with the same two first blocks, and one with the same window;
\* scanned without GreedyMatching.
SamePrefixData ==
  [long |-> <<0, 1, 1, 0, 0, 1, 1, 0>>, mid |-> <<0, 1, 1, 0, 0, 1>>,
   short |-> <<1, 0>>]
NoGreedy ==
  INSTANCE MkTemplate
    WITH Images <- {s \in AllImages : Len(s) \in {7, 9}}, ReadAmount <- 2,
         FileSeq <- <<"long", "mid", "short">>, Content <- SamePrefixData,
         WholeScanned <- {"short"}, GreedyMatching <- FALSE

\* Both files start with zeroes, so that they compete for the queue; long has
\* zeroes again when its start has already left the buffer.
ZeroHeadsData ==
  [long |-> <<0, 1, 1, 1, 1, 1, 1, 0, 0>>, short |-> <<0, 0, 1, 0>>]
Full2 ==
  INSTANCE MkTemplate
    WITH Images <- {s \in LongImages : s[2] = 0 \/ s[6] = 1},
         FileSeq <- <<"long", "short">>, Content <- ZeroHeadsData,
         RsyncSum <- FirstByte, BlockLength <- 1, MaxMatches <- 2

List ==
  INSTANCE PartialMatchList
    WITH Offsets <- {0, 3}, Events <- {1},
         nextPart <- v1, startOff <- v2, nextEv <- v3, pc <- v4, this <- v5,
         x <- v6, xIndir <- v7, arg <- v8, sectorLength <- v9, before <- v10

-----------------------------------------------------------------------------
(* The files *)

\* Contents of two blocks of checksums and more, two of one size, one of
\* another; contents with no whole block and with just one.
Sizes == (X :> 5 @@ Y :> 5)
OtherSizes == (X :> 5 @@ Z :> 6)
ShortSizes == (X :> 2 @@ Z :> 3)

\* The default of make-template, and with another --min-length or another
\* --checksum-block-size; with --no-check-files.
Cache ==
  INSTANCE JigdoCache
    WITH Files <- {"f"}, Contents <- {X, Y}, SizeOf <- Sizes,
         Params <- {<<1, 3, TRUE>>, <<2, 3, TRUE>>, <<1, 2, TRUE>>},
         ReadAmount <- 2, Expiry <- 1, ParamsChange <- FALSE,
         ReadErrors <- FALSE, MaxTime <- 2,
         now <- v1, disk <- v2, past <- v3, db <- v4, params <- v5,
         part <- v6, nrOfFiles <- v7, seen <- v8, answer <- v9, used <- v10

NoCheck ==
  INSTANCE JigdoCache
    WITH Files <- {"f"}, Contents <- {X, Z}, SizeOf <- OtherSizes,
         Params <- {<<1, 3, TRUE>>, <<1, 3, FALSE>>},
         ReadAmount <- 2, Expiry <- 1, ParamsChange <- FALSE,
         ReadErrors <- TRUE, MaxTime <- 3,
         now <- v1, disk <- v2, past <- v3, db <- v4, params <- v5,
         part <- v6, nrOfFiles <- v7, seen <- v8, answer <- v9, used <- v10

Short ==
  INSTANCE JigdoCache
    WITH Files <- {"f"}, Contents <- {X, Z}, SizeOf <- ShortSizes,
         Params <- {<<1, 3, TRUE>>},
         ReadAmount <- 2, Expiry <- 1, ParamsChange <- FALSE,
         ReadErrors <- FALSE, MaxTime <- 1,
         now <- v1, disk <- v2, past <- v3, db <- v4, params <- v5,
         part <- v6, nrOfFiles <- v7, seen <- v8, answer <- v9, used <- v10

\* "/x" is stored as "x", "y" as it is.  The sizes and the times are such that
\* some do not fit into their bytes.
Leaves == ("/x" :> "x" @@ "y" :> "y")
Db ==
  INSTANCE CacheFile
    WITH Names <- {"/x", "y"}, Keys <- {"/x", "x", "y"}, LeafName <- Leaves,
         NameAsKey <- [k \in {"/x", "y"} |-> k], UserData <- {"u"},
         Sizes <- {1, 5}, MTimes <- {2, 9}, TimeWord <- 8, SizeWord <- 4,
         Expiry <- 2, MaxTime <- 9, DbErrors <- FALSE, NoCheckFiles <- FALSE,
         now <- v1, cacheFile <- v2, entries <- v3, data <- v4, result <- v5,
         put <- v6, used <- v7

\* Calls of libdb fail, and files are looked up by their names alone.
DbFails ==
  INSTANCE CacheFile
    WITH Names <- {"/x", "y"}, Keys <- {"/x", "x", "y"}, LeafName <- Leaves,
         NameAsKey <- [k \in {"/x", "y"} |-> k], UserData <- {"u", "v"},
         Sizes <- {1}, MTimes <- {2, 9}, TimeWord <- 8, SizeWord <- 4,
         Expiry <- 2, MaxTime <- 3, DbErrors <- TRUE, NoCheckFiles <- TRUE,
         now <- v1, cacheFile <- v2, entries <- v3, data <- v4, result <- v5,
         put <- v6, used <- v7

\* top holds sub, c, and a dangling link; sub a link back to top, a, and a link
\* out to far; away other names of b and c, and a link to sub; far, which can
\* only be reached by the link, b and a link to away.
Hard(to) == [link |-> FALSE, to |-> to]
Soft(to) == [link |-> TRUE, to |-> to]
Dangling == Soft("broken")
FileSystem ==
  [top |-> [n |-> Hard("sub"), m |-> Hard("c"), l |-> Dangling],
   sub |-> [n |-> Soft("top"), m |-> Hard("a"), l |-> Soft("far")],
   away |-> [n |-> Hard("b"), m |-> Hard("c"), l |-> Soft("sub")],
   far |-> [n |-> Hard("b"), m |-> Hard("absent"), l |-> Soft("away")]]

\* The arguments are a directory, and a link to another; the lists name a file,
\* a dangling link and a directory that has been visited.
Tree ==
  INSTANCE RecurseDir
    WITH Dirs <- {"top", "sub", "away", "far"}, Regular <- {"a", "b", "c"},
         Names <- {"n", "m", "l"}, Tree <- FileSystem,
         Args <- <<Hard("away"), Soft("top")>>,
         Lists <- << <<Hard("b"), Dangling>>, <<Soft("sub")>> >>, MaxErrors <- 2,
         checkFiles <- v1, recurseStack <- v2, objects <- v3, objectsFrom <- v4,
         beenThere <- v5, output <- v6, done <- v7, errors <- v8, lost <- v9

ASSUME Lossy!ScanAssumption
ASSUME NoGreedy!ScanAssumption
ASSUME Full2!ScanAssumption
ASSUME List!ListAssumption
ASSUME Cache!CacheAssumption
ASSUME NoCheck!CacheAssumption
ASSUME Short!CacheAssumption
ASSUME Db!CacheFileAssumption
ASSUME DbFails!CacheFileAssumption
ASSUME Tree!TreeAssumption

-----------------------------------------------------------------------------
(* The behaviours *)


Scans == {"greedy", "lossy", "nogreedy", "full"}

NoScan ==
  /\ image = "idle" /\ eof = "idle" /\ pc = "idle" /\ buf = "idle" /\ data = "idle"
  /\ off = "idle" /\ n = "idle" /\ rsumBack = "idle" /\ nextEvent = "idle"
  /\ fast = "idle" /\ todo = "idle" /\ matches = "idle" /\ sectorLength = "idle"
  /\ out = "idle" /\ matchedParts = "idle" /\ fpState = "idle" /\ lost = "idle"
  /\ dropped = "idle" /\ result = "idle"

NoSlots ==
  /\ v1 = "idle" /\ v2 = "idle" /\ v3 = "idle" /\ v4 = "idle" /\ v5 = "idle"
  /\ v6 = "idle" /\ v7 = "idle" /\ v8 = "idle" /\ v9 = "idle" /\ v10 = "idle"

SuiteInit ==
  /\ subject \in Subjects
  /\ \/ subject = "greedy" /\ Init /\ NoSlots
     \/ subject = "lossy" /\ Lossy!Init /\ NoSlots
     \/ subject = "nogreedy" /\ NoGreedy!Init /\ NoSlots
     \/ subject = "full" /\ Full2!Init /\ NoSlots
     \/ subject = "list" /\ List!Init /\ NoScan
     \/ subject = "cache" /\ Cache!Init /\ NoScan
     \/ subject = "nocheck" /\ NoCheck!Init /\ NoScan
     \/ subject = "short" /\ Short!Init /\ NoScan
     \/ subject = "db" /\ Db!Init /\ NoScan /\ v8 = "idle" /\ v9 = "idle" /\ v10 = "idle"
     \/ subject = "dbfails" /\ DbFails!Init /\ NoScan
        /\ v8 = "idle" /\ v9 = "idle" /\ v10 = "idle"
     \/ subject = "tree" /\ Tree!Init /\ NoScan /\ v10 = "idle"

SuiteNext ==
  /\ UNCHANGED subject
  /\ \/ subject = "greedy" /\ Next /\ UNCHANGED slots
     \/ subject = "lossy" /\ Lossy!Next /\ UNCHANGED slots
     \/ subject = "nogreedy" /\ NoGreedy!Next /\ UNCHANGED slots
     \/ subject = "full" /\ Full2!Next /\ UNCHANGED slots
     \/ subject = "list" /\ List!Next /\ UNCHANGED vars
     \/ subject = "cache" /\ Cache!Next /\ UNCHANGED vars
     \/ subject = "nocheck" /\ NoCheck!Next /\ UNCHANGED vars
     \/ subject = "short" /\ Short!Next /\ UNCHANGED vars
     \/ subject = "db" /\ Db!Next /\ UNCHANGED <<vars, v8, v9, v10>>
     \/ subject = "dbfails" /\ DbFails!Next /\ UNCHANGED <<vars, v8, v9, v10>>
     \/ subject = "tree" /\ Tree!Next /\ UNCHANGED <<vars, v10>>

\* The loops of the sequential program go on.
Goes ==
  /\ UNCHANGED subject
  /\ \/ subject = "greedy" /\ ScanStep /\ UNCHANGED slots
     \/ subject = "list" /\ List!Loops /\ UNCHANGED vars
     \/ subject = "tree" /\ Tree!Step /\ UNCHANGED <<vars, v10>>

SuiteSpec == SuiteInit /\ [][SuiteNext]_allVars /\ WF_allVars(Goes)

-----------------------------------------------------------------------------
(* Properties *)

\* Also when files get lost, small matches are preferred or the queue is too
\* short, what make-template reports as a success can be undone by make-image.
ImageRebuilt ==
  /\ subject = "lossy" =>
       Lossy!TypeOK /\ Lossy!TemplateRebuildsImage /\ Lossy!DescCoversImage
  /\ subject = "nogreedy" => NoGreedy!TypeOK /\ NoGreedy!TemplateRebuildsImage
  /\ subject = "full" => Full2!TypeOK /\ Full2!TemplateRebuildsImage

\* With a full queue, fastForward passes over no window that is at a multiple
\* of the assumed sector length, and no loop over pointers loses or misplaces
\* an entry: each method does to the list what it promises for the queue.
QueueFollowed ==
  [][/\ subject = "full" => Full2!AlignedStep
     /\ subject = "list" => List!ListStep]_allVars

\* The objects of the queue are all on one of its two lists, the queue is
\* sorted, and the entry that is given up is the one that should be.
QueueRight ==
  subject = "list" => /\ List!TypeOK /\ List!NoneLost
                   /\ List!Sorted /\ List!FoundAsDefined

\* The checksums used for a file are those of what it has contained since it
\* was listed, whatever the cache said; what the cache finds is what was put
\* in for this size and time, with libdb failing or not.
CacheRight ==
  /\ subject = "cache" => /\ Cache!TypeOK /\ Cache!SumIsRight
                       /\ Cache!EntriesRight /\ Cache!PartStates
  /\ subject = "nocheck" => NoCheck!SumIsRight
  /\ subject = "db" => Db!TypeOK /\ Db!FoundIsStored /\ Db!HeaderIsRight
  /\ subject = "dbfails" => DbFails!HeaderIsRight

\* An entry that is used is not removed before its time, and one that is not
\* used is removed after it, even when the clock has wrapped around.
CacheKept ==
  [][/\ subject = "cache" => Cache!KeptStep
     /\ subject = "nocheck" => NoCheck!KeptStep
     /\ subject = "db" => Db!ExpiresStep]_allVars

\* Each file that can be reached is listed once, by its normal name if it has
\* one, whatever links lead where.
TreeListed ==
  subject = "tree" => /\ Tree!TypeOK /\ Tree!OneNameEach
                   /\ Tree!AllAreReached /\ Tree!NormalNames

\* The walks over pointers and over directories come to an end.
WalksEnd ==
  /\ []<>(subject = "list" => List!Idle)
  /\ <>(subject = "tree" => Tree!Exhausted)

\* Claimed (FilePart::getMD5Sums): "the md5 checksums for all chunks".
SmallFilesRight == subject = "short" => Short!SumIsRight
=============================================================================
