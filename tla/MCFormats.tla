------------------------------ MODULE MCFormats ------------------------------
(***************************************************************************)
(* What bytes go through and what is written in files, in small instances. *)
(*                                                                         *)
(* Bytes: the rolling checksums (RsyncSum64 with windows of data, RsyncSum *)
(* with its halves of a word), the digests (MessageDigest), Base64, the    *)
(* DESC section (DescFormat), and the streams that pack and unpack         *)
(* (Zobstream, Zibstream, Gunzip).                                         *)
(* Texts: the lines of a configuration file and the words of its entries   *)
(* (ConfigFile), the [Servers] of a .jigdo file (JigdoConfig), the .jigdo  *)
(* file that jigdo-file writes (MkJigdo), the URLs of a part (UrlMap), and *)
(* the texts that are put into messages and shown (Subst, ImageInfo).      *)
(*                                                                         *)
(* A behaviour is about one subject, which is chosen at the beginning.     *)
(* The window has its own variables and stays as it was at the beginning   *)
(* while something else is the subject; the others share v1 to v15.        *)
(***************************************************************************)
EXTENDS RsyncSum64, Sequences, TLC

CONSTANTS
  Subjects,
  xText, yText, colon       \* texts of URLs, the last one ending in a colon

VARIABLES subject,
  v1, v2, v3, v4, v5, v6, v7, v8, v9, v10, v11, v12, v13, v14, v15

from14 == <<v14, v15>>
from10 == <<v10, v11, v12, v13, from14>>
from9 == <<v9, from10>>
from8 == <<v8, from9>>
from7 == <<v7, from8>>
from6 == <<v6, from7>>
from3 == <<v3, v4, v5, from6>>
slots == <<v1, v2, from3>>
allVars == <<subject, vars, slots>>

Upto(S, max) == UNION {[1..n -> S] : n \in 0..max}

-----------------------------------------------------------------------------
(* Checksums *)

\* Sums of three bits, twelve values
Data == [n \in 0..MemLen |-> (3 * n * n + 5 * n + 2) % Width]

Prefix == LET f[n \in 0..(MemLen + 1)] == IF n = 0 THEN 0 ELSE f[n - 1] + Data[n - 1]
          IN f

PrefixOfPrefix ==
  LET f[n \in 0..(MemLen + 1)] == IF n = 0 THEN 0 ELSE f[n - 1] + Prefix[n] IN f

\* The sums by their definition
RECURSIVE Weighted(_, _)
Weighted(from, to) ==
  IF from = to THEN 0
  ELSE (to - from) * Mem[from] + Weighted(from + 1, to)

ASSUME HiIsWeighted ==
  \A from \in 0..MemLen, to \in 0..MemLen :
    from <= to => Hi(from, to) = Weighted(from, to)

\* Halves of two bits, an area of up to seven bytes
Area ==
  INSTANCE RsyncSum
    WITH Half <- 4, Bytes <- {0, 2}, CHAR_OFFSET <- 3,
         CharTable <- (0 :> 11 @@ 2 :> 6), MaxArea <- 7,
         area <- v1, sum <- v2, sumLo <- v3, sumHi <- v4

\* A message longer than a word can count; two objects that are copied to each
\* other while they are in use and after finish().
Digest ==
  INSTANCE MessageDigest
    WITH Objects <- {"a"}, Block <- 4, MaxMessage <- 36, MaxChunk <- 10,
         BufSize <- 3, CopyReused <- FALSE,
         alg <- v1, obj <- v2, fed <- v3, top <- v4, returned <- v5
Digests ==
  INSTANCE MessageDigest
    WITH Objects <- {"a", "b"}, Block <- 4, MaxMessage <- 3, MaxChunk <- 4,
         BufSize <- 3, CopyReused <- FALSE,
         alg <- v1, obj <- v2, fed <- v3, top <- v4, returned <- v5

-----------------------------------------------------------------------------
(* Formats *)

\* Bytes with all bits clear, all set, the ends set, and a pattern
Coded ==
  INSTANCE Base64
    WITH Bytes <- {0, 90, 129, 255}, MaxBytes <- 3, Chars <- {0, 16, 63, 200},
         MaxLabel <- 7, ArrayLen <- 4,
         hex <- v1, enc <- v2, written <- v3, flushed <- v4, dec <- v5,
         read <- v6, label <- v7, verdict <- v8

\* Types of entries: see DescFormat.
Entry(type, size, d) ==
  [type |-> type, size |-> size, rsync |-> 15 - d, digest |-> d, blockLength |-> 9]
Unmatched(size) == Entry(2, size, 0)

\* Digests whose bytes look like a type of entries (2), and others; a list of an
\* older version of the program, and the empty image.
Lists ==
  {<<Unmatched(17), Entry(6, 5, 2), Entry(5, 22, 2)>>,
   <<Entry(10, 5, 15), Unmatched(3), Entry(9, 1, 3), Entry(8, 9, 15)>>,
   <<Entry(7, 300, 7), Unmatched(1), Entry(5, 301, 1)>>,
   <<Unmatched(4), Entry(3, 5, 4), Entry(1, 9, 4)>>,
   <<Entry(8, 0, 3)>>}

\* Other data, or an older section
BeforeSection ==
  {<<1, 2, 3>>,
   <<4, 5, 3, 12>> \o <<2, 3, 0, 0, 0, 0>> \o <<2, 3, 0, 0, 0, 0, 0>>
     \o <<5, 3, 0, 0, 0, 0, 0>> \o [n \in 1..16 |-> 1] \o <<9, 0, 0, 0>>
     \o <<2, 3, 0, 0, 0, 0>>}

Changes ==
  {[kind |-> "none"]} \union [kind : {"cut"}, by : 1..70]
  \union [kind : {"byte"}, at : 0..80, value : {0, 2, 6, 15}]

Desc ==
  INSTANCE DescFormat
    WITH Base <- 16, Lists <- Lists, Before <- BeforeSection, MaxLen <- 4096,
         SumChoices <- {"md5", "sha256"}, Changes <- Changes,
         list <- v1, choice <- v2, file <- v3, change <- v4, start <- v5,
         md <- v6, sd <- v7, bufLen <- v8, used <- v9, pos <- v10,
         state <- v11, len <- v12, read <- v13, off <- v14, got <- v15

-----------------------------------------------------------------------------
(* Streams *)

\* zlib, single bytes and arrays, and bzip2, arrays of more than two blocks; as
\* jigdo-file uses the streams, only with write().
Zlib ==
  INSTANCE Zobstream
    WITH Format <- "gz", ChunkLim <- 2, TodoBufSize <- 2, ZIPDATA_SIZE <- 2,
         MaxBytes <- 6, MaxWrite <- 3,
         isOpen <- v1, sent <- v2, todo <- v3, zin <- v4, totalOut <- v5,
         zipBufs <- v6, parts <- v7
Bzip ==
  INSTANCE Zobstream
    WITH Format <- "bz", ChunkLim <- 3, TodoBufSize <- 2, ZIPDATA_SIZE <- 2,
         MaxBytes <- 7, MaxWrite <- 7,
         isOpen <- v1, sent <- v2, todo <- v3, zin <- v4, totalOut <- v5,
         zipBufs <- v6, parts <- v7

Part(id, n, unc) == [id |-> id, len |-> n, unc |-> unc]

\* Parts of both kinds, one that is smaller than the buffer, and the empty one
\* the writer leaves at the end; one read may take all of the second.
Unzip ==
  INSTANCE Zibstream
    WITH Parts <- <<Part("gz", 3, 3), Part("gz", 2, 1), Part("bz", 5, 4), Part("bz", 1, 0)>>,
         BufSize <- 2, MaxRead <- 3,
         pc <- v1, good <- v2, failed <- v3, whole <- v4, left <- v5, part <- v6,
         dataLen <- v7, dataUnc <- v8, z <- v9, used <- v10, given <- v11,
         availIn <- v12, availOut <- v13, got <- v14
UnzipBack ==
  INSTANCE Zibstream
    WITH Parts <- <<Part("bz", 2, 2), Part("bz", 4, 3), Part("gz", 4, 3)>>,
         BufSize <- 3, MaxRead <- 9,
         pc <- v1, good <- v2, failed <- v3, whole <- v4, left <- v5, part <- v6,
         dataLen <- v7, dataUnc <- v8, z <- v9, used <- v10, given <- v11,
         availIn <- v12, availOut <- v13, got <- v14

\* A .gz file after its flags; optional parts of the header, packed data, CRC
Plain(bytes) == [bytes |-> bytes, members |-> << >>, out |-> bytes, bad |-> FALSE]
G == INSTANCE Gunzip
       WITH Files <- {}, OutSize <- 2,
            file <- v1, pc <- v2, next <- v3, availIn <- v4, state <- v5,
            headerFlags <- v6, skip <- v7, data <- v8, member <- v9,
            given <- v10, crc <- v11, availOut <- v12, out <- v13
Member(flags, optional, packed, content) ==
  <<31, 139, 8, flags, 1, 1, 1, 1, 2, 3>> \o optional
    \o [k \in 1..packed |-> IF k = packed THEN G!PackedEnd ELSE G!Packed]
    \o [k \in 1..4 |-> G!CrcByte(content, k)] \o <<9, 9, 9, 9>>
File(bytes, members, content, bad) ==
  [bytes |-> bytes, members |-> members, out |-> content, bad |-> bad]

\* The files of gunzip-test.cc, made shorter: no .gz file, with more and more of
\* a header; a name and no content; extra field, name, comment and checksum of
\* the header; two files, one after the other; a wrong checksum; data that zlib
\* refuses.
GzFiles ==
  {Plain(<<7, 31, 139>>), Plain(<<31, 7, 7>>), Plain(<<31, 139, 7, 31>>),
   File(<<31, 139, 8, 32, 7>>, << >>, << >>, TRUE),
   File(Member(8, <<5, 0>>, 2, << >>), << << >> >>, << >>, FALSE),
   File(Member(30, <<2, 0, 0, 6, 5, 0, 6, 0, 4, 4>>, 2, <<51, 52, 53>>),
        << <<51, 52, 53>> >>, <<51, 52, 53>>, FALSE),
   File(Member(0, << >>, 3, <<51>>) \o Member(16, <<0>>, 1, <<52, 53>>),
        << <<51>>, <<52, 53>> >>, <<51, 52, 53>>, FALSE),
   File(Member(2, <<4, 4>>, 1, <<51, 52>>), << <<51, 51>> >>, <<51, 51>>, TRUE),
   File(<<31, 139, 8, 0, 1, 1, 1, 1, 2, 3, G!Packed, G!PackedBad, G!Packed>>,
        << <<51, 52, 53>> >>, <<51, 52, 53>>, TRUE)}

GzFile ==
  INSTANCE Gunzip
    WITH Files <- GzFiles, OutSize <- 2,
         file <- v1, pc <- v2, next <- v3, availIn <- v4, state <- v5,
         headerFlags <- v6, skip <- v7, data <- v8, member <- v9, given <- v10,
         crc <- v11, availOut <- v12, out <- v13

-----------------------------------------------------------------------------
(* Configuration files *)

FormedLine(kind, name, form) == [kind |-> kind, name |-> name, form |-> form]

\* Up to three lines: two sections, an entry, a comment
C == INSTANCE ConfigFile
       WITH Texts <- {FormedLine("section", "A", "good"), FormedLine("section", "B", "good"),
                      FormedLine("label", "l", "good"), FormedLine("blank", "", "good")},
            Sections <- {"", "A"}, Labels <- {"l"}, MaxLines <- 3,
            text <- v1, list <- v2, nextSect <- v3, reported <- v4, clean <- v5,
            checked <- v6, find <- v7, found <- v8, asserted <- v9

\* Two words, of a letter and of the characters with a meaning, grow.
Chars == {"a", "SQ", "DQ", "BS", " ", "#"}
Grows ==
  \E c \in Chars : \/ Len(v1) < 3 /\ v1' = Append(v1, c) /\ UNCHANGED v2
                   \/ Len(v2) < 2 /\ v2' = Append(v2, c) /\ UNCHANGED v1

-----------------------------------------------------------------------------
(* [Servers], read and looked up *)

ServerEntry(label, ref, text) == [label |-> label, ref |-> ref, text |-> text]
VersionLine(n) == [label |-> "Version", version |-> n]
Section(name, lines) == [name |-> name, lines |-> lines]

Lines == {ServerEntry("A", "none", "x"), ServerEntry("A", "B", "x"), ServerEntry("A", "C", "y"),
          ServerEntry("B", "C", "y"), ServerEntry("C", "none", "x")}
OtherLines == {ServerEntry("none", "none", ""), ServerEntry("A", "none", ""), ServerEntry("B", "http", "y")}
LoopLines == {ServerEntry("A", "none", "x"), ServerEntry("A", "A", "y"), ServerEntry("A", "B", "x"),
              ServerEntry("B", "A", "y"), ServerEntry("C", "A", "x"), ServerEntry("B", "none", "x")}

\* Two [Servers] sections with up to so many of the lines
FilesOf(lines, versions, max, more) ==
  {<<Section("Jigdo", <<VersionLine(n)>>), Section("Servers", s),
     Section("Parts", <<ServerEntry("A", "none", "md5")>>), Section("Servers", r)>> :
     n \in versions, s \in Upto(lines, max), r \in Upto(lines, more)}

ServerFiles == FilesOf(Lines, {1}, 2, 1) \cup FilesOf(LoopLines, {1}, 2, 1)
AgainFiles == FilesOf(Lines \cup LoopLines \cup OtherLines, {1, 2}, 1, 1)

Queries == {ServerEntry("none", r, "q") : r \in {"A", "B", "http", "none"}}

S == INSTANCE JigdoConfig
       WITH Labels <- {"A", "B", "C", "http"}, NoLabel <- "none",
            Files <- ServerFiles,
            Queries <- Queries, FILEFORMAT_MAJOR <- 1, Word <- 256, MaxRescans <- 0,
            config <- v1, entries <- v2, serverMap <- v3, stack <- v4, state <- v5,
            lookup <- v6, results <- v7, rescans <- v8

\* Files that are changed and read again, some with a wrong version
Again ==
  INSTANCE JigdoConfig
    WITH Labels <- {"A", "B", "C", "http"}, NoLabel <- "none",
         Files <- AgainFiles,
         Queries <- Queries, FILEFORMAT_MAJOR <- 1, Word <- 256, MaxRescans <- 1,
         config <- v1, entries <- v2, serverMap <- v3, stack <- v4, state <- v5,
         lookup <- v6, results <- v7, rescans <- v8

-----------------------------------------------------------------------------
(* The .jigdo file that is written *)

J == INSTANCE MkJigdo
       WITH MergeFiles <- {}, Labelings <- {}, Files <- {}, AutoNames <- << >>,
            AddServers <- {}, MaxMatches <- 0,
            merged <- v1, labeling <- v2, addImageSection <- v3,
            addServersSection <- v4, phase <- v5, lines <- v6, locations <- v7,
            jigdoParts <- v8, matchedParts <- v9, servers <- v10, locName <- v11,
            locPaths <- v12, added <- v13

\* Any three lines; a typical file, with other lines in it
AnyFiles ==
  Upto({J!Sect("Parts"), J!Sect("Image"), J!Sect("Servers"), J!Comment, J!Blank,
        J!Entry("m1", <<"A", "f">>), J!Entry("Template-MD5Sum", << >>),
        J!Entry("A", <<"http:">>)}, 3)
TypicalFiles ==
  {<<J!Comment, J!Sect("Jigdo"), J!Entry("Version", <<"1.2">>), J!Blank, J!Sect("Image"),
     named, J!Blank, J!Sect("Servers"), server, J!Blank, more, J!Sect("Parts"),
     J!Entry("m1", <<"A", "f">>), last>> :
     named \in {J!Blank, J!Entry("Template-MD5Sum", <<"old">>),
                J!Entry("Template-MD5Sum", << >>)},
     server \in {J!Blank, J!Comment, J!Entry("A", <<"file:q">>),
                 J!Entry("B", <<"http:">>)},
     more \in {J!Sect("Image"), J!Sect("Servers"), J!Comment},
     last \in {J!Entry("Template-MD5Sum", << >>), J!Entry("m1", <<"B", "f">>),
               J!Sect("Servers"), J!Comment, J!Line("junk", "", <<"x">>)}}

\* The same file in two places, under the same name and under another
CachedFile(path, leaf, csum) == [path |-> path, leaf |-> leaf, csum |-> csum]
SomeFiles ==
  {CachedFile("p", "f", "m1"), CachedFile("q", "f", "m2"), CachedFile("q", "g", "m3")}
Copies == {CachedFile("p", "f", "m1"), CachedFile("p", "g", "m3"),
           CachedFile("q", "f", "m2"), CachedFile("q", "g", "m3")}
Labelings == {<< >>, <<[label |-> "L", path |-> "q", uri |-> "file:q"]>>}

Merge ==
  INSTANCE MkJigdo
    WITH MergeFiles <- AnyFiles, Labelings <- Labelings, Files <- SomeFiles,
         AutoNames <- <<"A", "B", "AA">>, AddServers <- BOOLEAN, MaxMatches <- 1,
         merged <- v1, labeling <- v2, addImageSection <- v3,
         addServersSection <- v4, phase <- v5, lines <- v6, locations <- v7,
         jigdoParts <- v8, matchedParts <- v9, servers <- v10, locName <- v11,
         locPaths <- v12, added <- v13
Typical ==
  INSTANCE MkJigdo
    WITH MergeFiles <- TypicalFiles, Labelings <- Labelings, Files <- Copies,
         AutoNames <- <<"A", "B", "AA">>, AddServers <- {TRUE}, MaxMatches <- 2,
         merged <- v1, labeling <- v2, addImageSection <- v3,
         addServersSection <- v4, phase <- v5, lines <- v6, locations <- v7,
         jigdoParts <- v8, matchedParts <- v9, servers <- v10, locName <- v11,
         locPaths <- v12, added <- v13

-----------------------------------------------------------------------------
(* URLs *)

MapLine(label, prepend, text, weight) ==
  [label |-> label, prepend |-> prepend, text |-> text, weight |-> weight]

\* Parts with and without labels, with options; labels with two alternatives,
\* one by way of the other label.
U == INSTANCE UrlMap
       WITH Labels <- {"A", "B", "http"}, Texts <- {xText, yText, colon},
            EndsInColon <- {colon}, NoLabel <- "none",
            ServerLines <- {MapLine("A", "http", xText, 0), MapLine("A", "B", yText, 4),
                            MapLine("B", "http", xText, -4), MapLine("B", "http", yText, 0),
                            MapLine("A", "B", xText, 3)},
            PartLines <- {MapLine("none", "A", xText, 0), MapLine("none", "B", yText, 2),
                          MapLine("none", "none", xText, 1),
                          MapLine("none", "A", yText, 0)},
            BadLines <- {MapLine("A", "B", xText, 3), MapLine("none", "A", yText, 0)},
            InitialWeights <- {0}, OneLineEach <- FALSE,
            MaxLines <- 4, MaxCalls <- 8, MaxReturned <- 8,
            objects <- v1, servers <- v2, part <- v3, accepted <- v4, seen <- v5,
            returned <- v6, state <- v7

\* Each label has one line, which may be recursive.
UrlLoops ==
  INSTANCE UrlMap
    WITH Labels <- {"A", "B", "http"}, Texts <- {xText, yText, colon},
         EndsInColon <- {colon}, NoLabel <- "none",
         ServerLines <- {MapLine("A", "B", xText, 0), MapLine("B", "A", yText, 0),
                         MapLine("A", "A", xText, 0), MapLine("B", "http", xText, 0),
                         MapLine("http", "A", yText, 0), MapLine("A", "none", yText, 0)},
         PartLines <- {MapLine("none", "A", xText, 0)}, BadLines <- {},
         InitialWeights <- {0}, OneLineEach <- TRUE,
         MaxLines <- 3, MaxCalls <- 8, MaxReturned <- 8,
         objects <- v1, servers <- v2, part <- v3, accepted <- v4, seen <- v5,
         returned <- v6, state <- v7

-----------------------------------------------------------------------------
(* Texts *)

Str(s) == [type |-> "string", val |-> s]

Messages ==
  INSTANCE Subst
    WITH Alphabet <- {"%", "1", "2", "F", "L", "E", "<"},
         Args <- {<<Str(s)>> : s \in {<<"a", "<", "hi", "lo">>, <<"<", "lo", "a">>, <<"hi">>}}
           \cup {<<[type |-> "number", val |-> <<"a", "a">>], Str(<<"hi", "lo", "<">>)>>,
                 <<[type |-> "char", val |-> <<"<">>]>>,
                 <<Str(<< >>), [type |-> "char", val |-> <<"hi">>]>>},
         MaxFormat <- 4,
         format <- v1, args <- v2, escape <- v3, flags <- v4, result <- v5,
         ended <- v6

Info ==
  INSTANCE ImageInfo
    WITH Styles <- {"b"}, Strange <- {"p"}, Chars <- {<<"a", 0>>, <<"<", 1>>, <<"<", 2>>},
         KeepsEntities <- TRUE, MaxInfo <- 3,
         escapedText <- v1, info <- v2, elements <- v3, depth <- v4, output <- v5,
         err <- v6, done <- v7

ASSUME Area!RsyncAssumption
ASSUME Digest!DigestAssumption
ASSUME Digests!DigestAssumption
ASSUME Coded!Base64Assumption
ASSUME Desc!DescAssumption
ASSUME Zlib!ZobstreamAssumption
ASSUME Bzip!ZobstreamAssumption
ASSUME Unzip!ZibstreamAssumption
ASSUME UnzipBack!ZibstreamAssumption
ASSUME S!JigdoConfigAssumption
ASSUME Again!JigdoConfigAssumption
ASSUME U!UrlMapAssumption
ASSUME UrlLoops!UrlMapAssumption
ASSUME Messages!SubstAssumption
ASSUME Info!ImageInfoAssumption

-----------------------------------------------------------------------------
(* The behaviours *)

From14 == v14 = "idle" /\ v15 = "idle"
From10 == v10 = "idle" /\ v11 = "idle" /\ v12 = "idle" /\ v13 = "idle" /\ From14
From9 == v9 = "idle" /\ From10
From8 == v8 = "idle" /\ From9
From7 == v7 = "idle" /\ From8
From6 == v6 = "idle" /\ From7
From5 == v5 = "idle" /\ From6
From3 == v3 = "idle" /\ v4 = "idle" /\ From5
NoSlots == v1 = "idle" /\ v2 = "idle" /\ From3

SuiteInit ==
  /\ subject \in Subjects
  /\ Init
  /\ subject = "window" \/ front = 0
  /\ \/ subject = "window" /\ NoSlots
     \/ subject = "area" /\ Area!Init /\ From5
     \/ subject = "digest" /\ Digest!Init /\ From6
     \/ subject = "digests" /\ Digests!Init /\ From6
     \/ subject = "base64" /\ Coded!Init /\ From9
     \/ subject = "desc" /\ Desc!Init
     \/ subject = "zlib" /\ Zlib!Init /\ From8
     \/ subject = "bzip" /\ Bzip!Init /\ From8
     \/ subject = "bzipwrite" /\ Bzip!Init /\ From8
     \/ subject = "unzip" /\ Unzip!Init /\ v15 = "idle"
     \/ subject = "unzipback" /\ UnzipBack!Init /\ v15 = "idle"
     \/ subject = "gunzip" /\ GzFile!Init /\ From14
     \/ subject = "lines" /\ C!Init /\ From10
     \/ subject = "words" /\ v1 = << >> /\ v2 = << >> /\ From3
     \/ subject = "servers" /\ S!Init /\ From9
     \/ subject = "rescans" /\ Again!Init /\ From9
     \/ subject = "merge" /\ Merge!Init /\ From14
     \/ subject = "typical" /\ Typical!Init /\ From14
     \/ subject = "urls" /\ U!Init /\ From8
     \/ subject = "urlloops" /\ UrlLoops!Init /\ From8
     \/ subject = "messages" /\ Messages!Init /\ From7
     \/ subject = "info" /\ Info!Init /\ From8

SuiteNext ==
  /\ UNCHANGED subject
  /\ \/ subject = "window" /\ Next /\ UNCHANGED slots
     \/ subject = "area" /\ Area!Next /\ UNCHANGED <<vars, v5, from6>>
     \/ subject = "digest" /\ Digest!Next /\ UNCHANGED <<vars, from6>>
     \/ subject = "digests" /\ Digests!Next /\ UNCHANGED <<vars, from6>>
     \/ subject = "base64" /\ Coded!Next /\ UNCHANGED <<vars, from9>>
     \/ subject = "desc" /\ Desc!Next /\ UNCHANGED vars
     \/ subject = "zlib" /\ Zlib!Next /\ UNCHANGED <<vars, from8>>
     \/ subject = "bzip" /\ Bzip!Next /\ UNCHANGED <<vars, from8>>
     \/ subject = "bzipwrite" /\ Bzip!WriteOnly /\ UNCHANGED <<vars, from8>>
     \/ subject = "unzip" /\ Unzip!Next /\ UNCHANGED <<vars, v15>>
     \/ subject = "unzipback" /\ UnzipBack!Next /\ UNCHANGED <<vars, v15>>
     \/ subject = "gunzip" /\ GzFile!Next /\ UNCHANGED <<vars, from14>>
     \/ subject = "lines" /\ C!Next /\ UNCHANGED <<vars, from10>>
     \/ subject = "words" /\ Grows /\ UNCHANGED <<vars, from3>>
     \/ subject = "servers" /\ S!Next /\ UNCHANGED <<vars, from9>>
     \/ subject = "rescans" /\ Again!Next /\ UNCHANGED <<vars, from9>>
     \/ subject = "merge" /\ Merge!Next /\ UNCHANGED <<vars, from14>>
     \/ subject = "typical" /\ Typical!Next /\ UNCHANGED <<vars, from14>>
     \/ subject = "urls" /\ U!Next /\ UNCHANGED <<vars, from8>>
     \/ subject = "urlloops" /\ UrlLoops!Next /\ UNCHANGED <<vars, from8>>
     \/ subject = "messages" /\ Messages!Next /\ UNCHANGED <<vars, from7>>
     \/ subject = "info" /\ Info!Next /\ UNCHANGED <<vars, from8>>

\* A call that has begun goes on: read(), inject(), rescan(); the lines of a
\* .jigdo file come to an end, and whoever wants the URLs of a part goes on
\* asking.
Goes ==
  /\ UNCHANGED <<subject, vars>>
  /\ \/ subject = "unzip" /\ Unzip!InRead /\ UNCHANGED v15
     \/ subject = "gunzip" /\ GzFile!InInject /\ UNCHANGED from14
     \/ subject = "servers" /\ S!Rescanning /\ UNCHANGED from9
     \/ subject = "urls" /\ (U!LinesEnd \/ U!Enumerate) /\ UNCHANGED from8

SuiteSpec == SuiteInit /\ [][SuiteNext]_allVars /\ WF_allVars(Goes)

-----------------------------------------------------------------------------
(* Properties; SumOfWindow is that of RsyncSum64. *)

\* In whatever pieces the data comes: packing loses nothing and keeps the order,
\* parts are as long as their headers say, and unpacking gives all of it back,
\* or what there was before the file was cut.
StreamsRight ==
  /\ subject = "zlib" =>
       Zlib!TypeOK /\ Zlib!NothingLost /\ Zlib!AllWritten /\ Zlib!LengthRight
  /\ subject = "bzip" => Bzip!NothingLost /\ Bzip!BlockExact
  /\ subject = "bzipwrite" => Bzip!AllWritten
  /\ subject = "unzip" =>
       Unzip!TypeOK /\ Unzip!InOrder /\ Unzip!LengthsAgree /\ Unzip!ReadsAll
  /\ subject = "unzipback" => 
       /\ UnzipBack!InOrder /\ UnzipBack!LengthsAgree
       /\ UnzipBack!ReadsAll /\ UnzipBack!WholeFile
  /\ subject = "gunzip" =>
       GzFile!TypeOK /\ GzFile!InputThere /\ GzFile!OutputRight /\ GzFile!AllGiven

\* Checksums, digests and Base64 are those of their definitions, also when a
\* word overflows, when objects are copied or used again.  A DESC section fits
\* into its buffer, is given to the digest of the template, is read back as it
\* was written, and damage is not taken for another image.
FormatsRight ==
  /\ subject = "area" => Area!SumRight /\ Area!Sum64Right
  /\ subject = "digest" =>
       /\ Digest!TypeOK /\ Digest!BufferBounded /\ Digest!NothingLostOrReordered
       /\ Digest!DigestCorrect /\ Digest!StreamCounted
  /\ subject = "digests" => Digests!NothingLostOrReordered /\ Digests!DigestCorrect
  /\ subject = "base64" =>
       /\ Coded!TypeOK /\ Coded!EncodedRight /\ Coded!DecodedRight
       /\ Coded!TrailerRight /\ Coded!OneLabelEach
  /\ subject = "desc" =>
       /\ Desc!TypeOK /\ Desc!BufferFits /\ Desc!ChosenSumComplete
       /\ Desc!RoundTrip /\ Desc!AcceptedIsConsistent /\ Desc!DamageDetected

\* No call of read() or inject() hangs.
CallsReturn ==
  /\ []<>(subject = "unzip" => Unzip!Idle)
  /\ []<>(subject = "gunzip" => GzFile!Idle)

\* Of configuration files and .jigdo files: searches find all entries of a
\* name, quoted words remain words, servers are what their lines say even if
\* labels refer to each other, a merged file keeps its lines and gets each part
\* once, and the URLs of a part are those of its lines, each once, best first.
FilesRight ==
  /\ subject = "lines" => C!TypeOK /\ C!RingInOrder /\ C!FindsAll
  /\ subject = "words" => C!QuotedAreWords(v1, v2) /\ C!EscapedIsOneWord(v1, v2)
  /\ subject = "servers" =>
       S!TypeOK /\ S!HeldLinesStay /\ S!MapExpands /\ S!LookupsComplete
  /\ subject = "rescans" => Again!TypeOK /\ Again!MapExpands /\ Again!LookupsComplete
  /\ subject = "merge" =>
       Merge!TypeOK /\ Merge!MergedKept /\ Merge!PartsLast /\ Merge!PartsResolve
  /\ subject = "typical" =>
       /\ Typical!MergedKept /\ Typical!ListedOnce
       /\ Typical!TemplateNamed /\ Typical!LabelsDistinct
  /\ subject = "urls" => U!TypeOK /\ U!AllUrlsReturned /\ U!OnceEach /\ U!BestFirst
  /\ subject = "urlloops" => UrlLoops!HeadsEnd /\ UrlLoops!Acyclic

\* What is put into a message or shown is text and markup that the widgets
\* accept, with nothing of the text lost and nothing of it taken for markup.
TextsRight ==
  /\ subject = "messages" =>
       /\ Messages!TypeOK /\ Messages!OutputIsUtf8
       /\ Messages!EscapedIsText /\ Messages!FlagsAreItsOwn
  /\ subject = "info" =>
       Info!TypeOK /\ Info!IsMarkup /\ Info!TextIsKept /\ Info!AllOrNothing

\* "Infinite recursion due to a loop of labels referencing each other is not
\* possible": rescan() ends, whatever the file; and so do the URLs of a part.
RecursionEnds ==
  /\ []<>(subject = "servers" => S!Rescanned)
  /\ <>(subject = "urls" => U!AllEnumerated)
=============================================================================
