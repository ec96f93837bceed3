----------------------------- MODULE MCDownloads -----------------------------
(***************************************************************************)
(* The program jigdo in small instances.  What runs below its windows: the *)
(* threads and the main loop under libcurl (GlibCurl, GlibCurlPoll), the   *)
(* download of one URL (GtkSingleUrl), files of the cache (CachedUrl), the *)
(* tree of .jigdo files (JigdoIO), the files an image needs                *)
(* (ChildDownloads), and the proxies (ProxyGuess).  And what is seen of    *)
(* it: the list of jobs (JobLines), its dialogs (Dialogs), speed and time  *)
(* (Progress), with what tells about changes (IOSource) and what keeps     *)
(* objects alive (SmartPtr).                                               *)
(*                                                                         *)
(* A behaviour is about one subject, which is chosen at the beginning.     *)
(* GlibCurl has its own variables and stays as it was at the beginning     *)
(* while something else is the subject; the others share v1 to v14.        *)
(***************************************************************************)
EXTENDS GlibCurl, Integers, Sequences, TLC

CONSTANTS
  Subjects,
  o1, o2, o3, r1, r2, weak1, weak2, nil   \* model values, for SmartPtr

VARIABLES subject, v1, v2, v3, v4, v5, v6, v7, v8, v9, v10, v11, v12, v13, v14

from12 == <<v12, v13, v14>>
from11 == <<v11, from12>>
from10 == <<v10, from11>>
from9 == <<v9, from10>>
from8 == <<v8, from9>>
from7 == <<v7, from8>>
from6 == <<v6, from7>>
from5 == <<v5, from6>>
slots == <<v1, v2, v3, v4, from5>>
allVars == <<subject, vars, slots>>

-----------------------------------------------------------------------------
(* Transfers *)

\* Three transfers in the main loop alone
Polling ==
  INSTANCE GlibCurlPoll
    WITH Transfers <- {"a", "b", "c"}, Silent <- FALSE, MaxAdds <- 4,
         loop <- v1, phase <- v2, events <- v3, fdMax <- v4, revents <- v5,
         callPerform <- v6, adds <- v7

\* An object of four blocks, and files that were there before; a file that
\* must end before the object does, with all buttons.
Download ==
  INSTANCE GtkSingleUrl
    WITH N <- 4, RESUME_SIZE <- 2, MAX_TRIES <- 3, DestEnd <- 0, ReAdd <- TRUE,
         OldFiles <- {1, 3, 4, 5}, Announced <- {TRUE, FALSE}, Ranges <- TRUE,
         DiskFull <- TRUE, OpenFails <- FALSE, Buttons <- {"Start", "Stop"},
         MaxClicks <- 2, Owner <- "GtkSingleUrl",
         file <- v1, line <- v2, single <- v3, download <- v4, net <- v5,
         inPerform <- v6, told <- v7, late <- v8, crashed <- v9, clicks <- v10
InDestination ==
  INSTANCE GtkSingleUrl
    WITH N <- 3, RESUME_SIZE <- 1, MAX_TRIES <- 3, DestEnd <- 2, ReAdd <- TRUE,
         OldFiles <- {1}, Announced <- {TRUE, FALSE}, Ranges <- TRUE,
         DiskFull <- TRUE, OpenFails <- TRUE,
         Buttons <- {"Start", "Stop", "Quick", "Restart", "Early"},
         MaxClicks <- 3, Owner <- "GtkSingleUrl",
         file <- v1, line <- v2, single <- v3, download <- v4, net <- v5,
         inPerform <- v6, told <- v7, late <- v8, crashed <- v9, clicks <- v10

\* Objects at two addresses that are deleted, and followed by the next in the
\* same call if they failed; at three that end.
Spooled ==
  INSTANCE CachedUrl
    WITH Addresses <- {1, 2}, Priorities <- {1, 2}, Pieces <- 2, MaxJobs <- 3,
         MaxSources <- 2, Deletes <- TRUE, Retries <- TRUE, Word <- 32,
         FirstSpeed <- 5, Speeds <- {2, 5, 15}, CoarseClock <- FALSE,
         job <- v1, active <- v2, sources <- v3, inside <- v4, readSpeed <- v5,
         crashed <- v6, created <- v7, reused <- v8
Kept ==
  INSTANCE CachedUrl
    WITH Addresses <- {1, 2, 3}, Priorities <- {1, 2}, Pieces <- 1, MaxJobs <- 3,
         MaxSources <- 2, Deletes <- FALSE, Retries <- FALSE, Word <- 32,
         FirstSpeed <- 5, Speeds <- {1, 2, 15, 31}, CoarseClock <- TRUE,
         job <- v1, active <- v2, sources <- v3, inside <- v4, readSpeed <- v5,
         crashed <- v6, created <- v7, reused <- v8

-----------------------------------------------------------------------------
(* Images *)

Inc(u) == << [kind |-> "include", what |-> u] >>
Other == << [kind |-> "section"] >>
Bad == << [kind |-> "bad"] >>
Header == << [kind |-> "Image"] >>
Entries == << [kind |-> "entry", what |-> "Filename"],
              [kind |-> "entry", what |-> "Template"],
              [kind |-> "entry", what |-> "Template-MD5Sum"] >>
Img == Header \o Entries
Web(fr, fa, fb, fc) == [u \in {"r", "a", "b", "c"} |->
  CASE u = "r" -> fr [] u = "a" -> fa [] u = "b" -> fb [] u = "c" -> fc]

\* [Image] sections at all places of a tree of four files
Trees ==
  {Web(Inc("a") \o Img \o Inc("b"), Inc("c"), Img, Other),
   Web(Inc("a") \o Inc("b"), Other, Inc("c") \o Img, Img),
   Web(Inc("a") \o Inc("b"), Other, Img \o Inc("c") \o Img, Img),
   Web(Img \o Inc("a") \o Inc("b"), Inc("c"), Img, Img)}

\* A file that is included twice, loops, and errors
Wrong ==
  {Web(Inc("a") \o Inc("b"), Inc("c"), Img \o Inc("a"), Inc("r")),
   Web(Inc("a"), Inc("r"), Other, Other),
   Web(Inc("a") \o Img, Bad, Other, Other),
   Web(Inc("a") \o Inc("b"), Header \o Other, Img, Other)}

\* The first [Image] section comes before anything that could delay it, or
\* is not complete.
ImagesFirst ==
  {Web(Img \o Inc("a") \o Inc("b"), Inc("c"), Img, Img),
   Web(Inc("a") \o Inc("b"), Img \o Inc("c"), Img, Img),
   Web(Inc("a") \o Other \o Inc("b"), Other \o Inc("c"), Other, Img),
   Web(Inc("a") \o Inc("b"), Header \o SubSeq(Entries, 1, 2), Img, Other)}

Includes ==
  INSTANCE JigdoIO
    WITH Urls <- {"r", "a", "b", "c"}, Root <- "r", Webs <- Trees,
         MayFail <- FALSE, MaxIncludes <- 3,
         www <- v1, nodes <- v2, candidate <- v3, image <- v4, master <- v5,
         cache <- v6, told <- v7, calls <- v8, dangling <- v9
IncludesFail ==
  INSTANCE JigdoIO
    WITH Urls <- {"r", "a", "b", "c"}, Root <- "r", Webs <- Wrong,
         MayFail <- TRUE, MaxIncludes <- 3,
         www <- v1, nodes <- v2, candidate <- v3, image <- v4, master <- v5,
         cache <- v6, told <- v7, calls <- v8, dangling <- v9
FirstOnes ==
  INSTANCE JigdoIO
    WITH Urls <- {"r", "a", "b", "c"}, Root <- "r", Webs <- ImagesFirst,
         MayFail <- FALSE, MaxIncludes <- 3,
         www <- v1, nodes <- v2, candidate <- v3, image <- v4, master <- v5,
         cache <- v6, told <- v7, calls <- v8, dangling <- v9

\* The template has alternatives; the program is stopped and started again.
FirstRun ==
  INSTANCE ChildDownloads
    WITH Jigdo <- "j", Mirrors <- <<"m1", "m2", "m3">>, MaxRuns <- 1,
         MayKill <- FALSE, DiskFaults <- TRUE,
         web <- v1, disk <- v2, state <- v3, child <- v4, tried <- v5,
         told <- v6, ready <- v7, runs <- v8
Restarts ==
  INSTANCE ChildDownloads
    WITH Jigdo <- "j", Mirrors <- <<"m1", "m2", "m3">>, MaxRuns <- 3,
         MayKill <- TRUE, DiskFaults <- TRUE,
         web <- v1, disk <- v2, state <- v3, child <- v4, tried <- v5,
         told <- v6, ready <- v7, runs <- v8

-----------------------------------------------------------------------------
(* Settings of other programs *)

Sets(p, v) == [key |-> p, indented |-> FALSE, value |-> v]
Excludes(h) == [key |-> "no", indented |-> FALSE, value |-> h]
Pref(k, p, v) == [key |-> k, of |-> p, value |-> v]

SettingsFiles ==
  { << >>, <<[key |-> "other"]>>,
    <<Sets("http", <<"a">>), Excludes(<<"lan", "host">>), Sets("http", <<"b">>)>>,
    <<Sets("ftp", <<"a">>), Sets("http", <<"#">>)>>,
    <<Sets("http", << >>), Excludes(<<"lan">>)>>,
    <<Pref("host", "http", <<"a">>), Pref("port", "http", <<"b">>),
      Pref("host", "ftp", <<"a">>)>>,
    <<Pref("host", "ftp", <<"a">>), Pref("port", "http", <<"b">>),
      Excludes(<<"lan">>), Pref("port", "ftp", <<"b">>), Pref("port", "ftp", << >>)>> }

Proxy ==
  INSTANCE ProxyGuess
    WITH Files <- <<"/etc/lynx.cfg", "~/.mozilla/default/prefs.js">>,
         IsMozilla <- {"~/.mozilla/default/prefs.js"},
         Proxies <- {"a", "b"}, Hosts <- {"lan", "host"}, Contents <- SettingsFiles,
         NoNewline <- TRUE, Stamps <- {0, 6, 7, 1}, Now <- 1, Word <- 8,
         SameAge <- FALSE, OldProxy <- {<<"no proxy">>, <<"a">>},
         content <- v1, stamp <- v2, added <- v3, c <- v4, current <- v5,
         rest <- v6, prefs <- v7, setProxy <- v8, finished <- v9, proxy <- v10,
         noproxy <- v11

-----------------------------------------------------------------------------
(* The windows *)

\* A download of a file beside an image with two children; an image alone.
ListOfJobs ==
  INSTANCE JobLines
    WITH Urls <- {"u1"}, Images <- {"m1"}, Children <- {"c1"}, Null <- "null",
         Delay <- 1, MaxTimers <- 3,
         list <- v1, line <- v2, walk <- v3, called <- v4, phase <- v5
ImageInList ==
  INSTANCE JobLines
    WITH Urls <- {}, Images <- {"m1"}, Children <- {"c1", "c2"}, Null <- "null",
         Delay <- 2, MaxTimers <- 3,
         list <- v1, line <- v2, walk <- v3, called <- v4, phase <- v5

\* Three boxes, and anything at the destination
Boxes ==
  INSTANCE Dialogs
    WITH Boxes <- {"b1", "b2", "b3"}, Null <- "null",
         Destination <- {"absent", "file", "device", "directory"},
         line <- v1, box <- v2, event <- v3, lost <- v4, device <- v5, crashed <- v6

\* A ring of three slots, two units of time per second and per interval, ticks
\* that come late; a size that is known; for the display, sizes about the
\* changes of unit.
Scales == {1, 500, 1000, 1024, 5120, 10240, 524288, 1048576, 5242880, 10485760}
Speeds ==
  INSTANCE Progress
    WITH SPEED_SLOTS <- 3, SPEED_TICK_INTERVAL <- 2, SPEED_MAX_GROW <- 130,
         SPEED_MIN_SHRINK <- 70, TIME_LEFT_GROW_THRESHOLD <- 2, SecondParts <- 2,
         Wrap <- 64, IntMax <- 63, Chunks <- {1, 3}, DataSizes <- {0}, MaxSize <- 4,
         SizeScales <- Scales, MaxNow <- 6, MaxRestarts <- 1, Late <- 1, SetBack <- 0,
         currentSizeVal <- v1, dataSizeVal <- v2, slotSizeVal <- v3, slotStart <- v4,
         currSlot <- v5, calcSlot <- v6, currSlotLeft <- v7, prevTimeLeft <- v8,
         now <- v9, due <- v10, shown <- v11, punctual <- v12, quiet <- v13,
         restarts <- v14
TimeLeft ==
  INSTANCE Progress
    WITH SPEED_SLOTS <- 3, SPEED_TICK_INTERVAL <- 2, SPEED_MAX_GROW <- 130,
         SPEED_MIN_SHRINK <- 70, TIME_LEFT_GROW_THRESHOLD <- 2, SecondParts <- 2,
         Wrap <- 64, IntMax <- 63, Chunks <- {1, 3}, DataSizes <- {0, 8}, MaxSize <- 5,
         SizeScales <- Scales, MaxNow <- 6, MaxRestarts <- 0, Late <- 0, SetBack <- 0,
         currentSizeVal <- v1, dataSizeVal <- v2, slotSizeVal <- v3, slotStart <- v4,
         currSlot <- v5, calcSlot <- v6, currSlotLeft <- v7, prevTimeLeft <- v8,
         now <- v9, due <- v10, shown <- v11, punctual <- v12, quiet <- v13,
         restarts <- v14
Displayed ==
  INSTANCE Progress
    WITH SPEED_SLOTS <- 2, SPEED_TICK_INTERVAL <- 5, SPEED_MAX_GROW <- 130,
         SPEED_MIN_SHRINK <- 70, TIME_LEFT_GROW_THRESHOLD <- 2, SecondParts <- 2,
         Wrap <- 32, IntMax <- 4095, Chunks <- {1}, DataSizes <- {0}, MaxSize <- 20,
         SizeScales <- Scales, MaxNow <- 1, MaxRestarts <- 0, Late <- 0, SetBack <- 1,
         currentSizeVal <- v1, dataSizeVal <- v2, slotSizeVal <- v3, slotStart <- v4,
         currSlot <- v5, calcSlot <- v6, currSlotLeft <- v7, prevTimeLeft <- v8,
         now <- v9, due <- v10, shown <- v11, punctual <- v12, quiet <- v13,
         restarts <- v14

-----------------------------------------------------------------------------
(* Who tells whom, and who keeps whom *)

\* A listener that is called unregisters itself or registers others; sends
\* again; ends the source.
Told ==
  INSTANCE IOSource
    WITH Listeners <- {"l1", "l2", "l3"}, E <- "e", Null <- "null",
         Acts <- {"self", "add"}, MaxDepth <- 1, MaxSends <- 2, MaxAdds <- 4,
         next <- v1, prev <- v2, alive <- v3, stack <- v4, crashed <- v5,
         sends <- v6, adds <- v7, since <- v8
ToldAgain ==
  INSTANCE IOSource
    WITH Listeners <- {"l1", "l2", "l3"}, E <- "e", Null <- "null",
         Acts <- {"add", "send"}, MaxDepth <- 3, MaxSends <- 3, MaxAdds <- 3,
         next <- v1, prev <- v2, alive <- v3, stack <- v4, crashed <- v5,
         sends <- v6, adds <- v7, since <- v8
SourceDies ==
  INSTANCE IOSource
    WITH Listeners <- {"l1", "l2"}, E <- "e", Null <- "null",
         Acts <- {"source", "add"}, MaxDepth <- 2, MaxSends <- 2, MaxAdds <- 3,
         next <- v1, prev <- v2, alive <- v3, stack <- v4, crashed <- v5,
         sends <- v6, adds <- v7, since <- v8

Counted ==
  INSTANCE SmartPtr
    WITH Objects <- {o1, o2, o3}, Null <- nil, Roots <- {r1},
         Fields <- {"nextVal"}, Weaks <- {},
         mem <- v1, bare <- v2, locked <- v3, wild <- v4
Weak ==
  INSTANCE SmartPtr
    WITH Objects <- {o1, o2}, Null <- nil, Roots <- {r1, r2},
         Fields <- {"nextVal"}, Weaks <- {weak1, weak2},
         mem <- v1, bare <- v2, locked <- v3, wild <- v4

ASSUME Polling!GlibCurlPollAssumption
ASSUME Download!GtkSingleUrlAssumption
ASSUME InDestination!GtkSingleUrlAssumption
ASSUME Spooled!CachedUrlAssumption
ASSUME Kept!CachedUrlAssumption
ASSUME Includes!JigdoAssumption
ASSUME IncludesFail!JigdoAssumption
ASSUME FirstOnes!JigdoAssumption
ASSUME FirstRun!ChildDownloadsAssumption
ASSUME Restarts!ChildDownloadsAssumption
ASSUME Proxy!ProxyGuessAssumption
ASSUME ListOfJobs!JobLinesAssumption
ASSUME ImageInList!JobLinesAssumption
ASSUME Boxes!DialogsAssumption
ASSUME Speeds!ProgressAssumption
ASSUME TimeLeft!ProgressAssumption
ASSUME Displayed!ProgressAssumption
ASSUME Told!IOSourceAssumption
ASSUME ToldAgain!IOSourceAssumption
ASSUME SourceDies!IOSourceAssumption
ASSUME Counted!SmartPtrAssumption
ASSUME Weak!SmartPtrAssumption

-----------------------------------------------------------------------------
(* The behaviours *)

From12 == v12 = "idle" /\ v13 = "idle" /\ v14 = "idle"
From11 == v11 = "idle" /\ From12
From10 == v10 = "idle" /\ From11
From9 == v9 = "idle" /\ From10
From8 == v8 = "idle" /\ From9
From7 == v7 = "idle" /\ From8
From6 == v6 = "idle" /\ From7
From5 == v5 = "idle" /\ From6
NoSlots == v1 = "idle" /\ v2 = "idle" /\ v3 = "idle" /\ v4 = "idle" /\ From5

SuiteInit ==
  /\ subject \in Subjects
  /\ Init
  /\ \/ subject = "threads" /\ NoSlots
     \/ subject = "polling" /\ Polling!Init /\ From8
     \/ subject = "download" /\ Download!Init /\ From11
     \/ subject = "destination" /\ InDestination!Init /\ From11
     \/ subject = "spooled" /\ Spooled!Init /\ From9
     \/ subject = "kept" /\ Kept!Init /\ From9
     \/ subject = "includes" /\ Includes!Init /\ From10
     \/ subject = "includesfail" /\ IncludesFail!Init /\ From10
     \/ subject = "firstimage" /\ FirstOnes!Init /\ From10
     \/ subject = "firstrun" /\ FirstRun!Init /\ From9
     \/ subject = "restarts" /\ Restarts!Init /\ From9
     \/ subject = "proxy" /\ Proxy!Init /\ From12
     \/ subject = "jobs" /\ ListOfJobs!Init /\ From6
     \/ subject = "imagejob" /\ ImageInList!Init /\ From6
     \/ subject = "boxes" /\ Boxes!Init /\ From7
     \/ subject = "speeds" /\ Speeds!Init
     \/ subject = "timeleft" /\ TimeLeft!Init
     \/ subject = "display" /\ Displayed!Init
     \/ subject = "told" /\ Told!Init /\ From9
     \/ subject = "toldagain" /\ ToldAgain!Init /\ From9
     \/ subject = "sourcedies" /\ SourceDies!Init /\ From9
     \/ subject = "counted" /\ Counted!Init /\ From5
     \/ subject = "weak" /\ Weak!Init /\ From5

SuiteNext ==
  /\ UNCHANGED subject
  /\ \/ subject = "threads" /\ Next /\ UNCHANGED slots
     \/ subject = "polling" /\ Polling!Next /\ UNCHANGED <<vars, from8>>
     \/ subject = "download" /\ Download!Next /\ UNCHANGED <<vars, from11>>
     \/ subject = "destination" /\ InDestination!Next /\ UNCHANGED <<vars, from11>>
     \/ subject = "spooled" /\ Spooled!Next /\ UNCHANGED <<vars, from9>>
     \/ subject = "kept" /\ Kept!Next /\ UNCHANGED <<vars, from9>>
     \/ subject = "includes" /\ Includes!Next /\ UNCHANGED <<vars, from10>>
     \/ subject = "includesfail" /\ IncludesFail!Next /\ UNCHANGED <<vars, from10>>
     \/ subject = "firstimage" /\ FirstOnes!Next /\ UNCHANGED <<vars, from10>>
     \/ subject = "firstrun" /\ FirstRun!Next /\ UNCHANGED <<vars, from9>>
     \/ subject = "restarts" /\ Restarts!Next /\ UNCHANGED <<vars, from9>>
     \/ subject = "proxy" /\ Proxy!Next /\ UNCHANGED <<vars, from12>>
     \/ subject = "jobs" /\ ListOfJobs!Next /\ UNCHANGED <<vars, from6>>
     \/ subject = "imagejob" /\ ImageInList!Next /\ UNCHANGED <<vars, from6>>
     \/ subject = "boxes" /\ Boxes!Next /\ UNCHANGED <<vars, from7>>
     \/ subject = "speeds" /\ Speeds!Next /\ UNCHANGED vars
     \/ subject = "timeleft" /\ TimeLeft!Next /\ UNCHANGED vars
     \/ subject = "display" /\ Displayed!Next /\ UNCHANGED vars
     \/ subject = "told" /\ Told!Next /\ UNCHANGED <<vars, from9>>
     \/ subject = "toldagain" /\ ToldAgain!Next /\ UNCHANGED <<vars, from9>>
     \/ subject = "sourcedies" /\ SourceDies!Next /\ UNCHANGED <<vars, from9>>
     \/ subject = "counted" /\ Counted!Next /\ UNCHANGED <<vars, from5>>
     \/ subject = "weak" /\ Weak!Next /\ UNCHANGED <<vars, from5>>

\* What goes on by itself, since the main loop runs, transfers get to an end,
\* and timers and idle sources are called; the other thread; and the two threads
\* when they wait for the mutex.
Goes ==
  /\ UNCHANGED subject
  /\ \/ subject = "threads" /\ GtkStep /\ UNCHANGED slots
     \/ subject = "polling" /\ Polling!MainLoop /\ UNCHANGED <<vars, from8>>
     \/ /\ subject = "download" /\ UNCHANGED <<vars, from11>>
        /\ Download!Network \/ Download!StopLaterCallback \/ Download!StartResume
     \/ subject = "spooled" /\ Spooled!Spool /\ UNCHANGED <<vars, from9>>
     \/ /\ subject = "includesfail" /\ UNCHANGED <<vars, from10>>
        /\ IncludesFail!Deliver \/ IncludesFail!Callback
     \/ subject = "firstrun" /\ FirstRun!Job /\ UNCHANGED <<vars, from9>>
     \/ /\ subject = "imagejob" /\ UNCHANGED <<vars, from6>>
        /\ ImageInList!TimerFires \/ ImageInList!WalkRow
ThreadGoes == subject = "threads" /\ ThreadStep /\ UNCHANGED <<subject, slots>>
GtkGetsMutex ==
  subject = "threads" /\ (Lock \/ Lock2 \/ CleanupTest) /\ UNCHANGED <<subject, slots>>
ThreadGetsMutex ==
  subject = "threads" /\ (ThreadStart \/ Relock) /\ UNCHANGED <<subject, slots>>

SuiteSpec ==
  /\ SuiteInit /\ [][SuiteNext]_allVars
  /\ WF_allVars(Goes) /\ WF_allVars(ThreadGoes)
  /\ SF_allVars(GtkGetsMutex) /\ SF_allVars(ThreadGetsMutex)

-----------------------------------------------------------------------------
(* Properties; NeverBothInside is that of GlibCurl. *)

\* Below the windows: requests between the threads are answered, and no
\* transfer is forgotten; a resumed file is never a mixture, ends where it must
\* and is reported whole; what is in the cache has the content of its name;
\* the [Image] section is the first of the tree; the newest settings count.
DownloadsRight ==
  /\ TypeOK /\ RequestsCounted /\ NotForgotten
  /\ subject = "polling" => Polling!TypeOK /\ Polling!PolledAreWanted
  /\ subject = "download" =>
       /\ Download!TypeOK /\ Download!NeverMixed /\ Download!Whole
       /\ Download!ResumeWhereFileEnds /\ Download!NoTransferBehind
       /\ Download!AutoResumesBounded
  /\ subject = "destination" =>
       InDestination!WithinDestination /\ InDestination!NoTransferBehind
  /\ subject = "spooled" =>
       /\ Spooled!TypeOK /\ Spooled!ActiveRuns
       /\ Spooled!SourceWhileActive /\ Spooled!SpeedPositive
  /\ subject = "kept" => Kept!ActiveRuns /\ Kept!SourceWhileActive
  /\ subject = "includes" =>
       /\ Includes!TypeOK /\ Includes!FirstImage
       /\ Includes!CandidateIsFirst /\ Includes!FinishedRightly /\ Includes!EndDecided
  /\ subject = "includesfail" =>
       /\ IncludesFail!FirstImage /\ IncludesFail!CandidateIsFirst
       /\ IncludesFail!FinishedRightly /\ IncludesFail!NoLoop
  /\ subject = "firstimage" => FirstOnes!WholeImage /\ FirstOnes!NoSpuriousError
  /\ subject = "firstrun" =>
       FirstRun!TypeOK /\ FirstRun!ContentRight /\ FirstRun!AllTried
  /\ subject = "restarts" =>
       Restarts!ContentRight /\ Restarts!PartialOrComplete /\ Restarts!AllTried
  /\ subject = "proxy" =>
       Proxy!TypeOK /\ Proxy!NewestWins /\ Proxy!FoundIfAny /\ Proxy!ProxyIsNamed

\* What runs comes to an end: transfers, the select thread and the clean-up
\* (the first line, of GlibCurl), requests and data that wait in the main
\* loop, downloads and their resumes, files that are read from the cache, the
\* tree of .jigdo files, and what an image needs first.
DownloadsEnd ==
  /\ ThreadAnswered /\ TransferEnds /\ ThreadEnds /\ CleanupEnds
  /\ \A t \in {"a", "b", "c"} : []<>(subject = "polling" => Polling!Performed(t))
  /\ []<>(subject = "download" => Download!Ended)
  /\ \A a \in {1, 2} : []<>(subject = "spooled" => Spooled!Delivered(a))
  /\ <>(subject = "includesfail" => IncludesFail!Decided)
  /\ <>(subject = "firstrun" => FirstRun!RunEnded)

\* In the windows: the list agrees with its counters and has one timer, its walk
\* meets no row that is gone; boxes and lines point to each other; a stall is
\* seen, the rate is recent; each listener is called, none that is gone; objects
\* live exactly as long as something points to them.
WindowsRight ==
  /\ subject = "jobs" =>
       /\ ListOfJobs!TypeOK /\ ListOfJobs!CountersRight /\ ListOfJobs!OneTimer
       /\ ListOfJobs!OwnerExists /\ ListOfJobs!WalkIsSafe
  /\ subject = "imagejob" => ImageInList!CountersRight /\ ImageInList!WalkIsSafe
  /\ subject = "boxes" =>
       /\ Boxes!TypeOK /\ Boxes!OneBoxPerLine
       /\ Boxes!PointersValid /\ Boxes!AnsweredIsClosed
  /\ subject = "speeds" =>
       Speeds!TypeOK /\ Speeds!StallIsSeen /\ Speeds!RateIsRecent
  /\ subject = "timeleft" => TimeLeft!TypeOK
  /\ subject = "display" => Displayed!SizeIsRight
  /\ subject = "told" =>
       /\ Told!TypeOK /\ Told!ListIsRight /\ Told!NoStaleCall /\ Told!EachIsCalled
       /\ Told!NewestFirst /\ Told!FreeAfterSource
  /\ subject = "toldagain" =>
       ToldAgain!ListIsRight /\ ToldAgain!EachIsCalled /\ ToldAgain!NoStaleCall
  /\ subject = "sourcedies" => SourceDies!ListIsRight /\ SourceDies!FreeAfterSource
  /\ subject = "counted" =>
       /\ Counted!TypeOK /\ Counted!NoneDangles
       /\ Counted!CountIsRight /\ Counted!OnlyCyclesLeak
  /\ subject = "weak" => Weak!NoneDangles /\ Weak!ListsAreRight

\* With each step, the ring of Progress stays a window of the newest samples,
\* and no more time is shown than is left; when the timer's function ends, each
\* line was called; and a child that has succeeded disappears.
WindowsFollow ==
  /\ [][/\ subject = "speeds" => Speeds!WindowFollowed
        /\ subject = "timeleft" => TimeLeft!NeverTooLong
        /\ subject = "jobs" => ListOfJobs!AllCalled]_allVars
  /\ \A l \in {"c1", "c2"} : []<>(subject = "imagejob" => ImageInList!Gone(l))
=============================================================================
