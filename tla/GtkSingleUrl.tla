----------------------------- MODULE GtkSingleUrl -----------------------------
(***************************************************************************)
(* The download of one URL: Download (src/net/download.cc), which drives a *)
(* handle of libcurl, Job::SingleUrl (src/job/single-url.cc) above it,     *)
(* which resumes with an overlap that is compared, and their listener, a   *)
(* single-file download of the GTK program with its timer and the user's   *)
(* buttons (src/gtk/gtk-single-url.cc).                                    *)
(*                                                                         *)
(* The server's object is the sequence 1, 2, ... N of blocks; 0 in a file  *)
(* is a block of something else.  What is called from above is a function  *)
(* from a world w to the next; the callbacks of libcurl go all the way up. *)
(***************************************************************************)
EXTENDS Naturals, Sequences

CONSTANTS
  N,                \* blocks of the object
  RESUME_SIZE,      \* blocks that are fetched again by a resume
  MAX_TRIES,
  DestEnd,          \* destEndOffset: 0 for no limit
  ReAdd,            \* does libcurl accept a handle that is still in its stack?
  OldFiles,         \* what may be at the destination before: {} or lengths
  Announced,        \* may the server announce the size? a subset of BOOLEAN
  Ranges,           \* does the server support ranges?
  DiskFull,         \* may writes fail?
  OpenFails,        \* may the destination fail to open?
  Buttons,          \* what the user may do: "Start", "Early" (Start while the
                    \* timer runs), "Quick" (before an idle callback), "Stop",
                    \* "Restart"
  MaxClicks,        \* bound: how often
  Owner             \* the listener: "GtkSingleUrl", or "Child" of MakeImageDl

GtkSingleUrlAssumption ==
  /\ N \in Nat \ {0} /\ RESUME_SIZE \in Nat \ {0} /\ MAX_TRIES \in Nat \ {0}
  /\ DestEnd \in Nat /\ ReAdd \in BOOLEAN
  /\ OldFiles \subseteq Nat /\ Announced \subseteq BOOLEAN /\ Announced # {}
  /\ Ranges \in BOOLEAN /\ DiskFull \in BOOLEAN /\ OpenFails \in BOOLEAN
  /\ MaxClicks \in Nat /\ Owner \in {"GtkSingleUrl", "Child"}

Smaller(a, b) == IF a < b THEN a ELSE b

\* The handle in libcurl: on: "none", "active" or "done" (still in the
\* stack); what is sent next; does the server announce the size?
NoTransfer == [on |-> "none", pos |-> 0, sized |-> FALSE]

NoDownload ==
  [state |-> "CREATED", handle |-> FALSE, stopLater |-> FALSE,
   inside |-> FALSE, offset |-> 0, current |-> 0]

\* dest: is there a destStream?  current, size: progressVal
NoSingleUrl ==
  [dest |-> FALSE, resumeLeft |-> 0, tries |-> 0, current |-> 0, size |-> 0]

-----------------------------------------------------------------------------
(* Download *)

Final == {"ERROR", "INTERRUPTED", "SUCCEEDED"}

\* glibcurl_add(): its result is not looked at.
Added(w, sized) ==
  IF w.net.on = "none" \/ (w.net.on = "done" /\ ReAdd)
  THEN [w EXCEPT !.net = [on |-> "active", pos |-> w.download.offset,
                          sized |-> sized]]
  ELSE w

\* Download::run(); a stopLater that is still pending is left alone.
DownloadRun(w, sized) ==
  [Added(w, sized) EXCEPT !.download.handle = TRUE,
                          !.download.state = "RUNNING",
                          !.download.current = w.download.offset]

\* Download::stop(); not from inside of libcurl's callback
Removed(w) == [w EXCEPT !.net = NoTransfer, !.download.handle = FALSE]

\* Mutant of DownloadStop: inside of the callback, nothing is scheduled.
DownloadStopOutside(w) ==
  IF ~w.download.handle \/ w.download.state \in Final THEN w
  ELSE LET w1 == [w EXCEPT !.download.state = "INTERRUPTED"]
       IN IF w.download.inside THEN w1 ELSE Removed(w1)

DownloadStop(w) ==
  IF ~w.download.handle \/ w.download.state \in Final THEN w
  ELSE LET w1 == [w EXCEPT !.download.state = "INTERRUPTED"]
       IN IF w.download.inside THEN [w1 EXCEPT !.download.stopLater = TRUE]
                               ELSE Removed(w1)

\* stopLater_callback()
StopLater(w) ==
  [(IF w.download.handle THEN Removed(w) ELSE w)
     EXCEPT !.download.stopLater = FALSE]

-----------------------------------------------------------------------------
(* SingleUrl *)

\* Mutant of SetResumeOffset: the progress starts where the overlap does.
SetResumeOffsetOverlap(w, offset) ==
  LET left == Smaller(offset, RESUME_SIZE)
  IN [w EXCEPT !.single.resumeLeft = left, !.single.current = offset - left,
               !.download.offset = offset - left]

\* Mutant of SetResumeOffset: the overlap is the whole file.
SetResumeOffsetAll(w, offset) ==
  [w EXCEPT !.single.resumeLeft = offset, !.single.current = offset,
            !.download.offset = 0]

\* Mutant of SetResumeOffset: nothing is compared.
SetResumeOffsetBlind(w, offset) ==
  [w EXCEPT !.single.resumeLeft = 0, !.single.current = offset,
            !.download.offset = offset]

SetResumeOffset(w, offset) ==
  LET left == Smaller(offset, RESUME_SIZE)
  IN [w EXCEPT !.single.resumeLeft = left, !.single.current = offset,
               !.download.offset = offset - left]

\* setDestination(0, 0, 0)
NoDestination(w) == [w EXCEPT !.single.dest = FALSE]

\* setDestination() and setResumeOffset(), then run()
SingleUrlRun(w, offset, sized) ==
  DownloadRun([SetResumeOffset(w, offset)
                 EXCEPT !.single.dest = TRUE, !.single.size = DestEnd,
                        !.single.tries = @ + 1], sized)

\* Mutant of ResumePossible: the number of tries is not looked at.
ResumePossibleAlways(w) ==
  /\ w.download.state = "INTERRUPTED"
  /\ \/ w.single.current = 0 \/ w.single.size = 0
     \/ w.single.current < w.single.size

ResumePossible(w) ==
  /\ w.single.tries < MAX_TRIES /\ w.download.state = "INTERRUPTED"
  /\ \/ w.single.current = 0 \/ w.single.size = 0
     \/ w.single.current < w.single.size

SetNoResumePossible(w) == [w EXCEPT !.single.tries = MAX_TRIES]

-----------------------------------------------------------------------------
(* The state *)

VARIABLES
  file,             \* the destination
  line,             \* the JobLine: state, stream, tick, listed
  single, download, net,
  inPerform,        \* is curl_multi_perform() delivering data?
  told,             \* what the listener was told in this try
  late,             \* was it sent data after it was told?
  crashed,          \* "no", or how the program aborts
  clicks

vars == <<file, line, single, download, net, inPerform, told, late, crashed,
          clicks>>

Init ==
  /\ file \in {<< >>} \union {[i \in 1..n |-> 0] : n \in OldFiles}
  /\ line = [state |-> "CREATED", stream |-> "none", tick |-> "none",
             listed |-> FALSE, job |-> FALSE]
  /\ single = NoSingleUrl /\ download = NoDownload /\ net = NoTransfer
  /\ inPerform = FALSE /\ told = "nothing" /\ late = FALSE
  /\ crashed = "no" /\ clicks = 0

World ==
  [file |-> file, line |-> line, single |-> single, download |-> download,
   net |-> net, told |-> told, late |-> late, crashed |-> crashed]

Becomes(w) ==
  /\ file' = w.file /\ line' = w.line /\ single' = w.single
  /\ download' = w.download /\ net' = w.net /\ told' = w.told
  /\ late' = w.late /\ crashed' = w.crashed

\* Assert() aborts the program; what would follow does not matter.
Crash(w, why) == IF w.crashed = "no" THEN [w EXCEPT !.crashed = why] ELSE w

-----------------------------------------------------------------------------
(* The listener *)

Told(w, what) ==
  [w EXCEPT !.told = IF @ \in {"nothing", what} THEN what ELSE "both"]

\* The stream is closed; the SingleUrl forgets it.
Closed(w) == [NoDestination(w) EXCEPT !.line.stream = "none"]

\* GtkSingleUrl::job_failed(), which may schedule startResume()
LineFailed(w) ==
  LET w1 == Closed(w)
      w2 == [w1 EXCEPT !.line.state = IF @ = "STOPPED" THEN @ ELSE "ERROR"]
  IN IF w2.line.state = "ERROR" /\ ResumePossible(w2)
     THEN [w2 EXCEPT !.line.tick = "startResume"] ELSE w2

\* MakeImageDl::childFailed(): the job is deleted.
ChildFailed(w) ==
  IF w.download.inside THEN Crash(w, "deleted inside")
  ELSE [Closed(Removed(w)) EXCEPT !.line.state = "ERROR"]

JobFailed(w) ==
  IF Owner = "Child" THEN ChildFailed(Told(w, "failed"))
                     ELSE LineFailed(Told(w, "failed"))

\* GtkSingleUrl::job_succeeded()
JobSucceeded(w) ==
  [Closed(Told(w, "succeeded"))
     EXCEPT !.line.tick = "none",
            !.line.state = IF @ = "STOPPED" THEN @ ELSE "SUCCEEDED"]

\* GtkSingleUrl::dataSource_data(): it asks *destStream whether the write has
\* failed.  If it has, SingleUrl has called job_failed() instead of this; but the
\* stream may be gone, after another error.
DataSourceData(w) ==
  LET w1 == [w EXCEPT !.line.tick = IF @ = "none" THEN "showProgress" ELSE @,
                      !.late = @ \/ w.told # "nothing"]
  IN IF Owner # "Child" /\ w.line.stream = "none" THEN Crash(w1, "null") ELSE w1

-----------------------------------------------------------------------------
(* SingleUrl: what Download calls *)

\* Mutant of ResumeFailed: the transfer goes on.
ResumeFailedOn(w) == JobFailed(SetNoResumePossible(w))

ResumeFailed(w) == DownloadStop(JobFailed(SetNoResumePossible(w)))

\* download_dataSize()
DataSize(w, n) ==
  IF w.single.size = 0 THEN [w EXCEPT !.single.size = n]
  ELSE IF n # w.single.size THEN ResumeFailed(w) ELSE w

\* The blocks first + 1, ... of the object, k of them, written after offset at.
Written(f, at, first, k) ==
  [i \in 1..(IF at + k > Len(f) THEN at + k ELSE Len(f)) |->
     IF at < i /\ i <= at + k THEN first + i - at
     ELSE IF i <= Len(f) THEN f[i] ELSE 0]

Fits(at, k) == IF DestEnd > 0 /\ at + k > DestEnd THEN DestEnd - at ELSE k

\* Mutant of WriteToDestStream: what does not fit is written as well.
WriteToDestStreamAll(w, at, first, k, canWrite) ==
  IF ~w.single.dest THEN DataSourceData(w)
  ELSE DataSourceData([w EXCEPT !.file = Written(@, at, first, k)])

\* writeToDestStream(), and then dataSource_data
WriteToDestStream(w, at, first, k, canWrite) ==
  IF ~w.single.dest THEN DataSourceData(w)
  ELSE LET room == Fits(at, k)
           w1 == IF canWrite
                 THEN [w EXCEPT !.file = Written(@, at, first, room)] ELSE w
       IN IF canWrite /\ room = k THEN DataSourceData(w1)
          ELSE DownloadStop(JobFailed(w1))

\* The blocks of the overlap in this chunk that differ from the file
Differ(w, first, k) ==
  LET at == w.download.current - k
  IN {i \in 1..Smaller(w.single.resumeLeft, k) :
        at + i > Len(w.file) \/ w.file[at + i] # first + i}

\* download_data(): k blocks, after the first ones of the object
Data(w, first, k, canWrite) ==
  LET cur == w.download.current
      compared == Smaller(w.single.resumeLeft, k)
      after == [w EXCEPT !.single.resumeLeft = @ - compared]
  IN CASE w.single.resumeLeft = 0 ->
            WriteToDestStream([w EXCEPT !.single.current = cur],
                              cur - k, first, k, canWrite)
       [] w.single.resumeLeft > 0 /\ ~w.single.dest -> Crash(w, "null")
       [] w.single.resumeLeft > 0 /\ w.single.dest
          /\ Differ(w, first, k) # {} -> ResumeFailed(w)
       [] OTHER ->
            IF after.single.resumeLeft > 0 \/ compared = k THEN after
            ELSE WriteToDestStream([after EXCEPT !.single.current = cur],
                                   cur - (k - compared), first + compared,
                                   k - compared, canWrite)

-----------------------------------------------------------------------------
(* Download: what libcurl calls *)

\* curlWriter(): the size is told with every chunk.
CurlWriter(w, k, canWrite) ==
  LET first == w.net.pos
      sent == [w EXCEPT !.net.pos = @ + k]
      inside == [sent EXCEPT !.download.inside = TRUE]
      sized == IF w.net.sized THEN DataSize(inside, N) ELSE inside
      data == Data([sized EXCEPT !.download.current = @ + k], first, k, canWrite)
  IN IF w.download.stopLater THEN sent
     ELSE [data EXCEPT !.download.inside = FALSE]

\* Does the server deliver anything from this offset?
Served(pos) == pos = 0 \/ (Ranges /\ pos < N)

Chunk(k) ==
  /\ crashed = "no" /\ net.on = "active"
  /\ net.pos > download.offset \/ Served(net.pos)
  /\ net.pos + k <= N
  /\ \E canWrite \in (IF DiskFull THEN BOOLEAN ELSE {TRUE}) :
       Becomes(CurlWriter(World, k, canWrite))
  /\ inPerform' = TRUE /\ UNCHANGED clicks

\* curl_multi_perform() returns while the transfer goes on.
PerformReturns ==
  /\ crashed = "no" /\ inPerform /\ inPerform' = FALSE
  /\ UNCHANGED <<file, line, single, download, net, told, late, crashed, clicks>>

\* Mutant of GenerateError: the listener is not told.
GenerateErrorSilent(w, newState) ==
  IF w.download.state \in Final THEN w
  ELSE [w EXCEPT !.download.state = newState]

\* generateError()
GenerateError(w, newState) ==
  IF w.download.state \in Final THEN w
  ELSE JobFailed([w EXCEPT !.download.state = newState])

\* Mutant of Results: a connection that drops is taken for the end.
ResultsDropped == {"OK"}

\* What libcurl may report: a transfer of known size that drops is partial, one
\* of unknown size has ended.
Results ==
  IF net.pos = N /\ (net.pos > download.offset) THEN {"OK"}
  ELSE IF net.pos > download.offset
       THEN {IF net.sized THEN "PARTIAL_FILE" ELSE "OK", "error"}
       ELSE {"error"}

\* glibcurlCallback(), after curl_multi_perform()
Done(result) ==
  /\ crashed = "no" /\ net.on = "active"
  /\ LET w == [World EXCEPT !.net.on = "done"]
     IN Becomes(CASE result = "OK" ->
                       JobSucceeded([w EXCEPT !.download.state = "SUCCEEDED"])
                  [] result = "PARTIAL_FILE" -> GenerateError(w, "INTERRUPTED")
                  [] OTHER -> GenerateError(w, "ERROR"))
  /\ inPerform' = FALSE /\ UNCHANGED clicks

StopLaterCallback ==
  /\ crashed = "no" /\ download.stopLater /\ ~inPerform
  /\ Becomes(StopLater(World)) /\ UNCHANGED <<inPerform, clicks>>

-----------------------------------------------------------------------------
(* The JobLine: opening the destination *)

NewTry(w) == [w EXCEPT !.told = "nothing", !.late = FALSE]

\* openOutputAndRun(): the file is truncated; the line is appended to the
\* listeners, which Assert()s that it is not among them already.
OpenOutputAndRun(w, canOpen, sized) ==
  IF ~canOpen THEN [w EXCEPT !.line.stream = "bad", !.line.state = "ERROR"]
  ELSE IF w.line.listed THEN Crash(w, "listed twice")
  ELSE SingleUrlRun([NewTry(w) EXCEPT
                       !.file = << >>, !.line.stream = "open",
                       !.line.job = TRUE, !.line.listed = TRUE], 0, sized)

\* failedPermanently() uses the SingleUrl, if there is one or not.
FailedPermanently(w) ==
  IF ~w.line.job THEN Crash(w, "null")
  ELSE [Closed(w) EXCEPT !.line.state = "ERROR"]

\* The end of openOutputAndResume() and of startResume()
ResumeFrom(w, offset, canOpen, sized) ==
  IF ~canOpen THEN FailedPermanently(w)
  ELSE SingleUrlRun([NewTry(w) EXCEPT
                       !.line.stream = "open", !.line.state = "RUNNING",
                       !.line.job = TRUE, !.line.listed = TRUE], offset, sized)

\* openOutputAndResume()
OpenOutputAndResume(w, canOpen, sized) ==
  ResumeFrom(w, Len(w.file), canOpen, sized)

\* startResume(), from the timer; Assert(destStream == 0)
StartResume ==
  /\ crashed = "no" /\ line.tick = "startResume" /\ ~inPerform
  /\ LET w == [World EXCEPT !.line.tick = "none"]
     IN IF line.stream # "none" THEN Becomes(Crash(w, "stream open"))
        ELSE \E canOpen \in (IF OpenFails THEN BOOLEAN ELSE {TRUE}),
                sized \in Announced :
               Becomes(ResumeFrom(w, single.current, canOpen, sized))
  /\ UNCHANGED <<inPerform, clicks>>

\* run(): the user is asked if the file exists.
Run(answer, canOpen, sized) ==
  /\ line.state = "CREATED" /\ (answer = "Resume" => file # << >>)
  /\ LET w == [World EXCEPT !.line.state = "RUNNING"]
     IN Becomes(IF answer = "Resume" THEN OpenOutputAndResume(w, canOpen, sized)
                ELSE OpenOutputAndRun(w, canOpen, sized))
  /\ UNCHANGED <<inPerform, clicks>>

-----------------------------------------------------------------------------
(* The buttons *)

\* Clicks are served between the callbacks.
Click(button) ==
  /\ button \in Buttons /\ clicks < MaxClicks /\ clicks' = clicks + 1
  /\ crashed = "no" /\ ~inPerform /\ UNCHANGED inPerform
  /\ download.stopLater => "Quick" \in Buttons

\* canStart of updateWindow(), on_startButton_clicked(): state = RUNNING also
\* if the file could not be opened
StartButton(canOpen, sized) ==
  /\ Click("Start") /\ line.job
  /\ line.state = "STOPPED" \/ (line.state = "ERROR" /\ ResumePossible(World))
  /\ line.tick = "startResume" => "Early" \in Buttons
  /\ LET w == OpenOutputAndResume(World, canOpen, sized)
     IN Becomes(IF single.current # Len(file) THEN w
                ELSE [w EXCEPT !.line.state = "RUNNING"])

\* stop()
StopButton ==
  /\ Click("Stop") /\ line.job /\ line.state = "RUNNING"
  /\ Becomes(DownloadStop([Closed(World) EXCEPT !.line.state = "STOPPED"]))

\* restart()
RestartButton(canOpen, sized) ==
  /\ Click("Restart") /\ line.state # "CREATED"
  /\ LET closed == [World EXCEPT !.line.stream = "none"]
         stopped == IF line.job THEN DownloadStop(NoDestination(closed))
                    ELSE closed
     IN Becomes([OpenOutputAndRun(stopped, canOpen, sized)
                   EXCEPT !.line.state = "RUNNING"])

\* The main loop waits for the user, or the program has aborted.
Waits == (net.on # "active" \/ crashed # "no") /\ UNCHANGED vars

Opens == IF OpenFails THEN BOOLEAN ELSE {TRUE}

Network ==
  \/ \E k \in 1..N : Chunk(k)
  \/ PerformReturns
  \/ \E result \in Results : Done(result)

User ==
  \/ \E canOpen \in Opens, sized \in Announced :
       \/ \E answer \in {"Overwrite", "Resume"} : Run(answer, canOpen, sized)
       \/ StartButton(canOpen, sized)
       \/ RestartButton(canOpen, sized)
  \/ StopButton

Next == Network \/ StopLaterCallback \/ StartResume \/ User \/ Waits

Spec == Init /\ [][Next]_vars

\* A transfer gets to an end, and the main loop serves timers and idle
\* callbacks.
FairSpec ==
  Spec /\ WF_vars(Network) /\ WF_vars(StopLaterCallback) /\ WF_vars(StartResume)

-----------------------------------------------------------------------------
(* Properties *)

TypeOK ==
  /\ Len(file) \in 0..(N + 2) /\ \A i \in 1..Len(file) : file[i] \in 0..N
  /\ line.state \in {"CREATED", "RUNNING", "STOPPED", "ERROR", "SUCCEEDED"}
  /\ line.stream \in {"none", "open", "bad"}
  /\ line.tick \in {"none", "showProgress", "startResume"}
  /\ line.listed \in BOOLEAN /\ line.job \in BOOLEAN
  /\ single.resumeLeft \in 0..RESUME_SIZE /\ single.dest \in BOOLEAN
  /\ download.state \in Final \union {"CREATED", "RUNNING"}
  /\ net.on \in {"none", "active", "done"} /\ net.pos \in 0..(N + 2)
  /\ told \in {"nothing", "failed", "succeeded", "both"} /\ late \in BOOLEAN

\* A resume never appends the object to something else, and puts every block
\* where it belongs: this is what the overlap is for.
NeverMixed ==
  \/ \A i \in 1..Len(file) : file[i] = i
  \/ \A i \in 1..Len(file) : file[i] = 0

\* When only success is reported, for an object of known size, it is all there.
Whole ==
  told = "succeeded" /\ net.sized => Len(file) = N /\ NeverMixed /\ file[N] = N

\* startResume() goes on where the file ends.
ResumeWhereFileEnds ==
  line.tick = "startResume" /\ line.state = "ERROR" =>
    single.current = Len(file)

\* No transfer goes on behind a download that has failed or was stopped.
NoTransferBehind ==
  crashed = "no" /\ line.state \in {"ERROR", "STOPPED", "SUCCEEDED"} =>
    net.on # "active" \/ download.stopLater

\* "which resumes the download a certain number of times"
AutoResumesBounded == clicks = 0 => single.tries <= MAX_TRIES

\* "the byte at destEndOffset inside destStream would be overwritten": never
WithinDestination == DestEnd > 0 => Len(file) <= DestEnd

\* The download does not run; again and again, as one that runs comes to an
\* end.
Ended == line.state # "RUNNING" \/ crashed # "no"

\* "Called when the job fails.": not as well as job_succeeded
OneVerdict == told # "both"

\* "The only remaining sensible action after getting this is probably to
\* delete the job object": no data follow.
NoDataAfterVerdict == ~late

\* "Restart download"
RestartWorks == crashed # "listed twice"

\* Assert(destStream == 0) in startResume()
TimerMeetsClosedFile == crashed # "stream open"

\* "Pointer to SingleUrl object, or null"
NoNull == crashed # "null"

\* Assert(!insideNewData) in ~Download()
DeletedOutside == crashed # "deleted inside"

\* "possible values are 1..MAX_TRIES (inclusive)"
TriesInRange == single.tries <= MAX_TRIES
=============================================================================
