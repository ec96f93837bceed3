------------------------------- MODULE MCImage -------------------------------
(***************************************************************************)
(* Making images, in small instances: the runs of make-image (MkImage),    *)
(* the commands of jigdo-file with the files between them (JigdoFileCmd),  *)
(* its command line and its messages (JigdoFile), and the scripts that     *)
(* call it (JigdoLite, JigdoMirror).                                       *)
(*                                                                         *)
(* A behaviour is about one subject, which is chosen at the beginning.     *)
(* make-image has its own variables, the others share the slots v1 to v14. *)
(***************************************************************************)
EXTENDS MkImage, TLC

CONSTANT Subjects

VARIABLES subject,
  v1, v2, v3, v4, v5, v6, v7, v8, v9, v10, v11, v12, v13, v14

from13 == <<v13, v14>>
from7 == <<v7, v8, v9, v10, v11, v12, from13>>
slots == <<v1, v2, v3, v4, v5, v6, from7>>
allVars == <<subject, vars, slots>>

-----------------------------------------------------------------------------
(* make-image *)

\* Two files between unmatched data; the same file twice.
TwoParts == <<"data", "a", "data", "b">>
Twice == <<"data", "a", "a">>

\* A write error can show when it is too late to notice it.
Late == INSTANCE MkImage WITH LateErrors <- TRUE, MaxFaults <- 2

-----------------------------------------------------------------------------
(* The commands *)

\* The template of another release replaces the one that was used, or files
\* are damaged or removed.
Commands ==
  INSTANCE JigdoFileCmd
    WITH Images <- {"big", "other"},
         PartsOf <- [big |-> {"a", "b"}, other |-> {"b", "c"}],
         Sums <- {"md5"}, Labels <- {"L"}, Uris <- {"mirror"},
         None <- "nothing", NoWord <- "", MaxFaults <- 0, MaxEdits <- 1,
         Edits <- {"remove", "damage", "replace"}, LateErrors <- FALSE,
         EmptyValues <- FALSE,
         image <- v1, tmp <- v2, templ <- v3, jigdo <- v4, pc <- v5,
         args <- v6, names <- v7, cached <- v8, out <- v9, exit <- v10,
         faults <- v11, edits <- v12

\* Reading and writing fails.
Failing ==
  INSTANCE JigdoFileCmd
    WITH Images <- {"big"}, PartsOf <- [big |-> {"a", "b"}],
         Sums <- {"md5"}, Labels <- {"L"}, Uris <- {"mirror"},
         None <- "nothing", NoWord <- "", MaxFaults <- 2, MaxEdits <- 0,
         Edits <- {}, LateErrors <- FALSE, EmptyValues <- FALSE,
         image <- v1, tmp <- v2, templ <- v3, jigdo <- v4, pc <- v5,
         args <- v6, names <- v7, cached <- v8, out <- v9, exit <- v10,
         faults <- v11, edits <- v12

\* People edit the .jigdo file, or create it while a command runs; write
\* errors show too late.
Edited ==
  INSTANCE JigdoFileCmd
    WITH Images <- {"big"}, PartsOf <- [big |-> {"a", "b"}],
         Sums <- {"md5"}, Labels <- {"L"},
         Uris <- {"mirror", "local"}, None <- "nothing", NoWord <- "",
         MaxFaults <- 1, MaxEdits <- 1,
         Edits <- {"parts", "servers", "create"}, LateErrors <- TRUE,
         EmptyValues <- TRUE,
         image <- v1, tmp <- v2, templ <- v3, jigdo <- v4, pc <- v5,
         args <- v6, names <- v7, cached <- v8, out <- v9, exit <- v10,
         faults <- v11, edits <- v12

\* Sizes on the command line: sums take 5 of the bytes of a unit of 8, and an
\* unsigned int has 6 bits.
Lengths ==
  INSTANCE JigdoFile
    WITH Word <- 4096, Half <- 64, Unit <- 8, Rest <- 5, Kilo <- 1,
         MinimumBlockLength <- 12, DefaultBlock <- 14, DefaultCsum <- 21,
         DefaultRead <- 20, Numbers <- 0..30, Stems <- {},
         Extensions <- {"", "iso"}, MaxArgs <- 2,
         Messages <- {}, Reports <- {}, ScreenWidth <- 7, ProgressWidth <- 2,
         Digits <- {10}, Redirected <- FALSE,
         nr <- v1, opts <- v2, given <- v3, error <- v4, help <- v5, pc <- v6,
         prevLine <- v7, row <- v8, above <- v9, file <- v10, told <- v11,
         prefix <- v12

FileNames ==
  INSTANCE JigdoFile
    WITH Word <- 4096, Half <- 64, Unit <- 8, Rest <- 5, Kilo <- 1,
         MinimumBlockLength <- 12, DefaultBlock <- 14, DefaultCsum <- 21,
         DefaultRead <- 20, Numbers <- {}, Stems <- {"cd"},
         Extensions <- {"", "iso"}, MaxArgs <- 4,
         Messages <- {}, Reports <- {}, ScreenWidth <- 7, ProgressWidth <- 2,
         Digits <- {10}, Redirected <- FALSE,
         nr <- v1, opts <- v2, given <- v3, error <- v4, help <- v5, pc <- v6,
         prevLine <- v7, row <- v8, above <- v9, file <- v10, told <- v11,
         prefix <- v12

\* A terminal of seven columns.
Upto(S, max) == UNION {[1..n -> S] : n \in 1..max}
LongReports ==
  {<<"x", "quote", "x", "y", "x", "y", "x", "y", "'">>,
   <<"y", "quote", "y", "x", "y", "x", "y", "x", "'">>,
   <<"x", "x", "x", "x", "quote", "x", "y", "x", "'">>,
   <<"x", "y", "x", "y", "x", "y", "quote", "y", "'">>,
   <<"x", "y", "x", "y", "x", "y", "x", "y">>,
   <<"quote", "x", "y", "x", "quote", "y", "x", "y", "'">>}

Terminal ==
  INSTANCE JigdoFile
    WITH Word <- 4096, Half <- 64, Unit <- 8, Rest <- 5, Kilo <- 1,
         MinimumBlockLength <- 12, DefaultBlock <- 14, DefaultCsum <- 21,
         DefaultRead <- 20, Numbers <- {}, Stems <- {},
         Extensions <- {}, MaxArgs <- 0,
         Messages <- Upto({"x", "y"}, 2),
         Reports <- Upto({"x", "y"}, 3) \union LongReports,
         ScreenWidth <- 7, ProgressWidth <- 2, Digits <- {10},
         Redirected <- FALSE,
         nr <- v1, opts <- v2, given <- v3, error <- v4, help <- v5, pc <- v6,
         prevLine <- v7, row <- v8, above <- v9, file <- v10, told <- v11,
         prefix <- v12

ToFile ==
  INSTANCE JigdoFile
    WITH Word <- 4096, Half <- 64, Unit <- 8, Rest <- 5, Kilo <- 1,
         MinimumBlockLength <- 12, DefaultBlock <- 14, DefaultCsum <- 21,
         DefaultRead <- 20, Numbers <- {}, Stems <- {},
         Extensions <- {}, MaxArgs <- 0,
         Messages <- Upto({"x", "y"}, 2),
         Reports <- Upto({"x", "y"}, 2) \union {<<"x", "y", "x">>, <<"y", "y", "x">>},
         ScreenWidth <- 7, ProgressWidth <- 2, Digits <- {10},
         Redirected <- TRUE,
         nr <- v1, opts <- v2, given <- v3, error <- v4, help <- v5, pc <- v6,
         prevLine <- v7, row <- v8, above <- v9, file <- v10, told <- v11,
         prefix <- v12

-----------------------------------------------------------------------------
(* The scripts *)

\* Part a has a third URL, but its second fails always.
UrlsOf == [p \in {"a", "b", "c"} |-> IF p = "a" THEN 3 ELSE IF p = "b" THEN 1 ELSE 2]
SomeUrls == {<<"a", 1>>, <<"a", 3>>, <<"b", 1>>, <<"c", 2>>}
Everywhere == {"start", "template", "scan", "left", "uris", "pass", "fetch", "merge",
               "remove", "prompt", "menu"}

Lite ==
  INSTANCE JigdoLite
    WITH Parts <- {"a", "b", "c"}, PartsOf <- <<{"a", "b"}, {"b", "c"}>>,
         Urls <- UrlsOf, Good <- {}, Flaky <- SomeUrls, FileUrl <- {},
         Local <- {"c"}, Relative <- {}, FilesPerFetch <- 2, Passes <- 8,
         Batch <- FALSE, Unreliable <- TRUE, KillAt <- Everywhere, MaxRuns <- 3,
         jigdo <- v1, template <- v2, image <- v3, tmp <- v4, dir <- v5, pc <- v6,
         cur <- v7, url <- v8, todo <- v9, pass <- v10, noMorePasses <- v11,
         runs <- v12, tried <- v13

LiteBatch ==
  INSTANCE JigdoLite
    WITH Parts <- {"a", "b", "c"}, PartsOf <- <<{"a", "b"}, {"b", "c"}>>,
         Urls <- UrlsOf, Good <- {}, Flaky <- SomeUrls, FileUrl <- {"b"},
         Local <- {"c"}, Relative <- {}, FilesPerFetch <- 1, Passes <- 8,
         Batch <- TRUE, Unreliable <- TRUE, KillAt <- Everywhere, MaxRuns <- 3,
         jigdo <- v1, template <- v2, image <- v3, tmp <- v4, dir <- v5, pc <- v6,
         cur <- v7, url <- v8, todo <- v9, pass <- v10, noMorePasses <- v11,
         runs <- v12, tried <- v13

\* The user interrupts the script only when it asks what to do.
LiteEnds ==
  INSTANCE JigdoLite
    WITH Parts <- {"a", "b", "c"}, PartsOf <- <<{"a", "b", "c"}>>,
         Urls <- UrlsOf, Good <- {}, Flaky <- SomeUrls, FileUrl <- {},
         Local <- {}, Relative <- {}, FilesPerFetch <- 2, Passes <- 8,
         Batch <- FALSE, Unreliable <- FALSE, KillAt <- {"prompt"}, MaxRuns <- 2,
         jigdo <- v1, template <- v2, image <- v3, tmp <- v4, dir <- v5, pc <- v6,
         cur <- v7, url <- v8, todo <- v9, pass <- v10, noMorePasses <- v11,
         runs <- v12, tried <- v13

Failures == {"template", "fetch", "local", "merge", "incomplete", "verify"}

\* Two images of a compressed .jigdo file, one of another, which is not.
Mirror ==
  INSTANCE JigdoMirror
    WITH FileOf <- <<1, 1, 2>>, Gzipped <- {1}, Summed <- {1, 2, 3}, Remote <- {2},
         Failures <- Failures, Kills <- TRUE, Delayed <- FALSE, MaxAge <- 2,
         MaxTime <- 3,
         now <- v1, published <- v2, mirror <- v3, master <- v4, image <- v5,
         link <- v6, copy <- v7, jigdo <- v8, pc <- v9, file <- v10, cur <- v11,
         failed <- v12, exit <- v13, seen <- v14

\* Both files are compressed, so that a run cannot spoil them.
Heals ==
  INSTANCE JigdoMirror
    WITH FileOf <- <<1, 2>>, Gzipped <- {1, 2}, Summed <- {1, 2}, Remote <- {2},
         Failures <- Failures, Kills <- FALSE, Delayed <- FALSE, MaxAge <- 0,
         MaxTime <- 3,
         now <- v1, published <- v2, mirror <- v3, master <- v4, image <- v5,
         link <- v6, copy <- v7, jigdo <- v8, pc <- v9, file <- v10, cur <- v11,
         failed <- v12, exit <- v13, seen <- v14

ASSUME Late!ImageAssumption
ASSUME Commands!CmdAssumption
ASSUME Failing!CmdAssumption
ASSUME Edited!CmdAssumption
ASSUME Lengths!OptionsAssumption
ASSUME FileNames!OptionsAssumption
ASSUME Terminal!LineAssumption
ASSUME ToFile!LineAssumption
ASSUME Lite!LiteAssumption
ASSUME LiteBatch!LiteAssumption
ASSUME LiteEnds!LiteAssumption
ASSUME Mirror!MirrorAssumption
ASSUME Heals!MirrorAssumption

-----------------------------------------------------------------------------
(* The behaviours *)

NoRun ==
  /\ tmp = "idle" /\ image = "idle" /\ stdout = "idle" /\ health = "idle"
  /\ pc = "idle" /\ task = "idle" /\ toCopy = "idle" /\ missing = "idle"
  /\ written = "idle" /\ next = "idle" /\ result = "idle" /\ last = "idle"
  /\ exit = "idle" /\ faults = "idle"

From13 == v13 = "idle" /\ v14 = "idle"
From7 ==
  /\ v7 = "idle" /\ v8 = "idle" /\ v9 = "idle" /\ v10 = "idle"
  /\ v11 = "idle" /\ v12 = "idle" /\ From13
NoSlots ==
  /\ v1 = "idle" /\ v2 = "idle" /\ v3 = "idle" /\ v4 = "idle" /\ v5 = "idle"
  /\ v6 = "idle" /\ From7

SuiteInit ==
  /\ subject \in Subjects
  /\ \/ subject = "image" /\ Init /\ NoSlots
     \/ subject = "late" /\ Late!Init /\ NoSlots
     \/ subject = "commands" /\ Commands!Init /\ NoRun /\ From13
     \/ subject = "failing" /\ Failing!Init /\ NoRun /\ From13
     \/ subject = "edited" /\ Edited!Init /\ NoRun /\ From13
     \/ subject = "lengths" /\ Lengths!Init /\ NoRun /\ From13
     \/ subject = "filenames" /\ FileNames!Init /\ NoRun /\ From13
     \/ subject = "terminal" /\ Terminal!Init /\ NoRun /\ From13
     \/ subject = "tofile" /\ ToFile!Init /\ NoRun /\ From13
     \/ subject = "lite" /\ Lite!Init /\ NoRun /\ v14 = "idle"
     \/ subject = "litebatch" /\ LiteBatch!Init /\ NoRun /\ v14 = "idle"
     \/ subject = "liteends" /\ LiteEnds!Init /\ NoRun /\ v14 = "idle"
     \/ subject = "mirror" /\ Mirror!Init /\ NoRun
     \/ subject = "heals" /\ Heals!Init /\ NoRun

SuiteNext ==
  /\ UNCHANGED subject
  /\ \/ subject = "image" /\ Next /\ UNCHANGED slots
     \/ subject = "late" /\ Late!Next /\ UNCHANGED slots
     \/ subject = "commands" /\ Commands!Next /\ UNCHANGED <<vars, from13>>
     \/ subject = "failing" /\ Failing!Next /\ UNCHANGED <<vars, from13>>
     \/ subject = "edited" /\ Edited!Next /\ UNCHANGED <<vars, from13>>
     \/ subject = "lengths" /\ Lengths!Next /\ UNCHANGED <<vars, from13>>
     \/ subject = "filenames" /\ FileNames!Next /\ UNCHANGED <<vars, from13>>
     \/ subject = "terminal" /\ Terminal!Next /\ UNCHANGED <<vars, from13>>
     \/ subject = "tofile" /\ ToFile!Next /\ UNCHANGED <<vars, from13>>
     \/ subject = "lite" /\ Lite!Next /\ UNCHANGED <<vars, v14>>
     \/ subject = "litebatch" /\ LiteBatch!Next /\ UNCHANGED <<vars, v14>>
     \/ subject = "liteends" /\ LiteEnds!Next /\ UNCHANGED <<vars, v14>>
     \/ subject = "mirror" /\ Mirror!Next /\ UNCHANGED vars
     \/ subject = "heals" /\ Heals!Next /\ UNCHANGED vars

SuiteSpec == SuiteInit /\ [][SuiteNext]_allVars

\* The process goes on, files that went bad are replaced, and each file is
\* supplied again and again.
Runs == subject = "image" /\ Step /\ UNCHANGED <<subject, slots>>
Replaced(f) ==
  subject = "image" /\ Repair(f) /\ UNCHANGED <<subject, slots>>
Supplied(f) ==
  subject = "image" /\ Start({f}, TRUE, FALSE) /\ UNCHANGED <<subject, slots>>

ImageSpec ==
  /\ SuiteSpec
  /\ WF_allVars(Runs)
  /\ \A f \in Files : WF_allVars(Replaced(f)) /\ SF_allVars(Supplied(f))

\* The scripts go on, are run again, and the user presses Return.  What is tried
\* again and again happens: fetching a part from a flaky server, and the steps
\* of jigdo-mirror for an image.  As a behaviour has one subject, what is said
\* of two subjects in one formula holds of each.
Goes ==
  \/ subject = "liteends" /\ LiteEnds!Script /\ UNCHANGED <<subject, vars, v14>>
  \/ subject = "heals" /\ Heals!Script /\ UNCHANGED <<subject, vars>>
Begins ==
  \/ subject = "liteends" /\ LiteEnds!Restart /\ UNCHANGED <<subject, vars, v14>>
  \/ subject = "heals" /\ Heals!Start /\ UNCHANGED <<subject, vars>>
Returns ==
  subject = "liteends" /\ LiteEnds!Retry /\ UNCHANGED <<subject, vars, v14>>
Fetched(u) ==
  /\ subject = "liteends" /\ UNCHANGED <<subject, vars, v14>>
  /\ \E got \in LiteEnds!Deliverable : u \in got /\ LiteEnds!Fetch(got)
Mirrored(A) == subject = "heals" /\ A /\ UNCHANGED <<subject, vars>>

ScriptsSpec ==
  /\ SuiteSpec
  /\ WF_allVars(Goes) /\ WF_allVars(Begins) /\ WF_allVars(Returns)
  /\ SF_allVars(Fetched(<<"a", 1>>) \/ Mirrored(Heals!Sync(1)))
  /\ SF_allVars(Fetched(<<"a", 3>>) \/ Mirrored(Heals!Sync(2)))
  /\ SF_allVars(Fetched(<<"b", 1>>) \/ Mirrored(Heals!Local /\ v11 = 1))
  /\ SF_allVars(Fetched(<<"c", 2>>) \/ Mirrored(Heals!Local /\ v11 = 2))
  /\ SF_allVars(Mirrored(Heals!Complete /\ v11 = 1))
  /\ SF_allVars(Mirrored(Heals!Complete /\ v11 = 2))
  /\ SF_allVars(Mirrored(Heals!Fetch)) /\ SF_allVars(Mirrored(Heals!Link))

-----------------------------------------------------------------------------
(* Properties *)

\* What make-image calls written in its temporary file is right, also when
\* errors show only when it is too late to report them.
LateIsHonest == subject = "late" => Late!HonestTmp

\* Whatever names, and sizes below 4 GB, are given in whatever order, a command gets
\* block lengths that are legal, and all the names it needs, which are different.
\* One sees the last message and nothing of those before it, no line wraps, and a
\* file gets the lines without padding.
TerminalRight ==
  /\ subject = "lengths" => Lengths!TypeOK /\ Lengths!LengthsLegal /\ Lengths!ErrorWins
  /\ subject = "filenames" => FileNames!NamesApart /\ FileNames!NoNameMissing
  /\ subject = "terminal" => Terminal!TypeOK /\ Terminal!LastIsSeen /\ Terminal!LongIsCut
  /\ subject = "tofile" => ToFile!LastIsSeen /\ ToFile!FileIsClean

\* What a command says with its exit status and its output is so: of the
\* image, of the files that are missing, of their locations, and of names that
\* could not be read; and without --force it writes to no file that exists.
CommandsTruthful ==
  [][/\ subject = "commands" =>
          /\ Commands!TypeOK' /\ Commands!NoSilentOverwrite
          /\ Commands!VerifyExact /\ Commands!MissingIsNeeded
          /\ Commands!AllMissingShown
     /\ subject = "failing" =>
          /\ Failing!OthersStillFound /\ Failing!ZeroMeansWritten
          /\ Failing!NoSilentOverwrite
     /\ subject = "edited" =>
          /\ Edited!OthersStillFound /\ Edited!GivenUriFirst
          /\ Edited!AllMissingShown]_allVars

\* The scripts rely on nothing that is not right: jigdo-lite on no template of
\* unknown contents, and it has tried all URLs when it asks what to do; images
\* that jigdo-mirror has put in place are made from their own templates, and
\* none is outdated after a run.
ScriptsRight ==
  /\ subject = "lite" => Lite!TemplateChecked /\ Lite!AllTried
  /\ subject = "litebatch" => LiteBatch!TemplateChecked
  /\ subject = "mirror" => Mirror!OwnTemplate /\ Mirror!NoneOutdated

\* Neither an error nor Ctrl-C makes jigdo-lite lose a part that was
\* downloaded, what is in the temporary file, or an image.
NothingLost ==
  [][/\ subject = "lite" => Lite!FilesKept /\ Lite!WorkKept
     /\ subject = "litebatch" => LiteBatch!WorkKept]_allVars

\* With files that can be had now and then, run again and again, the scripts
\* make all images.
ScriptsEnd ==
  /\ <>(subject = "liteends" => LiteEnds!AllMade)
  /\ <>[](subject = "heals" => Heals!AllRight)
=============================================================================
