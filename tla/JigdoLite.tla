------------------------------ MODULE JigdoLite ------------------------------
(***************************************************************************)
(* The script jigdo-lite (scripts/jigdo-lite): it downloads a .jigdo file, *)
(* for each image the .template, and the missing parts, some at a time,    *)
(* which jigdo-file merges into the image.                                 *)
(*                                                                         *)
(* One step is one call of wget, jigdo-file or rm; what make-image does    *)
(* with the files is the promise that module MkImage shows.  The user may  *)
(* press Ctrl-C and start the script again: what is on the disk remains.   *)
(* The .jigdo file is given as a URL; the checksum of each template is     *)
(* known and its mismatch is not overridden; servers are not changed.      *)
(***************************************************************************)
EXTENDS Integers, Sequences, FiniteSets, SequencesExt

CONSTANTS
  Parts,
  PartsOf,        \* the parts of each image of the .jigdo file, in order
  Urls,           \* number of URLs (http, ftp) that are listed for a part
  Good, Flaky,    \* URLs that deliver always, and sometimes: <<part, number>>
  FileUrl,        \* parts with a "file:" URL
  Local,          \* parts at the path that the user lets the script scan
  Relative,       \* images whose template has a relative URL
  FilesPerFetch,
  Passes,         \* the number of passes (8 in the script)
  Batch,          \* $batch: several .jigdo files were given
  Unreliable,     \* wget may give up on .jigdo and .template files
  KillAt,         \* the steps during which Ctrl-C is pressed
  MaxRuns         \* bound: number of times the script is started

Images == DOMAIN PartsOf

LiteAssumption ==
  /\ PartsOf \in Seq(SUBSET Parts) /\ Urls \in [Parts -> Nat]
  /\ FileUrl \union Local \subseteq Parts /\ Relative \subseteq Images
  /\ Good \union Flaky \subseteq Parts \X (Nat \ {0})
  /\ {FilesPerFetch, Passes, MaxRuns} \subseteq Nat \ {0}
  /\ {Batch, Unreliable} \subseteq BOOLEAN

VARIABLES
  \* on the disk
  jigdo,          \* the .jigdo file: "none", "cut" or "whole"
  template,       \* of each image: "none", "cut" or "right"
  image,          \* of each image: is it there, complete?
  tmp,            \* of each image: the file image.tmp
  dir,            \* of each image: the directory $imageTmp
  \* in the script
  pc,             \* what it does next
  cur,            \* the image it works on
  url,            \* what the variable $url holds: the URL of the .jigdo file,
                  \* that of a part, or nothing
  todo,           \* the URLs of this pass that are not fetched yet
  pass, noMorePasses,
  runs,
  tried           \* history: URLs tried since the user was asked last

disk == <<jigdo, template, image, tmp, dir>>
script == <<pc, cur, url, todo, pass, noMorePasses, tried>>
vars == <<disk, script, runs>>

NoFile == [state |-> "none", parts |-> {}]

Begin ==
  /\ pc = "start" /\ cur = 1 /\ url = "jigdo" /\ todo = << >>
  /\ pass = 1 /\ noMorePasses = FALSE /\ tried = {}

Init ==
  /\ jigdo = "none" /\ template = [i \in Images |-> "none"]
  /\ image = [i \in Images |-> FALSE]
  /\ tmp = [i \in Images |-> NoFile]
  /\ dir = [i \in Images |-> NoFile]
  /\ Begin /\ runs = 1

-----------------------------------------------------------------------------
(* What jigdo-file does *)

\* Mutant of Written: the file is begun anew each time.
WrittenAnew(i) == {}

Written(i) == IF tmp[i].state = "valid" THEN tmp[i].parts ELSE {}

\* print-missing-all: the parts it lists.
Missing(i) == IF image[i] THEN {} ELSE PartsOf[i] \ Written(i)

Merged(i, files) == Written(i) \union (files \intersect PartsOf[i])

\* The exit status of make-image.
Status(i, files) ==
  IF image[i] \/ tmp[i].state = "broken" THEN 3
  ELSE IF Merged(i, files) = PartsOf[i] THEN 0 ELSE 1

MakeImage(i, files) ==
  LET status == Status(i, files)
      merged == Merged(i, files)
  IN /\ image' = [image EXCEPT ![i] = @ \/ status = 0]
     /\ tmp' = [tmp EXCEPT ![i] =
                  IF status = 0 \/ (status = 1 /\ merged = {}) THEN NoFile
                  ELSE IF status = 3 THEN @
                  ELSE [state |-> "valid", parts |-> merged]]

\* Ctrl-C while it writes a new file, or finishes one: no later run can use it.
MakeImageKilled(i, files) ==
  LET status == Status(i, files)
      writes == Merged(i, files) # Written(i) \/ status = 0
      breaks == status = 0 \/ (status = 1 /\ tmp[i].state = "none" /\ writes)
  IN tmp' \in {tmp} \union
       IF breaks THEN {[tmp EXCEPT ![i] = [state |-> "broken", parts |-> {}]]} ELSE {}

-----------------------------------------------------------------------------
(* Endings *)

\* The next image, or the end.
NextImage(last) ==
  IF Batch /\ cur < Len(PartsOf)
  THEN cur' = cur + 1 /\ pc' = "template"
  ELSE pc' = last /\ UNCHANGED cur

\* $error 1: exit, but return in batch mode.
Fail == NextImage(IF Batch THEN "done" ELSE "aborted")

-----------------------------------------------------------------------------
(* selectImage() *)

\* wget gives up on an administrative file.
GivesUp(file) ==
  IF Unreliable THEN {file, IF file = "none" THEN "cut" ELSE file} ELSE {}

FetchJigdo ==
  /\ pc = "start"
  /\ jigdo' \in IF jigdo = "none" THEN {"whole"} \union GivesUp(jigdo) ELSE {jigdo}
  /\ IF jigdo' = "none" THEN pc' = IF Batch THEN "done" ELSE "aborted"
     ELSE pc' = IF Batch \/ Len(PartsOf) = 1 THEN "template" ELSE "menu"
  /\ UNCHANGED <<template, image, tmp, dir, cur, url, todo, pass, noMorePasses,
                 runs, tried>>

\* The user enters the number of an image.
Menu(i) ==
  /\ pc = "menu" /\ cur' = i /\ pc' = "template"
  /\ UNCHANGED <<disk, url, todo, pass, noMorePasses, runs, tried>>

\* Mutant of FetchTemplate: what is there is taken.
FetchTemplateUnchecked ==
  /\ pc = "template"
  /\ template' \in {[template EXCEPT ![cur] = t] :
       t \in IF template[cur] # "none" \/ (cur \in Relative /\ url # "jigdo")
             THEN {template[cur]} ELSE {"right"} \union GivesUp(template[cur])}
  /\ IF template'[cur] # "none" THEN pc' = "scan" /\ UNCHANGED cur ELSE Fail
  /\ UNCHANGED <<jigdo, image, tmp, dir, url, todo, pass, noMorePasses, runs, tried>>

\* fetchTemplate(), before the first use of the template.
FetchTemplate ==
  /\ pc = "template"
  /\ template' \in {[template EXCEPT ![cur] = t] :
       t \in IF template[cur] = "right" \/ (cur \in Relative /\ url # "jigdo")
             THEN {template[cur]} ELSE {"right"} \union GivesUp(template[cur])}
  /\ IF template'[cur] = "right" THEN pc' = "scan" /\ UNCHANGED cur ELSE Fail
  /\ UNCHANGED <<jigdo, image, tmp, dir, url, todo, pass, noMorePasses, runs, tried>>

-----------------------------------------------------------------------------
(* imageDownload() *)

\* Files that the user has already; in batch mode they were asked for once.
Scan ==
  /\ pc = "scan" /\ Local # {}
  /\ MakeImage(cur, Local)
  /\ CASE Status(cur, Local) = 0 -> NextImage("done")
       [] Status(cur, Local) = 1 -> pc' = (IF Batch THEN "left" ELSE "scan")
                                    /\ UNCHANGED cur
       [] OTHER -> Fail
  /\ UNCHANGED <<jigdo, template, dir, url, todo, pass, noMorePasses, runs, tried>>

NoScan ==
  /\ pc = "scan" /\ ~(Batch /\ Local # {})
  /\ pc' = "left"
  /\ UNCHANGED <<disk, cur, url, todo, pass, noMorePasses, runs, tried>>

\* Mutant of MergeLeftover: the directory is removed at once.
MergeLeftoverRemove ==
  /\ pc = "left"
  /\ IF dir[cur].state = "none" THEN UNCHANGED <<image, tmp>>
     ELSE MakeImage(cur, dir[cur].parts)
  /\ dir' = [dir EXCEPT ![cur] = NoFile]
  /\ pc' = "uris"
  /\ UNCHANGED <<jigdo, template, cur, url, todo, pass, noMorePasses, runs, tried>>

\* Files of an interrupted download.  The status is not looked at.
MergeLeftover ==
  /\ pc = "left"
  /\ IF dir[cur].state = "none" THEN UNCHANGED <<image, tmp>>
     ELSE MakeImage(cur, dir[cur].parts)
  /\ pc' = "uris"
  /\ UNCHANGED <<jigdo, template, dir, cur, url, todo, pass, noMorePasses, runs, tried>>

\* Parts with "file:" URLs, as far as the .jigdo file lists them.
FileParts(i) == IF jigdo = "whole" THEN Missing(i) \intersect FileUrl ELSE {}

MergeUris ==
  /\ pc = "uris"
  /\ MakeImage(cur, FileParts(cur))
  /\ IF Status(cur, FileParts(cur)) >= 3 THEN Fail
     ELSE pc' = "pass" /\ UNCHANGED cur
  /\ pass' = 1 /\ noMorePasses' = FALSE /\ tried' = {}
  /\ UNCHANGED <<jigdo, template, dir, url, todo, runs>>

UrlCount(p) == IF jigdo = "whole" THEN Urls[p] ELSE 0

\* Mutant of Listed: only the first URL is looked for.
ListedFirst(i, n) == IF n = 1 THEN {p \in Missing(i) : UrlCount(p) >= n} ELSE {}

\* The parts for which the list has a URL of this number.
Listed(i, n) == {p \in Missing(i) : UrlCount(p) >= n}

Pass ==
  /\ pc = "pass"
  /\ todo' = SetToSeq(Listed(cur, pass) \X {pass})
  /\ noMorePasses' = (noMorePasses /\ todo' = << >>)
  /\ pc' = "fetch"
  /\ UNCHANGED <<disk, cur, url, pass, runs, tried>>

\* The URLs for the next call of fetchAndMerge().
Args == Range(SubSeq(todo, 1, IF FilesPerFetch < Len(todo) THEN FilesPerFetch
                              ELSE Len(todo)))

\* wget stores what it can get.
Deliver(got) ==
  dir' = [dir EXCEPT ![cur] =
            IF @.state = "none" /\ got = {} THEN NoFile
            ELSE [state |-> "valid", parts |-> @.parts \union {u[1] : u \in got}]]

\* The sets of URLs that may be delivered.
Deliverable ==
  {got \in SUBSET (Args \intersect (Good \union Flaky)) :
     Args \intersect Good \subseteq got}

\* The loop has read all its lines, or is at one of them.
Fetch(got) ==
  /\ pc = "fetch" /\ todo # << >>
  /\ Deliver(got) /\ tried' = tried \union Args
  /\ todo' = SubSeq(todo, Cardinality(Args) + 1, Len(todo))
  /\ url' = IF Cardinality(Args) = FilesPerFetch THEN "part" ELSE "none"
  /\ pc' = "merge"
  /\ UNCHANGED <<jigdo, template, image, tmp, cur, pass, noMorePasses, runs>>

Merge ==
  /\ pc = "merge"
  /\ MakeImage(cur, dir[cur].parts)
  /\ IF Status(cur, dir[cur].parts) >= 3 THEN Fail
     ELSE pc' = "remove" /\ UNCHANGED cur
  /\ UNCHANGED <<jigdo, template, dir, url, todo, pass, noMorePasses, runs, tried>>

RemoveDir ==
  /\ pc = "remove"
  /\ dir' = [dir EXCEPT ![cur] = NoFile]
  /\ pc' = "fetch"
  /\ UNCHANGED <<jigdo, template, image, tmp, cur, url, todo, pass, noMorePasses,
                 runs, tried>>

\* Mutant of PassEnd: the passes end as soon as a part had no such URL.
PassEndSoon ==
  /\ pc = "fetch" /\ todo = << >>
  /\ url' = "none"
  /\ IF noMorePasses \/ image[cur] \/ Listed(cur, pass) # Missing(cur) \/ pass = Passes
     THEN pc' = (IF image[cur] THEN "finished" ELSE "prompt")
          /\ UNCHANGED <<pass, noMorePasses>>
     ELSE pc' = "pass" /\ pass' = pass + 1 /\ noMorePasses' = TRUE
  /\ UNCHANGED <<disk, cur, todo, runs, tried>>

PassEnd ==
  /\ pc = "fetch" /\ todo = << >>
  /\ url' = "none"
  /\ IF noMorePasses \/ image[cur] \/ pass = Passes
     THEN pc' = (IF image[cur] THEN "finished" ELSE "prompt")
          /\ UNCHANGED <<pass, noMorePasses>>
     ELSE pc' = "pass" /\ pass' = pass + 1 /\ noMorePasses' = TRUE
  /\ UNCHANGED <<disk, cur, todo, runs, tried>>

\* "Aaargh": in batch mode that is the end of this image.
GiveUp ==
  /\ pc = "prompt" /\ Batch /\ Fail
  /\ UNCHANGED <<disk, url, todo, pass, noMorePasses, runs, tried>>

\* The user presses Return.
Retry ==
  /\ pc = "prompt" /\ ~Batch /\ pc' = "uris"
  /\ UNCHANGED <<disk, cur, url, todo, pass, noMorePasses, runs, tried>>

\* finished(): the result of the last check is only shown.
Finished ==
  /\ pc = "finished"
  /\ IF ~Batch /\ Len(PartsOf) > 1 THEN pc' = "menu" /\ UNCHANGED cur
     ELSE NextImage("done")
  /\ UNCHANGED <<disk, url, todo, pass, noMorePasses, runs, tried>>

-----------------------------------------------------------------------------
(* The user *)

\* Ctrl-C, also while another program is running.  Bound: the last run goes on.
Kill ==
  /\ pc \in KillAt /\ runs < MaxRuns
  /\ jigdo' \in {jigdo} \union
       IF pc = "start" /\ jigdo = "none" THEN {"cut"} ELSE {}
  /\ template' \in {template} \union
       IF pc = "template" /\ template[cur] = "none"
       THEN {[template EXCEPT ![cur] = "cut"]} ELSE {}
  /\ CASE pc = "scan" -> MakeImageKilled(cur, Local)
       [] pc = "left" -> MakeImageKilled(cur, dir[cur].parts)
       [] pc = "uris" -> MakeImageKilled(cur, FileParts(cur))
       [] pc = "merge" -> MakeImageKilled(cur, dir[cur].parts)
       [] OTHER -> UNCHANGED tmp
  /\ IF pc = "fetch" /\ todo # << >>
     THEN \E got \in SUBSET (Args \intersect (Good \union Flaky)) : Deliver(got)
     ELSE dir' \in {dir} \union
            IF pc = "remove" THEN {[dir EXCEPT ![cur].parts = {}]} ELSE {}
  /\ pc' = "killed"
  /\ UNCHANGED <<image, cur, url, todo, pass, noMorePasses, runs, tried>>

Ended == pc \in {"done", "aborted", "killed"}

\* It is started again while an image is missing.
Restart ==
  /\ Ended /\ runs < MaxRuns /\ \E i \in Images : ~image[i]
  /\ pc' = "start" /\ cur' = 1 /\ url' = "jigdo" /\ todo' = << >>
  /\ pass' = 1 /\ noMorePasses' = FALSE /\ tried' = {}
  /\ runs' = runs + 1 /\ UNCHANGED disk

Script ==
  \/ FetchJigdo \/ FetchTemplate \/ NoScan \/ Scan \/ MergeLeftover \/ MergeUris
  \/ Pass \/ (\E got \in Deliverable : Fetch(got)) \/ Merge \/ RemoveDir \/ PassEnd
  \/ GiveUp \/ Finished

Next == Script \/ Retry \/ (\E i \in Images : Menu(i)) \/ Kill \/ Restart

Spec == Init /\ [][Next]_vars

\* The programs return, the user goes on, and a URL that is tried again and
\* again is delivered at some time.
FairSpec ==
  /\ Spec /\ WF_vars(Script) /\ WF_vars(Retry) /\ WF_vars(Restart)
  /\ \A u \in Flaky : SF_vars(\E got \in Deliverable : u \in got /\ Fetch(got))

\* With --noask Return is pressed by the script, which nobody interrupts.
NoaskSpec == Init /\ [][Script \/ Retry]_vars /\ WF_vars(Script \/ Retry)

-----------------------------------------------------------------------------
(* Properties *)

\* make-image is never run with a template that is not known to be the right one
\* ("the chances are high that the image generation process will break").
TemplateChecked ==
  pc \in {"scan", "left", "uris", "pass", "fetch", "merge"} => template[cur] = "right"

\* Before the script says that parts could not be downloaded it has tried each
\* of their URLs (up to the eighth).
AllTried ==
  pc = "prompt" =>
    \A p \in Missing(cur) : \A n \in 1..Passes : n =< UrlCount(p) => <<p, n>> \in tried

\* A part that was downloaded is not deleted before it is in the image: not when
\* make-image fails, and not when the script is interrupted and started again.
FilesKept ==
  \A i \in Images : \A p \in dir[i].parts \intersect PartsOf[i] :
    p \in dir'[i].parts \/ image'[i] \/ p \in tmp'[i].parts

\* Images and what is in image.tmp remain, except that Ctrl-C in the middle of
\* make-image may spoil image.tmp.
WorkKept ==
  \A i \in Images :
    /\ image[i] => image'[i]
    /\ tmp[i].state = "valid" =>
         image'[i] \/ (tmp'[i].state = "valid" /\ tmp[i].parts \subseteq tmp'[i].parts)
         \/ pc' = "killed"

\* All images are made at last (<>AllMade), however often the user has to press Return, or
\* presses Ctrl-C when asked: "If you re-run jigdo-lite later, it will resume
\* from here".
AllMade == \A i \in Images : image[i]

\* Claimed: "Deal with leftover tmpdir from previous, interrupted download": the
\* script does not abort when the image is complete.
NotAbortedWhenComplete == pc = "aborted" => \E i \in Images : ~image[i]

\* Claimed: the template's URI "is relative to absolute jigdo URL".
UrlKnown == pc = "template" => url = "jigdo"

\* Claimed: that files could not be downloaded "should not happen" - when servers
\* have them all.
HappensNot == pc = "prompt" => \E p \in Missing(cur) : \A n \in 1..Passes : <<p, n>> \notin Good

\* Claimed: with --noask the script "can be useful [...] from cron jobs".
Ends == <>Ended
=============================================================================
