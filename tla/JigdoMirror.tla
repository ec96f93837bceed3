----------------------------- MODULE JigdoMirror -----------------------------
(***************************************************************************)
(* The script jigdo-mirror (scripts/jigdo-mirror): run at intervals, it    *)
(* makes the images of all .jigdo files of a mirror.                       *)
(*                                                                         *)
(* New versions of .jigdo files are published, and reach the mirror, with  *)
(* the time at which they were made, between two runs.  The script reads   *)
(* the names of the files from a pipe, so that its main loop runs in a     *)
(* process of its own (with all shells that are usual for /bin/sh).  In    *)
(* its working directory it uses files of fixed names; of these "jigdo" and  *)
(* "template" are not deleted before each use, and both may be links into    *)
(* the mirror, whose files the script is allowed to write to.                *)
(***************************************************************************)
EXTENDS Integers, Sequences, FiniteSets

CONSTANTS
  FileOf,         \* of each image 1..n the number of its .jigdo file, ascending
  Gzipped,        \* .jigdo files that are compressed
  Summed,         \* images for which it has the sum of the template
  Remote,         \* images whose template has to be downloaded
  Failures,       \* what goes wrong at times: "template", "fetch", "local",
                  \* "merge", "incomplete", "verify"
  Kills,          \* is the script killed at times?
  Delayed,        \* does a new version reach the mirror later than it is made?
  MaxAge,         \* $maxAge, 0 when it is unset
  MaxTime         \* bound

Images == DOMAIN FileOf
Files == {FileOf[i] : i \in Images}  \* 1..n, in the order of find

MirrorAssumption ==
  /\ FileOf \in Seq(Nat \ {0}) /\ FileOf # << >>
  /\ Gzipped \subseteq Files /\ Summed \union Remote \subseteq Images
  /\ {MaxAge, MaxTime} \subseteq Nat /\ {Kills, Delayed} \subseteq BOOLEAN

VARIABLES
  now,
  published,      \* time of the newest version of each .jigdo file, its name
  mirror,         \* each .jigdo file on the mirror: the file whose text it has
                  \* (0 if it is empty), the version of that, its time
  master,         \* contents of each image's template file on the mirror
  image,          \* $imageDir: what each image was made from, and when
  link,           \* the file "template": a link to that of an image, 0 if not
  copy,           \* its contents when it is a file of its own
  jigdo,          \* the file "jigdo": a link to a .jigdo file, 0 if not
  pc, file, cur,
  failed,         \* exitCode=1, in the process of the loop
  exit,           \* the exit status of the last run
  seen            \* history: the images this run has come to

work == <<link, copy, jigdo>>
control == <<pc, file, cur, failed, exit, seen>>
vars == <<now, published, mirror, master, image, work, control>>

\* The contents of a template: of which image, and of which version.
TemplateFor(i, v) == [of |-> i, version |-> v]
Nothing == TemplateFor(0, 0)
NoImage == [from |-> Nothing, time |-> 0]

Jigdofile(f, v, t) == [text |-> f, version |-> v, time |-> t]
\* The template of an image, in the newest version; in that of the .jigdo file.
Current(i) == TemplateFor(i, published[FileOf[i]])
Right(i) == TemplateFor(i, mirror[file].version)

Init ==
  /\ now = 1
  /\ published = [f \in Files |-> 0] /\ mirror = [f \in Files |-> Jigdofile(f, 0, 0)]
  /\ master = [i \in Images |-> TemplateFor(i, 0)]
  /\ image = [i \in Images |-> NoImage]
  /\ link = 0 /\ copy = Nothing /\ jigdo = 0
  /\ pc = "idle" /\ file = 1 /\ cur = 1 /\ failed = FALSE /\ exit = 0 /\ seen = Images

-----------------------------------------------------------------------------
(* Outside the script *)

Tick ==
  /\ now < MaxTime /\ now' = now + 1
  /\ UNCHANGED <<published, mirror, master, image, work, control>>

\* The mirror is updated: files that differ are copied, with their times.
Updated(f, v) ==
  /\ mirror' = [mirror EXCEPT ![f] = Jigdofile(f, v, v)]
  /\ master' = [i \in Images |-> IF FileOf[i] = f THEN TemplateFor(i, v) ELSE master[i]]

Sync(f) ==
  /\ pc = "idle" /\ Updated(f, published[f])
  /\ UNCHANGED <<now, published, image, work, control>>

\* A new version is made, and mirrored before the script is run ("preferably
\* immediately after the normal mirroring"), if it is not delayed.
Publish(f) ==
  /\ now < MaxTime /\ now' = now + 1
  /\ published' = [published EXCEPT ![f] = now']
  /\ IF Delayed THEN UNCHANGED <<mirror, master>> ELSE pc = "idle" /\ Updated(f, now')
  /\ UNCHANGED <<image, work, control>>

Start ==
  /\ pc = "idle"
  /\ pc' = "jigdo" /\ file' = 1 /\ failed' = FALSE /\ exit' = 0 /\ seen' = {}
  /\ UNCHANGED <<now, published, mirror, master, image, work, cur>>

\* It is killed, and leaves its files behind.
Kill ==
  /\ Kills /\ pc # "idle"
  /\ pc' = "idle" /\ seen' = Images /\ exit' = 1
  /\ UNCHANGED <<now, published, mirror, master, image, work, file, cur, failed>>

-----------------------------------------------------------------------------
(* The loop *)

NoTemplate == link' = 0 /\ copy' = Nothing

\* Mutant of NextFile: a program in the loop has read the other names from the pipe.
NextFileLost == jigdo' = 0 /\ pc' = "expire" /\ UNCHANGED file
\* The next .jigdo file; "jigdo" is deleted.
NextFile ==
  /\ jigdo' = 0
  /\ IF file < Cardinality(Files) THEN pc' = "jigdo" /\ file' = file + 1
     ELSE pc' = "expire" /\ UNCHANGED file

\* The next image of this file, or the next file.
Continue ==
  /\ seen' = seen \union {cur}
  /\ IF cur + 1 \in Images /\ FileOf[cur + 1] = mirror[file].text
     THEN pc' = "section" /\ cur' = cur + 1 /\ UNCHANGED <<jigdo, file>>
     ELSE NextFile /\ UNCHANGED cur

\* makeImage() returns after an error.
GiveUp ==
  /\ NoTemplate /\ failed' = TRUE /\ Continue
  /\ UNCHANGED <<now, published, mirror, master, image, exit>>

\* The .jigdo files after "gzip -cd >jigdo", which writes to the file that a link
\* leads to; only a compressed file has output.
Unpacked ==
  IF jigdo = 0 THEN mirror
  ELSE [mirror EXCEPT ![jigdo] =
          IF file \in Gzipped THEN Jigdofile(mirror[file].text, mirror[file].version, now)
          ELSE Jigdofile(0, 0, now)]

\* The .jigdo file is unpacked, or linked to; the first image of its text is next.
Jigdo ==
  /\ pc = "jigdo"
  /\ mirror' = Unpacked
  /\ IF file \in Gzipped THEN UNCHANGED <<link, copy>> ELSE NoTemplate
  /\ LET text == Unpacked[file].text IN
       IF text = 0 THEN NextFile /\ UNCHANGED cur
       ELSE /\ jigdo' = (IF file \in Gzipped THEN jigdo ELSE file)
            /\ cur' = CHOOSE i \in Images : /\ FileOf[i] = text
                                            /\ \A j \in 1..i - 1 : FileOf[j] # text
            /\ pc' = "section" /\ UNCHANGED file
  /\ UNCHANGED <<now, published, master, image, failed, exit, seen>>

\* Mutant of Newer: the sense of -nt is reversed.
NewerNot(i) == mirror[file].time < image[i].time
Newer(i) == mirror[file].time > image[i].time

\* sectionEnd()
UpToDate ==
  /\ pc = "section" /\ image[cur] # NoImage /\ ~Newer(cur)
  /\ image' = IF MaxAge = 0 THEN image ELSE [image EXCEPT ![cur].time = now]
  /\ Continue
  /\ UNCHANGED <<now, published, mirror, master, link, copy, failed, exit>>

Outdated ==
  /\ pc = "section" /\ (image[cur] = NoImage \/ Newer(cur))
  /\ image' = [image EXCEPT ![cur] = NoImage]
  /\ pc' = "template"
  /\ UNCHANGED <<now, published, mirror, master, work, file, cur, failed, exit, seen>>

-----------------------------------------------------------------------------
(* makeImage() *)

\* What is found under the name "template".
Found == IF link # 0 THEN master[link] ELSE copy

\* ln -s, which fails when there is such a file already.
Link ==
  /\ pc = "template" /\ cur \notin Remote
  /\ link' = (IF Found = Nothing THEN cur ELSE link)
  /\ pc' = "check"
  /\ UNCHANGED <<now, published, mirror, master, image, copy, jigdo, file, cur, failed, exit, seen>>

\* "Template file not found": the mirror has it neither under $templateDir nor
\* under $jigdoDir.
NotFound ==
  /\ pc = "template" /\ cur \notin Remote /\ "template" \in Failures /\ GiveUp

\* wget -O template writes to the file that a link leads to.
Fetch ==
  /\ pc = "template" /\ cur \in Remote
  /\ IF link = 0 THEN copy' = Current(cur) /\ UNCHANGED master
     ELSE master' = [master EXCEPT ![link] = Current(cur)] /\ UNCHANGED copy
  /\ pc' = "check"
  /\ UNCHANGED <<now, published, mirror, image, link, jigdo, file, cur, failed, exit, seen>>

FetchFails ==
  /\ pc = "template" /\ cur \in Remote /\ "fetch" \in Failures /\ GiveUp

\* Mutant of Fits: the sum is not compared.
FitsAlways == TRUE
\* The sum of the template is compared if the .jigdo file has it.
Fits == cur \in Summed => Found = Right(cur)

Check ==
  /\ pc = "check" /\ Fits
  /\ pc' = "local"
  /\ UNCHANGED <<now, published, mirror, master, image, work, file, cur, failed, exit, seen>>

Misfit == pc = "check" /\ ~Fits /\ GiveUp

\* make-image with the files of the local mirror.
Local ==
  /\ pc = "local" /\ pc' = "download"
  /\ UNCHANGED <<now, published, mirror, master, image, work, file, cur, failed, exit, seen>>

LocalFails == pc = "local" /\ "local" \in Failures /\ GiveUp

\* The .jigdo file has entries for the parts of this template.
PartsListed == FileOf[Found.of] = mirror[file].text

\* The passes have got all parts, and verify has compared the sum of the image
\* with that in the template.
Complete ==
  /\ pc = "download" /\ PartsListed
  /\ image' = [image EXCEPT ![cur] = [from |-> Found, time |-> now]]
  /\ NoTemplate /\ Continue
  /\ UNCHANGED <<now, published, mirror, master, failed, exit>>

\* Parts are missing, too many, or not; or the image is not right.
Incomplete ==
  /\ pc = "download"
  /\ (~PartsListed \/ {"incomplete", "verify"} \intersect Failures # {})
  /\ GiveUp

\* fetchAndMerge(): make-image fails, and exit ends the loop.
MergeFails ==
  /\ pc = "download" /\ "merge" \in Failures
  /\ failed' = TRUE /\ pc' = "expire"
  /\ UNCHANGED <<now, published, mirror, master, image, work, file, cur, exit, seen>>

-----------------------------------------------------------------------------
\* Images that are too old are deleted.  The variable exitCode of this process
\* is not the one that the loop has set.
Expire ==
  /\ pc = "expire" /\ pc' = "idle" /\ exit' = 0
  /\ image' = [i \in Images |-> IF MaxAge # 0 /\ image[i].time + MaxAge < now
                                THEN NoImage ELSE image[i]]
  /\ UNCHANGED <<now, published, mirror, master, work, file, cur, failed, seen>>

Script ==
  \/ Jigdo \/ UpToDate \/ Outdated \/ Link \/ NotFound \/ Fetch \/ FetchFails \/ Check \/ Misfit
  \/ Local \/ LocalFails \/ Complete \/ Incomplete \/ MergeFails \/ Expire

Next ==
  \/ Script \/ Start \/ Kill \/ Tick
  \/ \E f \in Files : Publish(f) \/ Sync(f)

Spec == Init /\ [][Next]_vars

\* It is run again and again, its programs return, and what is tried again and
\* again succeeds at some time.
FairSpec ==
  /\ Spec /\ WF_vars(Script) /\ WF_vars(Start)
  /\ \A f \in Files : SF_vars(Sync(f))
  /\ \A i \in Images : /\ SF_vars(Link /\ cur = i) /\ SF_vars(Fetch /\ cur = i)
                        /\ SF_vars(Local /\ cur = i)
                        /\ SF_vars(Complete /\ cur = i)

-----------------------------------------------------------------------------
(* Properties *)

\* An image in place was made from its own template ("Image checksum is correct,
\* moving image into place").
OwnTemplate == \A i \in Images : image[i] # NoImage => image[i].from.of = i

\* After a run the images in place are those of the present .jigdo files
\* ("Remove outdated image *immediately*, even in case the subsequent attempt to
\* regenerate it fails"); those that are not there have failed.
NoneOutdated ==
  pc = "expire" =>
    \A i \in seen : /\ image[i] # NoImage => image[i].from = Current(i)
                    /\ image[i] = NoImage => failed

\* When there are no new versions any more all images are made, and are right
\* (<>[]AllRight).
AllRight == \A i \in Images : image[i].from = Current(i)

\* Claimed: "exitCode=1" is the exit status when an image could not be made.
ExitTold == pc = "idle" /\ failed => exit # 0

\* Claimed: the script will "attempt to create all images offered by each file".
AllAttempted == pc \in {"expire", "idle"} => seen = Images

\* Claimed: an image that is not older than its .jigdo file is "up to date".
SaidRight ==
  [][\A i \in Images : seen' = seen \union {i} /\ pc = "section" /\ cur = i =>
       image[i].from = Right(i)]_vars

\* Claimed: "this script can use those files" of the mirror: it leaves the templates,
\* and the .jigdo files, as they are.
TemplatesKept == [][pc # "idle" => UNCHANGED master]_vars
JigdosKept == [][pc # "idle" => UNCHANGED mirror]_vars
=============================================================================
