------------------------------ MODULE MkImage ------------------------------
(***************************************************************************)
(* JigdoDesc::makeImage and its helpers (src/mkimage.cc), as called by     *)
(* "jigdo-file make-image": the image is rebuilt from a template and the   *)
(* files supplied, in as many runs as it takes.  Between two runs the work *)
(* is kept in <image>.tmp: the image with zeroes where files are missing,  *)
(* followed by a DESC section that says which parts are in place.          *)
(*                                                                         *)
(* The image is a sequence of areas, one for each entry of the template's  *)
(* DESC section; a file on disk is the set of areas that are right in it.  *)
(* Writes reach the disk in program order.  What a killed process had not  *)
(* flushed is a suffix of that order, so that its death is the same as one *)
(* a little earlier; a write error that shows only when the buffer is      *)
(* flushed is what LateErrors is about.                                    *)
(***************************************************************************)
EXTENDS Naturals, Sequences

CONSTANTS
  Data,             \* an entry of type UNMATCHED_DATA
  Template,         \* the entries: Data, or the file an area is equal to
  BlockLength,      \* of the ImageInfo entry; 0 in templates before 0.6.3
  CheckFiles,       \* --check-files
  LateErrors,       \* may a write error show in a last write or in close()?
  MaxFaults         \* bound: crashes, I/O errors and files that go bad

Positions == DOMAIN Template
Parts == {i \in Positions : Template[i] # Data}
Files == {Template[i] : i \in Parts}

\* No file is needed at two places of the image.
NoDuplicates == \A i, j \in Parts : Template[i] = Template[j] => i = j

ASSUME ImageAssumption ==
  /\ Template \in Seq(Files \union {Data}) /\ Template # << >>
  /\ BlockLength \in Nat
  /\ CheckFiles \in BOOLEAN /\ LateErrors \in BOOLEAN
  /\ MaxFaults \in Nat

Running == 4        \* values of exit besides the exit statuses 0 to 3
Killed == 5

VARIABLES
  tmp,              \* <image>.tmp: areas that are right; is there a DESC
                    \* section at its end, and which parts does it call written
  image,            \* the image file
  stdout,           \* the areas that are right in what a run sent to stdout
  health,           \* of each input file, seen at the time it is copied
  pc,               \* where makeImage is: "idle" between runs
  task,             \* CREATE_TMP, MERGE_TMP, SINGLE_PASS
  toCopy, missing,  \* parts found among the files supplied, and not found
  written,          \* parts that became WrittenFile* in memory
  next,             \* loop variable of writeAll, writeMerge and put
  result,
  last,             \* the area written last
  exit,             \* exit status of the last run, Running or Killed
  faults

diskVars == <<tmp, image, stdout>>
runVars  == <<pc, task, toCopy, missing, written, next, result, last, exit>>
envVars  == <<health, faults>>
vars == <<diskVars, runVars, envVars>>

NoTmp == [exists |-> FALSE, good |-> {}, valid |-> FALSE, have |-> {}]
EmptyTmp == [NoTmp EXCEPT !.exists = TRUE]

Init ==
  /\ tmp = NoTmp /\ image = [exists |-> FALSE, good |-> {}] /\ stdout = {}
  /\ health = [f \in Files |-> "ok"]
  /\ pc = "idle" /\ task = "create" /\ toCopy = {} /\ missing = {}
  /\ written = {} /\ next = 1 /\ result = 0 /\ last = 0
  /\ exit = Running /\ faults = 0

-----------------------------------------------------------------------------
(* The start of a run: options, temporary file, scan of the files *)

\* Mutant of Refused: any temporary file is refused.
RefusedTmp(force, toStdout) ==
  ~toStdout /\ ~force /\ (image.exists \/ tmp.exists)

\* willOutputTo(), and makeImage() when readTmpFile() finds no usable DESC.
Refused(force, toStdout) ==
  /\ ~toStdout /\ ~force
  /\ image.exists \/ (tmp.exists /\ ~tmp.valid)

\* Mutant of TaskFor: the temporary file is always started afresh.
TaskForCreate(toStdout) == IF toStdout THEN "single" ELSE "create"

TaskFor(toStdout) ==
  IF toStdout THEN "single"
  ELSE IF tmp.exists /\ tmp.valid THEN "merge" ELSE "create"

\* Mutant of Needed: WrittenFile*s are copied again.
NeededAll(t) == Parts

\* The MatchedFile* (but not WrittenFile*) entries of the vector in use.
Needed(t) == IF t = "merge" THEN Parts \ tmp.have ELSE Parts

\* listMissing*(): what print-missing shows.
ListMissing == {Template[i] : i \in Needed(TaskFor(FALSE))}

\* A file that is all right is found.  One that is not may be found all the
\* same: by a checksum from the cache, or because it went bad after the scan.
FoundAmong(F) ==
  {found \in SUBSET F : {f \in F : health[f] = "ok"} \subseteq found}

Return(status) == pc' = "idle" /\ exit' = status

\* makeImage() and the head of writeMerge(): reasons to stop at once.
GiveUpStatus(t, copy, miss) ==
  CASE t = "merge" /\ BlockLength = 0            -> 3
    [] t # "single" /\ copy = {} /\ miss # {}    -> 1
    [] t = "single" /\ miss # {}                 -> 3
    [] OTHER                                     -> 0

Refuse(force, toStdout) ==
  /\ pc = "idle" /\ Refused(force, toStdout)
  /\ Return(3) /\ task' = "create"
  /\ UNCHANGED <<diskVars, envVars, toCopy, missing, written, next, result,
                 last>>

Start(F, force, toStdout) ==
  /\ pc = "idle" /\ ~Refused(force, toStdout)
  /\ task' = TaskFor(toStdout)
  /\ \E found \in FoundAmong(F) :
       /\ toCopy' = {i \in Needed(task') : Template[i] \in found}
       /\ missing' = Needed(task') \ toCopy'
  /\ written' = Parts \ Needed(task')
  /\ next' = 1 /\ last' = 0
  /\ LET status == GiveUpStatus(task', toCopy', missing')
     IN IF status # 0
        THEN Return(status) /\ UNCHANGED <<diskVars, result>>
        ELSE /\ tmp' = IF task' = "create" THEN EmptyTmp ELSE tmp
             /\ stdout' = IF toStdout THEN {} ELSE stdout
             /\ result' = IF task' = "merge" /\ missing' # {} THEN 1 ELSE 0
             /\ IF BlockLength = 0 THEN Return(3)   \* head of writeAll()
                ELSE /\ pc' = IF task' = "merge" THEN "merge" ELSE "copy"
                     /\ exit' = Running
             /\ UNCHANGED image
  /\ UNCHANGED envVars

-----------------------------------------------------------------------------
(* writeAll() and writeMerge(): one turn of their loop over the entries *)

MaxOf(a, b) == IF a > b THEN a ELSE b

\* What arrives in an area of the output: is it right?
WriteArea(p, ok) ==
  LET Updated(good) == IF ok THEN good \union {p} ELSE good \ {p}
  IN IF task = "single"
     THEN stdout' = Updated(stdout) /\ UNCHANGED tmp
     ELSE tmp' = [tmp EXCEPT !.good = Updated(@)] /\ UNCHANGED stdout

\* fileToImage*(): 2 if the file is too short, unreadable or, when that is
\* checked, different; the right amount of something was written then.
\* Mutant of CopyStatus: a file that has changed is not noticed.
CopyStatusUnchecked(f) == IF health[f] = "unreadable" THEN 2 ELSE 0

CopyStatus(f) ==
  IF health[f] = "ok" \/ (health[f] = "changed" /\ ~CheckFiles) THEN 0 ELSE 2

\* Is q the head of the queue, and does entry p ask for that file?  The
\* queue was filled in the order of the entries.
Front(q) == \A r \in toCopy : q <= r
Fits(q, p) == Front(q) /\ Template[q] = Template[p]

\* Mutant of FileToImage: forgets toCopy.pop().
FileToImageNoPop(q) ==
  LET status == CopyStatus(Template[next])
  IN /\ WriteArea(next, health[Template[next]] = "ok")
     /\ result' = MaxOf(result, status)
     /\ written' = IF status = 0 THEN written \union {next} ELSE written
     /\ last' = next /\ UNCHANGED toCopy

\* The file at the head of the queue goes to area next.
FileToImage(q) ==
  LET status == CopyStatus(Template[next])
  IN /\ WriteArea(next, health[Template[next]] = "ok")
     /\ toCopy' = toCopy \ {q}
     /\ result' = MaxOf(result, status)
     /\ written' = IF status = 0 THEN written \union {next} ELSE written
     /\ last' = next

CopyData ==
  /\ pc = "copy" /\ next \in Positions \ Parts
  /\ WriteArea(next, TRUE)
  /\ next' = next + 1 /\ last' = next
  /\ UNCHANGED <<image, envVars, pc, task, toCopy, missing, written, result,
                 exit>>

\* Mutant of WriteZeroes: forgets that the result is a soft failure.
WriteZeroesQuietly ==
  /\ pc = "copy" /\ next \in Parts /\ ~\E q \in toCopy : Fits(q, next)
  /\ WriteArea(next, FALSE)
  /\ next' = next + 1 /\ last' = next
  /\ UNCHANGED <<image, envVars, pc, task, toCopy, missing, written, result,
                 exit>>

WriteZeroes ==
  /\ pc = "copy" /\ next \in Parts /\ ~\E q \in toCopy : Fits(q, next)
  /\ WriteArea(next, FALSE)
  /\ result' = MaxOf(result, 1)
  /\ next' = next + 1 /\ last' = next
  /\ UNCHANGED <<image, envVars, pc, task, toCopy, missing, written, exit>>

CopyFile ==
  /\ pc = "copy" /\ next \in Parts
  /\ \E q \in toCopy : Fits(q, next) /\ FileToImage(q)
  /\ next' = next + 1
  /\ IF task = "single" /\ CopyStatus(Template[next]) # 0
     THEN Return(result') ELSE UNCHANGED <<pc, exit>>
  /\ UNCHANGED <<image, envVars, task, missing>>

\* Mutant of EndCopy: the DESC section is for missing files only.
EndCopyNoDesc ==
  /\ pc = "copy" /\ next \notin Positions
  /\ IF task = "single" \/ result = 2 THEN Return(result)
     ELSE /\ pc' = IF result > 0 THEN "desc" ELSE "close"
          /\ UNCHANGED exit
  /\ UNCHANGED <<diskVars, envVars, task, toCopy, missing, written, next,
                 result, last>>

\* After the loop of writeAll(); close() follows when nothing is missing.
EndCopy ==
  /\ pc = "copy" /\ next \notin Positions
  /\ IF task = "single" THEN Return(result)
     ELSE /\ pc' = IF result > 0 THEN "desc" ELSE "close"
          /\ UNCHANGED exit
  /\ UNCHANGED <<diskVars, envVars, task, toCopy, missing, written, next,
                 result, last>>

\* writeMerge() looks at every entry that is a MatchedFile*; because of the
\* dynamic_cast a WrittenFile* is one, too.
MergeFile ==
  /\ pc = "merge" /\ next \in Parts
  /\ \E q \in toCopy : Fits(q, next) /\ FileToImage(q)
  /\ next' = next + 1
  /\ UNCHANGED <<image, envVars, pc, task, missing, exit>>

MergeSkip ==
  /\ pc = "merge" /\ next \in Positions
  /\ ~(next \in Parts /\ \E q \in toCopy : Fits(q, next))
  /\ next' = next + 1
  /\ UNCHANGED <<diskVars, envVars, pc, task, toCopy, missing, written, result,
                 last, exit>>

\* Mutants of EndMerge: files that could not be copied are not considered;
\* the loop over the entries starts one too early.
EndMergeAllFound ==
  /\ pc = "merge" /\ next \notin Positions
  /\ pc' = IF missing = {} THEN "close" ELSE "desc"
  /\ next' = 1
  /\ UNCHANGED <<diskVars, envVars, task, toCopy, missing, written, result,
                 last, exit>>
EndMergeFromZero ==
  /\ pc = "merge" /\ next \notin Positions
  /\ pc' = IF missing = {} /\ result = 0 THEN "close" ELSE "desc"
  /\ next' = 0
  /\ UNCHANGED <<diskVars, envVars, task, toCopy, missing, written, result,
                 last, exit>>

EndMerge ==
  /\ pc = "merge" /\ next \notin Positions
  /\ pc' = IF missing = {} /\ result = 0 THEN "close" ELSE "desc"
  /\ next' = 1
  /\ UNCHANGED <<diskVars, envVars, task, toCopy, missing, written, result,
                 last, exit>>

-----------------------------------------------------------------------------
(* The end of a run: DESC section, or truncation and renaming *)

\* Mutant of AppendDesc: the section of the template is copied.
AppendDescNoneWritten ==
  /\ pc = "desc" /\ task = "create"
  /\ tmp' = [tmp EXCEPT !.valid = TRUE]
  /\ Return(result)
  /\ UNCHANGED <<image, stdout, envVars, task, toCopy, missing, written, next,
                 result, last>>

\* writeAll(): "*img << files".  The section counts once it is complete.
AppendDesc ==
  /\ pc = "desc" /\ task = "create"
  /\ tmp' = [tmp EXCEPT !.valid = TRUE, !.have = written]
  /\ Return(result)
  /\ UNCHANGED <<image, stdout, envVars, task, toCopy, missing, written, next,
                 result, last>>

\* writeMerge(): the section is overwritten entry by entry; it keeps its
\* size, and only the type of an entry can be different.
UpdateDesc ==
  /\ pc = "desc" /\ task = "merge" /\ next \in Positions
  /\ tmp' = [tmp EXCEPT !.have = IF next \in written THEN @ \union {next}
                                 ELSE @ \ {next}]
  /\ next' = next + 1
  /\ UNCHANGED <<image, stdout, envVars, pc, task, toCopy, missing, written,
                 result, last, exit>>

EndUpdate ==
  /\ pc = "desc" /\ task = "merge" /\ next \notin Positions
  /\ Return(result)
  /\ UNCHANGED <<diskVars, envVars, task, toCopy, missing, written, next,
                 result, last>>

CloseFile ==
  /\ pc = "close"
  /\ pc' = IF task = "merge" THEN "truncate" ELSE "rename"
  /\ UNCHANGED <<diskVars, envVars, task, toCopy, missing, written, next,
                 result, last, exit>>

Truncate ==
  /\ pc = "truncate"
  /\ tmp' = [tmp EXCEPT !.valid = FALSE, !.have = {}]
  /\ pc' = "rename"
  /\ UNCHANGED <<image, stdout, envVars, task, toCopy, missing, written, next,
                 result, last, exit>>

Rename ==
  /\ pc = "rename"
  /\ image' = [exists |-> TRUE, good |-> tmp.good]
  /\ tmp' = NoTmp
  /\ Return(0)
  /\ UNCHANGED <<stdout, envVars, task, toCopy, missing, written, next, result,
                 last>>

-----------------------------------------------------------------------------
(* What can go wrong: each step counts as a fault *)

Fault == faults < MaxFaults /\ faults' = faults + 1

\* An error of the disk, of the template or of a system call that is noticed
\* at once.  After one in writeMerge() the DESC section cannot be written
\* either.
IoError ==
  /\ Fault
  /\ \/ /\ pc \in {"copy", "desc", "truncate", "rename"}
        /\ UNCHANGED <<tmp, stdout>>
     \/ /\ pc = "merge" /\ next \in Parts
        /\ \E q \in toCopy : Fits(q, next)
        /\ WriteArea(next, FALSE)
  /\ Return(3)
  /\ UNCHANGED <<image, health, task, toCopy, missing, written, next, result,
                 last>>

\* writeMerge() does not look at *img after fileToImage*(), which reports an
\* error only if something is left to be written or the sums differ.
MergeErrorUnseen ==
  /\ Fault /\ (LateErrors \/ ~CheckFiles)
  /\ pc = "merge" /\ next \in Parts
  /\ \E q \in toCopy : Fits(q, next) /\ toCopy' = toCopy \ {q}
  /\ WriteArea(next, FALSE)
  /\ IF toCopy' = {} /\ missing = {} /\ result + CopyStatus(Template[next]) = 0
     THEN pc' = "close" /\ UNCHANGED exit
     ELSE Return(3)
  /\ last' = next
  /\ UNCHANGED <<image, health, task, missing, written, next, result>>

\* close(), whose result nobody asks for, cannot write the last buffer.
CloseLoses ==
  /\ Fault /\ LateErrors /\ pc = "close"
  /\ WriteArea(last, FALSE)
  /\ pc' = IF task = "merge" THEN "truncate" ELSE "rename"
  /\ UNCHANGED <<image, health, task, toCopy, missing, written, next, result,
                 last, exit>>

\* The same for the DESC section, when the stream is destroyed.
DescLost ==
  /\ Fault /\ LateErrors /\ pc = "desc"
  /\ Return(result)
  /\ UNCHANGED <<diskVars, health, task, toCopy, missing, written, next, result,
                 last>>

\* The process is killed, possibly within an area that writeMerge() replaces.
Crash ==
  /\ Fault /\ pc # "idle"
  /\ \/ UNCHANGED <<tmp, stdout>>
     \/ /\ pc = "merge" /\ next \in Parts
        /\ \E q \in toCopy : Fits(q, next)
        /\ WriteArea(next, FALSE)
  /\ Return(Killed)
  /\ UNCHANGED <<image, health, task, toCopy, missing, written, next, result,
                 last>>

Break(f) ==
  /\ Fault /\ health[f] = "ok"
  /\ \E bad \in {"changed", "unreadable"} : health' = [health EXCEPT ![f] = bad]
  /\ UNCHANGED <<diskVars, runVars>>

Repair(f) ==
  /\ health[f] # "ok"
  /\ health' = [health EXCEPT ![f] = "ok"]
  /\ UNCHANGED <<diskVars, runVars, faults>>

-----------------------------------------------------------------------------
\* One step of a run of jigdo-file that is under way.
Step ==
  \/ CopyData \/ WriteZeroes \/ CopyFile \/ EndCopy
  \/ MergeFile \/ MergeSkip \/ EndMerge
  \/ AppendDesc \/ UpdateDesc \/ EndUpdate
  \/ CloseFile \/ Truncate \/ Rename

Next ==
  \/ \E force, toStdout \in BOOLEAN :
       \/ Refuse(force, toStdout)
       \/ \E F \in SUBSET Files : Start(F, force, toStdout)
  \/ Step
  \/ IoError \/ MergeErrorUnseen \/ CloseLoses \/ DescLost \/ Crash
  \/ \E f \in Files : Break(f) \/ Repair(f)

Spec == Init /\ [][Next]_vars

\* A process that runs goes on.  Files that went bad are replaced.  Whoever
\* wants the image supplies every file again and again, one at a time, and
\* says --force.
Fairness ==
  /\ WF_vars(Step)
  /\ \A f \in Files : /\ WF_vars(Repair(f))
                      /\ SF_vars(Start({f}, TRUE, FALSE))

FairSpec == Spec /\ Fairness

-----------------------------------------------------------------------------
(* Properties *)

\* Types; the loop variable stays within one entry of the template's, and the
\* statuses are among those the program knows.
TypeOK ==
  /\ tmp \in [exists : BOOLEAN, good : SUBSET Positions, valid : BOOLEAN,
              have : SUBSET Parts]
  /\ image \in [exists : BOOLEAN, good : SUBSET Positions]
  /\ stdout \in SUBSET Positions
  /\ health \in [Files -> {"ok", "changed", "unreadable"}]
  /\ pc \in {"idle", "copy", "merge", "desc", "close", "truncate", "rename"}
  /\ task \in {"create", "merge", "single"}
  /\ toCopy \in SUBSET Parts /\ missing \in SUBSET Parts
  /\ written \in SUBSET Parts
  /\ next \in 1..(Len(Template) + 1) /\ last \in 0..Len(Template)
  /\ result \in 0..2 /\ exit \in 0..5 /\ faults \in 0..MaxFaults

\* A file with the name of the image is the image (comment at the end of
\* writeMerge(): rename only when it is complete), after any sequence of runs,
\* crashes, I/O errors and files that change under the program's hands.
ImageGood == image.exists => image.good = Positions

\* What the DESC section of the temporary file calls written is right in it,
\* and so is all the unmatched data: a later run relies on both blindly.
HonestTmp ==
  tmp.valid => (Positions \ Parts) \union tmp.have \subseteq tmp.good

\* Exit status 0 "signals successful creation": the whole image was delivered
\* and nothing is left to be done.
ExitZero ==
  exit = 0 => IF task = "single" THEN stdout = Positions
              ELSE image.exists /\ image.good = Positions /\ ~tmp.exists

\* Exit status 1: "more files need to be supplied".  Those are exactly the
\* ones print-missing shows; every file the run had found is in place and may
\* be deleted.
ExitOne == exit = 1 => /\ missing # {}
                       /\ ListMissing = {Template[i] : i \in missing}

\* Exit status 2, "recoverable": the work done so far can be built upon.
ExitTwo == exit = 2 /\ task # "single" => tmp.exists /\ tmp.valid

\* Exit status 3 is for errors, or for what cannot be done without --force or
\* all at once: a run with nothing wrong does not end with it, and does not
\* leave a temporary file that a later one refuses.
ExitThree ==
  exit = 3 /\ faults = 0 => IF task = "single" THEN missing # {}
                            ELSE image.exists

\* Assert(toCopy.empty()) at the end of writeAll().
QueueUsedUp == pc \in {"desc", "close"} => toCopy = {}

\* The parts that are in safe keeping: those that a later run will not ask
\* for, or all, when the temporary file only has to be renamed.
Saved ==
  IF tmp.valid THEN tmp.have
  ELSE IF tmp.exists /\ tmp.good = Positions THEN Parts ELSE {}

Assembly == INSTANCE ImageAssembly WITH saved <- Saved, done <- image.exists

\* No run, however it ends, loses what an earlier run has put in place, and
\* the image appears only when all parts are.
KeepsWork == Assembly!Spec

\* In the end there is an image.
ImageMade == <>image.exists
=============================================================================
