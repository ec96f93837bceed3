--------------------------- MODULE MkImage_proof ---------------------------
(***************************************************************************)
(* Proofs about MkImage, for every template and any number of faults, and, *)
(* at the end, about the scripts that run it (JigdoLite, JigdoMirror), for *)
(* any images, servers and interruptions.                                  *)
(***************************************************************************)
EXTENDS MkImage, TLAPS, FiniteSetTheorems, SequenceTheorems, WellFoundedInduction

-----------------------------------------------------------------------------
(* Type correctness *)

\* What the temporary file can be.
Tmps == [exists : BOOLEAN, good : SUBSET Positions, valid : BOOLEAN,
         have : SUBSET Parts]

\* The positions are the first numbers, and each holds a file or Data.
LEMMA PositionsFacts ==
  /\ Positions = 1..Len(Template) /\ Len(Template) \in Nat \ {0}
  /\ Parts \subseteq Positions
  /\ \A i \in Parts : Template[i] \in Files
  BY ImageAssumption DEF Positions, Parts, Files

\* WriteArea() touches one of the two outputs and keeps its type.
LEMMA WriteAreaType ==
  ASSUME TypeOK, NEW p \in Positions, NEW ok \in BOOLEAN, WriteArea(p, ok)
  PROVE  /\ tmp' \in Tmps
         /\ stdout' \in SUBSET Positions
  BY DEF TypeOK, Tmps, WriteArea

\* The statuses fileToImage*() can return and what makes of the result.
LEMMA StatusType ==
  ASSUME TypeOK, NEW f \in Files
  PROVE  /\ CopyStatus(f) \in {0, 2}
         /\ MaxOf(result, CopyStatus(f)) \in 0..2
         /\ MaxOf(result, 1) \in 0..2
  BY DEF TypeOK, CopyStatus, MaxOf

\* FileToImage() keeps the types of what it changes.
LEMMA FileToImageType ==
  ASSUME TypeOK, NEW q, next \in Parts, FileToImage(q)
  PROVE  /\ tmp' \in Tmps
         /\ stdout' \in SUBSET Positions
         /\ toCopy' \in SUBSET Parts /\ written' \in SUBSET Parts
         /\ result' \in 0..2 /\ last' \in 0..Len(Template)
         /\ next + 1 \in 1..(Len(Template) + 1)
  <1>1. next \in Positions /\ Template[next] \in Files
    BY PositionsFacts
  <1>2. MaxOf(result, CopyStatus(Template[next])) \in 0..2
    BY <1>1, StatusType
  <1>3. /\ tmp' \in Tmps
        /\ stdout' \in SUBSET Positions
    <2>1. WriteArea(next, health[Template[next]] = "ok")
      BY DEF FileToImage
    <2>2. (health[Template[next]] = "ok") \in BOOLEAN
      OBVIOUS
    <2> QED BY <1>1, <2>1, <2>2, WriteAreaType
  <1>4. toCopy' \in SUBSET Parts /\ written' \in SUBSET Parts
    BY DEF FileToImage, TypeOK
  <1>5. result' \in 0..2 /\ last' \in 0..Len(Template)
    BY <1>1, <1>2, PositionsFacts DEF FileToImage
  <1>6. next + 1 \in 1..(Len(Template) + 1)
    BY <1>1, PositionsFacts
  <1> QED BY <1>3, <1>4, <1>5, <1>6

\* At first every variable has its type.
LEMMA TypeInit == Init => TypeOK
  BY PositionsFacts, ImageAssumption DEF Init, TypeOK, NoTmp, Running

\* The start of a run.
LEMMA TypeStart ==
  ASSUME TypeOK, NEW F \in SUBSET Files,
         NEW force \in BOOLEAN, NEW toStdout \in BOOLEAN,
         Start(F, force, toStdout) \/ Refuse(force, toStdout)
  PROVE  TypeOK'
  <1>1. CASE Refuse(force, toStdout)
    BY <1>1 DEF Refuse, Return, TypeOK, diskVars, envVars
  <1>2. CASE Start(F, force, toStdout)
    <2>1. task' \in {"create", "merge", "single"}
      BY <1>2 DEF Start, TaskFor
    <2>2. Needed(task') \subseteq Parts
      BY DEF Needed
    <2>3. toCopy' \in SUBSET Parts /\ missing' \in SUBSET Parts
      BY <1>2, <2>2 DEF Start
    <2>4. written' \in SUBSET Parts
      BY <1>2 DEF Start
    <2>5. next' \in 1..(Len(Template) + 1) /\ last' \in 0..Len(Template)
      BY <1>2, PositionsFacts DEF Start
    <2>6. GiveUpStatus(task', toCopy', missing') \in {0, 1, 3}
      BY DEF GiveUpStatus
    <2>a. EmptyTmp \in Tmps
      BY DEF EmptyTmp, NoTmp, Tmps
    <2>b. tmp' = tmp \/ tmp' = EmptyTmp
      BY <1>2 DEF Start, diskVars
    <2>7. /\ tmp' \in Tmps
          /\ image' = image /\ stdout' \in SUBSET Positions
          /\ result' \in 0..2
      <3>1. tmp' \in Tmps
        BY <2>a, <2>b DEF TypeOK, Tmps
      <3>2. image' = image /\ stdout' \in SUBSET Positions
        BY <1>2 DEF Start, TypeOK, diskVars
      <3>3. result' \in 0..2
        BY <1>2 DEF Start, TypeOK
      <3> QED BY <3>1, <3>2, <3>3
    <2>8. exit' \in 0..5 /\ pc' \in {"idle", "copy", "merge"}
      BY <1>2, <2>6 DEF Start, Return, Running
    <2>9. UNCHANGED envVars
      BY <1>2 DEF Start
    <2> QED
      BY <2>1, <2>3, <2>4, <2>5, <2>7, <2>8, <2>9 DEF TypeOK, Tmps, envVars
  <1> QED BY <1>1, <1>2

\* The loop of writeAll().
LEMMA TypeCopy ==
  ASSUME TypeOK, CopyData \/ WriteZeroes \/ CopyFile \/ EndCopy
  PROVE  TypeOK'
  <1>1. CASE CopyData
    <2>1. /\ next \in Positions /\ WriteArea(next, TRUE)
          /\ next' = next + 1 /\ last' = next
      BY <1>1 DEF CopyData
    <2>2. /\ tmp' \in Tmps
          /\ stdout' \in SUBSET Positions
      BY <2>1, WriteAreaType
    <2>3. next' \in 1..(Len(Template) + 1) /\ last' \in 0..Len(Template)
      BY <2>1, PositionsFacts
    <2> QED BY <1>1, <2>2, <2>3 DEF CopyData, TypeOK, Tmps, envVars
  <1>2. CASE WriteZeroes
    <2>1. /\ next \in Positions /\ WriteArea(next, FALSE)
          /\ next' = next + 1 /\ last' = next
      BY <1>2, PositionsFacts DEF WriteZeroes
    <2>2. /\ tmp' \in Tmps
          /\ stdout' \in SUBSET Positions
      BY <2>1, WriteAreaType
    <2>3. next' \in 1..(Len(Template) + 1) /\ last' \in 0..Len(Template)
      BY <2>1, PositionsFacts
    <2>4. result' \in 0..2
      BY <1>2 DEF WriteZeroes, MaxOf, TypeOK
    <2> QED BY <1>2, <2>2, <2>3, <2>4 DEF WriteZeroes, TypeOK, Tmps, envVars
  <1>3. CASE CopyFile
    <2>1. PICK q \in toCopy : FileToImage(q)
      BY <1>3 DEF CopyFile
    <2>2. /\ tmp' \in Tmps
          /\ stdout' \in SUBSET Positions
          /\ toCopy' \in SUBSET Parts /\ written' \in SUBSET Parts
          /\ result' \in 0..2 /\ last' \in 0..Len(Template)
          /\ next + 1 \in 1..(Len(Template) + 1)
      BY <1>3, <2>1, FileToImageType DEF CopyFile
    <2>3. next' = next + 1 /\ UNCHANGED <<image, envVars, task, missing>>
      BY <1>3 DEF CopyFile
    <2>4. exit' \in 0..5 /\ pc' \in {"idle", "copy"}
      BY <1>3, <2>2 DEF CopyFile, Return, TypeOK
    <2> QED BY <2>2, <2>3, <2>4 DEF TypeOK, Tmps, envVars
  <1>4. CASE EndCopy
    BY <1>4 DEF EndCopy, Return, TypeOK, diskVars, envVars
  <1> QED BY <1>1, <1>2, <1>3, <1>4

\* The loop of writeMerge().
LEMMA TypeMerge ==
  ASSUME TypeOK, MergeFile \/ MergeSkip \/ EndMerge
  PROVE  TypeOK'
  <1>1. CASE MergeFile
    <2>1. PICK q \in toCopy : FileToImage(q)
      BY <1>1 DEF MergeFile
    <2>2. /\ tmp' \in Tmps
          /\ stdout' \in SUBSET Positions
          /\ toCopy' \in SUBSET Parts /\ written' \in SUBSET Parts
          /\ result' \in 0..2 /\ last' \in 0..Len(Template)
          /\ next + 1 \in 1..(Len(Template) + 1)
      BY <1>1, <2>1, FileToImageType DEF MergeFile
    <2>3. /\ next' = next + 1
          /\ UNCHANGED <<image, envVars, pc, task, missing, exit>>
      BY <1>1 DEF MergeFile
    <2> QED BY <2>2, <2>3 DEF TypeOK, Tmps, envVars
  <1>2. CASE MergeSkip
    <2>1. next' \in 1..(Len(Template) + 1)
      BY <1>2, PositionsFacts DEF MergeSkip
    <2> QED BY <1>2, <2>1 DEF MergeSkip, TypeOK, Tmps, diskVars, envVars
  <1>3. CASE EndMerge
    BY <1>3, PositionsFacts DEF EndMerge, TypeOK, diskVars, envVars
  <1> QED BY <1>1, <1>2, <1>3

\* The end of a run.
LEMMA TypeEnd ==
  ASSUME TypeOK,
         AppendDesc \/ UpdateDesc \/ EndUpdate \/ CloseFile \/ Truncate
           \/ Rename
  PROVE  TypeOK'
  <1>1. CASE AppendDesc
    <2>1. tmp' \in Tmps
      BY <1>1 DEF AppendDesc, TypeOK, Tmps
    <2>2. result \in 0..5
      BY DEF TypeOK
    <2> QED BY <1>1, <2>1, <2>2 DEF AppendDesc, Return, TypeOK, Tmps, envVars
  <1>2. CASE UpdateDesc
    <2>1. next' \in 1..(Len(Template) + 1)
      BY <1>2, PositionsFacts DEF UpdateDesc
    <2>2. tmp' \in Tmps
      BY <1>2 DEF UpdateDesc, TypeOK, Tmps
    <2> QED BY <1>2, <2>1, <2>2 DEF UpdateDesc, TypeOK, Tmps, envVars
  <1>3. CASE EndUpdate
    BY <1>3 DEF EndUpdate, Return, TypeOK, diskVars, envVars
  <1>4. CASE CloseFile
    BY <1>4 DEF CloseFile, TypeOK, diskVars, envVars
  <1>5. CASE Truncate
    BY <1>5 DEF Truncate, TypeOK, envVars
  <1>6. CASE Rename
    BY <1>6 DEF Rename, Return, NoTmp, TypeOK, envVars
  <1> QED BY <1>1, <1>2, <1>3, <1>4, <1>5, <1>6

\* Faults: the count stays within its bound, areas are only marked bad.
LEMMA TypeFault ==
  ASSUME TypeOK,
         IoError \/ MergeErrorUnseen \/ CloseLoses \/ DescLost \/ Crash
  PROVE  TypeOK'
  <1> DEFINE Same == tmp' = tmp /\ stdout' = stdout
             Bad  == \E p \in Positions : WriteArea(p, FALSE)
  <1>1. faults' \in 0..MaxFaults
    <2>1. Fault
      BY DEF IoError, MergeErrorUnseen, CloseLoses, DescLost, Crash
    <2> QED BY <2>1, ImageAssumption DEF Fault, TypeOK
  <1>2. /\ pc' \in {pc, "idle", "close", "truncate", "rename"}
        /\ exit' \in {exit, result, 3, Killed}
        /\ toCopy' \subseteq toCopy
        /\ last' \in {last, next} /\ (last' # last => next \in Parts)
        /\ UNCHANGED <<image, health, task, missing, written, next, result>>
    <2>1. CASE IoError
      BY <2>1 DEF IoError, Return
    <2>2. CASE MergeErrorUnseen
      BY <2>2 DEF MergeErrorUnseen, Return
    <2>3. CASE CloseLoses
      BY <2>3 DEF CloseLoses
    <2>4. CASE DescLost
      BY <2>4 DEF DescLost, Return, diskVars
    <2>5. CASE Crash
      BY <2>5 DEF Crash, Return
    <2> QED BY <2>1, <2>2, <2>3, <2>4, <2>5
  <1>3. /\ pc' \in {"idle", "copy", "merge", "desc", "close", "truncate",
                    "rename"}
        /\ exit' \in 0..5 /\ toCopy' \in SUBSET Parts
    BY <1>2 DEF TypeOK, Killed
  <1>4. last' \in 0..Len(Template)
    BY <1>2, PositionsFacts DEF TypeOK
  <1>5. tmp' \in Tmps /\ stdout' \in SUBSET Positions
    <2>1. Same \/ Bad \/ WriteArea(last, FALSE)
      <3>1. CASE IoError
        BY <3>1, PositionsFacts DEF IoError
      <3>2. CASE MergeErrorUnseen
        BY <3>2, PositionsFacts DEF MergeErrorUnseen
      <3>3. CASE CloseLoses
        BY <3>3 DEF CloseLoses
      <3>4. CASE DescLost
        BY <3>4 DEF DescLost, diskVars
      <3>5. CASE Crash
        BY <3>5, PositionsFacts DEF Crash
      <3> QED BY <3>1, <3>2, <3>3, <3>4, <3>5
    <2>2. CASE Same
      BY <2>2 DEF TypeOK, Tmps
    <2>3. CASE Bad
      BY <2>3, WriteAreaType
    <2>4. CASE WriteArea(last, FALSE)
      BY <2>4 DEF WriteArea, TypeOK, Tmps
    <2> QED BY <2>1, <2>2, <2>3, <2>4
  <1> QED
    BY <1>1, <1>2, <1>3, <1>4, <1>5 DEF TypeOK, Tmps

\* Every step keeps the types.
LEMMA TypeNext ==
  ASSUME TypeOK, [Next]_vars
  PROVE  TypeOK'
  <1>1. ASSUME NEW force \in BOOLEAN, NEW toStdout \in BOOLEAN,
               \/ Refuse(force, toStdout)
               \/ \E F \in SUBSET Files : Start(F, force, toStdout)
        PROVE  TypeOK'
    <2>1. CASE Refuse(force, toStdout)
      BY <2>1, TypeStart
    <2>2. CASE \E F \in SUBSET Files : Start(F, force, toStdout)
      BY <2>2, TypeStart
    <2> QED BY <1>1, <2>1, <2>2
  <1>2. CASE Step
    BY <1>2, TypeCopy, TypeMerge, TypeEnd DEF Step
  <1>3. CASE IoError \/ MergeErrorUnseen \/ CloseLoses \/ DescLost \/ Crash
    BY <1>3, TypeFault
  <1>4. ASSUME NEW f \in Files, Break(f) \/ Repair(f) PROVE TypeOK'
    <2>1. health' \in [Files -> {"ok", "changed", "unreadable"}]
      BY <1>4 DEF Break, Repair, TypeOK
    <2>2. faults' \in 0..MaxFaults
      BY <1>4, ImageAssumption DEF Break, Repair, Fault, TypeOK
    <2>3. UNCHANGED <<diskVars, runVars>>
      BY <1>4 DEF Break, Repair
    <2> QED BY <2>1, <2>2, <2>3 DEF TypeOK, diskVars, runVars
  <1>5. CASE UNCHANGED vars
    BY <1>5 DEF vars, diskVars, runVars, envVars, TypeOK
  <1> QED BY <1>1, <1>2, <1>3, <1>4, <1>5 DEF Next

\* Every state is of the right type, whatever the template, the options and
\* the number of faults.
THEOREM TypeCorrect == Spec => []TypeOK
  <1>1. TypeOK /\ [Next]_vars => TypeOK'
    BY TypeNext
  <1> QED BY TypeInit, <1>1, PTL DEF Spec

-----------------------------------------------------------------------------
(* The inductive invariant *)

\* Files that are not what they should be are noticed, and each has one place.
Checked == NoDuplicates /\ CheckFiles

\* The conditions under which the image and the exit status can be trusted,
\* too: write errors that show only in close() can spoil both.
Careful == NoDuplicates /\ CheckFiles /\ ~LateErrors

\* What the run that is under way writes to.
Output == IF task = "single" THEN stdout ELSE tmp.good

\* Between and during the runs, the disk.
DiskOK ==
  /\ ImageGood
  /\ tmp.valid => tmp.exists
  /\ HonestTmp

\* Which places of the program go with which task, and with which kind of
\* temporary file.
ControlOK ==
  /\ pc = "copy" => task \in {"create", "single"}
  /\ pc \in {"merge", "truncate"} => task = "merge"
  /\ pc \in {"desc", "close", "rename"} => task \in {"create", "merge"}
  /\ pc # "idle" => exit = Running
  /\ pc # "idle" /\ task # "single" =>
       /\ tmp.exists
       /\ tmp.valid <=> (task = "merge" /\ pc # "rename")

\* The queue holds only parts that the loop has yet to come to.
QueueOK ==
  /\ pc \in {"copy", "merge"} => \A q \in toCopy : next <= q
  /\ pc \in {"desc", "close"} => toCopy = {}

\* Every part is written, still queued, missing, or it has failed; what is
\* written is right.
PartsOK ==
  pc \in {"copy", "merge", "desc"} =>
    /\ toCopy \intersect written = {} /\ missing \intersect written = {}
    /\ missing \intersect toCopy = {}
    /\ \A p \in Parts : \/ p \in written \/ p \in toCopy \/ p \in missing
                        \/ result = 2
    /\ written \subseteq Output
    /\ result = 1 => missing # {}

\* writeAll(): nothing but what it has copied is in the output.
CopyOK ==
  /\ pc = "copy" =>
       /\ Output \subseteq 1..(next - 1)
       /\ 1..(next - 1) \subseteq Output \union Parts
       /\ Output \intersect Parts \subseteq written
       /\ \A p \in missing : p < next => result > 0
       /\ task = "single" => missing = {} /\ result = 0
  /\ pc = "desc" /\ task = "create" =>
       /\ Positions \subseteq Output \union Parts
       /\ Output \intersect Parts \subseteq written

\* writeMerge(): the DESC section on disk lags behind the one in memory.
MergeOK ==
  /\ pc \in {"merge", "desc"} /\ task = "merge" =>
       /\ tmp.have \subseteq written
       /\ missing # {} => result > 0
  /\ pc = "desc" /\ task = "merge" =>
       \A p \in written : p < next => p \in tmp.have

\* Nobody closes, truncates or renames an incomplete image, and a run that
\* writes a DESC section instead has a reason.
DoneOK ==
  /\ pc \in {"close", "truncate", "rename"} => tmp.good = Positions
  /\ pc = "desc" => result > 0

\* What a later run will ask for.
StillNeeded == Needed(TaskFor(FALSE))

\* The exit status.
ExitOK ==
  /\ ExitZero
  /\ exit = 1 => missing # {} /\ missing = StillNeeded
  /\ ExitTwo

Inv ==
  /\ TypeOK
  /\ DiskOK /\ ControlOK /\ QueueOK /\ PartsOK /\ CopyOK /\ MergeOK
  /\ DoneOK /\ ExitOK

-----------------------------------------------------------------------------
(* Every step keeps the invariant *)

\* Writing an area changes the output of the run and nothing else.
LEMMA WriteAreaFacts ==
  ASSUME TypeOK, NEW p, NEW ok \in BOOLEAN, WriteArea(p, ok), task' = task
  PROVE  /\ ok => Output' = Output \union {p}
         /\ ~ok => Output' = Output \ {p}
         /\ tmp'.exists = tmp.exists /\ tmp'.valid = tmp.valid
         /\ tmp'.have = tmp.have
         /\ task = "single" => tmp' = tmp
         /\ task # "single" => stdout' = stdout
  BY DEF TypeOK, WriteArea, Output

\* The head of the queue fits only its own entry, and it does fit that.
LEMMA FitsNext ==
  ASSUME TypeOK, NoDuplicates, QueueOK, pc \in {"copy", "merge"}
  PROVE  /\ \A q \in toCopy : next \in Parts /\ Fits(q, next) => q = next
         /\ next \in toCopy => Fits(next, next)
  BY DEF TypeOK, NoDuplicates, QueueOK, Fits, Front

\* A careful run notices every file that is not what it should be.
LEMMA CopyStatusFacts ==
  ASSUME TypeOK, CheckFiles, NEW f \in Files
  PROVE  /\ CopyStatus(f) = 0 <=> health[f] = "ok"
         /\ CopyStatus(f) \in {0, 2}
         /\ CopyStatus(f) = 0 => MaxOf(result, CopyStatus(f)) = result
         /\ CopyStatus(f) # 0 => MaxOf(result, CopyStatus(f)) = 2
         /\ MaxOf(result, 1) = IF result = 0 THEN 1 ELSE result
  BY DEF TypeOK, CopyStatus, MaxOf

\* One file was copied to its place, or an attempt was made.
LEMMA FileToImageFacts ==
  ASSUME Checked, TypeOK, QueueOK, pc \in {"copy", "merge"}, next \in Parts,
         task' = task,
         NEW q \in toCopy, Fits(q, next), FileToImage(q)
  PROVE  /\ next \in toCopy /\ toCopy' = toCopy \ {next}
         /\ tmp'.exists = tmp.exists /\ tmp'.valid = tmp.valid
         /\ tmp'.have = tmp.have
         /\ task = "single" => tmp' = tmp
         /\ task # "single" => stdout' = stdout
         /\ \/ /\ CopyStatus(Template[next]) = 0
               /\ Output' = Output \union {next}
               /\ written' = written \union {next} /\ result' = result
            \/ /\ CopyStatus(Template[next]) # 0
               /\ Output' = Output \ {next}
               /\ written' = written /\ result' = 2
  <1>1. q = next
    BY FitsNext DEF Checked
  <1>2. WriteArea(next, health[Template[next]] = "ok")
    BY DEF FileToImage
  <1>3. (health[Template[next]] = "ok") \in BOOLEAN
    OBVIOUS
  <1>4. Template[next] \in Files /\ CheckFiles
    BY PositionsFacts DEF Checked
  <1>5. toCopy' = toCopy \ {next}
    BY <1>1 DEF FileToImage
  <1>6. /\ tmp'.exists = tmp.exists /\ tmp'.valid = tmp.valid
        /\ tmp'.have = tmp.have
        /\ task = "single" => tmp' = tmp
        /\ task # "single" => stdout' = stdout
    BY <1>2, <1>3, WriteAreaFacts
  <1>7. CASE CopyStatus(Template[next]) = 0
    <2>1. health[Template[next]] = "ok"
      BY <1>4, <1>7, CopyStatusFacts
    <2>2. WriteArea(next, TRUE)
      BY <1>2, <2>1
    <2>3. Output' = Output \union {next}
      BY <2>2, WriteAreaFacts
    <2>4. written' = written \union {next}
      BY <1>7 DEF FileToImage
    <2>5. result' = result
      BY <1>4, <1>7, CopyStatusFacts DEF FileToImage
    <2> QED BY <1>1, <1>5, <1>6, <1>7, <2>3, <2>4, <2>5
  <1>8. CASE CopyStatus(Template[next]) # 0
    <2>1. health[Template[next]] # "ok"
      BY <1>4, <1>8, CopyStatusFacts
    <2>2. WriteArea(next, FALSE)
      BY <1>2, <2>1
    <2>3. Output' = Output \ {next}
      BY <2>2, WriteAreaFacts
    <2>4. written' = written
      BY <1>8 DEF FileToImage
    <2>5. result' = 2
      BY <1>4, <1>8, CopyStatusFacts DEF FileToImage
    <2> QED BY <1>1, <1>5, <1>6, <1>8, <2>3, <2>4, <2>5
  <1> QED BY <1>7, <1>8

\* While a run is under way nothing is claimed about its exit status.
LEMMA RunningExit ==
  ASSUME exit' = Running
  PROVE  ExitOK'
  BY DEF ExitOK, ExitZero, ExitTwo, Running

\* In the loop of writeAll() there is no DESC section on disk.
LEMMA CopyDisk ==
  ASSUME Inv, pc = "copy", image' = image, task' = task,
         tmp'.valid = tmp.valid, tmp'.exists = tmp.exists,
         task = "single" => tmp' = tmp
  PROVE  /\ DiskOK'
         /\ task \in {"create", "single"}
         /\ task = "create" => tmp.exists /\ ~tmp.valid
  <1>1. task \in {"create", "single"}
    BY DEF Inv, ControlOK
  <1>2. task = "create" => tmp.exists /\ ~tmp.valid
    BY DEF Inv, ControlOK
  <1>3. ImageGood' /\ (tmp'.valid => tmp'.exists)
    BY DEF Inv, DiskOK, ImageGood
  <1>4. HonestTmp'
    <2>1. HonestTmp
      BY DEF Inv, DiskOK
    <2>2. tmp' = tmp \/ ~tmp'.valid
      BY <1>1, <1>2
    <2> QED BY <2>1, <2>2 DEF HonestTmp
  <1> QED BY <1>1, <1>2, <1>3, <1>4 DEF DiskOK

\* Facts about a run that is under way.
LEMMA RunFacts ==
  ASSUME Inv
  PROVE  /\ TypeOK /\ next \in Nat /\ result \in 0..2
         /\ pc # "idle" => exit = Running
  <1>1. TypeOK /\ ControlOK
    BY DEF Inv
  <1> QED BY <1>1 DEF TypeOK, ControlOK

\* writeAll() copies unmatched data.
LEMMA InvCopyData ==
  ASSUME Careful, Inv, CopyData
  PROVE  Inv'
  <1>1. /\ TypeOK' /\ TypeOK
        /\ pc = "copy" /\ pc' = "copy" /\ next \in Positions \ Parts
        /\ next \in Nat /\ next' = next + 1
        /\ exit = Running /\ exit' = Running
        /\ image' = image /\ task' = task /\ toCopy' = toCopy
        /\ missing' = missing /\ written' = written /\ result' = result
    <2>1. TypeOK'
      BY RunFacts, TypeCopy
    <2> QED BY <2>1, RunFacts DEF CopyData
  <1>2. /\ Output' = Output \union {next}
        /\ tmp'.exists = tmp.exists /\ tmp'.valid = tmp.valid
        /\ tmp'.have = tmp.have
        /\ task = "single" => tmp' = tmp
    BY <1>1, WriteAreaFacts DEF CopyData
  <1>3. /\ DiskOK' /\ task \in {"create", "single"}
        /\ task = "create" => tmp.exists /\ ~tmp.valid
    BY <1>1, <1>2, CopyDisk
  <1>4. ControlOK'
    BY <1>1, <1>2, <1>3 DEF ControlOK
  <1>5. QueueOK'
    <2>1. \A r \in toCopy : next <= r /\ r \in Parts /\ r \in Nat
      BY <1>1, PositionsFacts DEF Inv, QueueOK, TypeOK
    <2>2. \A r \in toCopy : next + 1 <= r
      BY <1>1, <2>1
    <2> QED BY <1>1, <2>2 DEF QueueOK
  <1>6. PartsOK'
    BY <1>1, <1>2 DEF Inv, PartsOK
  <1>7. CopyOK'
    <2>1. /\ Output \subseteq 1..(next - 1)
          /\ 1..(next - 1) \subseteq Output \union Parts
          /\ Output \intersect Parts \subseteq written
          /\ \A p \in missing : p < next => result > 0
          /\ task = "single" => missing = {} /\ result = 0
      BY <1>1 DEF Inv, CopyOK
    <2>2. 1..(next' - 1) = 1..(next - 1) \union {next}
      BY <1>1, PositionsFacts
    <2>3. /\ Output' \subseteq 1..(next' - 1)
          /\ 1..(next' - 1) \subseteq Output' \union Parts
          /\ Output' \intersect Parts \subseteq written'
      BY <1>1, <1>2, <2>1, <2>2
    <2>4. \A p \in missing' : p < next' => result' > 0
      <3>1. \A p \in missing : p \in Nat /\ p # next
        BY <1>1, PositionsFacts DEF TypeOK
      <3> QED BY <1>1, <2>1, <3>1
    <2> QED BY <1>1, <2>1, <2>3, <2>4 DEF CopyOK
  <1>8. MergeOK' /\ DoneOK'
    BY <1>1, <1>3 DEF MergeOK, DoneOK
  <1> QED BY <1>1, <1>3, <1>4, <1>5, <1>6, <1>7, <1>8, RunningExit DEF Inv

\* writeAll() leaves out a part for which there is no file.
LEMMA InvWriteZeroes ==
  ASSUME Careful, Inv, WriteZeroes
  PROVE  Inv'
  <1>1. /\ TypeOK' /\ TypeOK
        /\ pc = "copy" /\ pc' = "copy" /\ next \in Parts
        /\ next \in Nat /\ next' = next + 1
        /\ exit = Running /\ exit' = Running
        /\ image' = image /\ task' = task /\ toCopy' = toCopy
        /\ missing' = missing /\ written' = written
        /\ result' = IF result = 0 THEN 1 ELSE result
    <2>1. TypeOK'
      BY RunFacts, TypeCopy
    <2> QED BY <2>1, RunFacts DEF WriteZeroes, MaxOf
  <1>2. /\ Output' = Output \ {next}
        /\ tmp'.exists = tmp.exists /\ tmp'.valid = tmp.valid
        /\ tmp'.have = tmp.have
        /\ task = "single" => tmp' = tmp
    BY <1>1, WriteAreaFacts DEF WriteZeroes
  <1>3. /\ DiskOK' /\ task \in {"create", "single"}
        /\ task = "create" => tmp.exists /\ ~tmp.valid
    BY <1>1, <1>2, CopyDisk
  <1>4. ControlOK'
    BY <1>1, <1>2, <1>3 DEF ControlOK
  <1>5. next \notin toCopy
    BY <1>1, FitsNext DEF Inv, Careful, WriteZeroes
  <1>6. QueueOK'
    <2>1. \A r \in toCopy : next <= r /\ r # next /\ r \in Nat
      BY <1>1, <1>5, PositionsFacts DEF Inv, QueueOK, TypeOK
    <2>2. \A r \in toCopy : next + 1 <= r
      BY <1>1, <2>1
    <2> QED BY <1>1, <2>2 DEF QueueOK
  <1>7. /\ Output \subseteq 1..(next - 1)
        /\ 1..(next - 1) \subseteq Output \union Parts
        /\ Output \intersect Parts \subseteq written
        /\ \A p \in missing : p < next => result > 0
        /\ task = "single" => missing = {} /\ result = 0
    BY <1>1 DEF Inv, CopyOK
  <1>8. /\ toCopy \intersect written = {} /\ missing \intersect written = {}
        /\ missing \intersect toCopy = {}
        /\ \A p \in Parts : \/ p \in written \/ p \in toCopy \/ p \in missing
                            \/ result = 2
        /\ written \subseteq Output
        /\ result = 1 => missing # {}
    BY <1>1 DEF Inv, PartsOK
  <1>9. next \notin Output
    BY <1>1, <1>7
  <1>10. next \in missing \/ result = 2
    BY <1>1, <1>5, <1>8, <1>9
  <1>11. PartsOK'
    BY <1>1, <1>2, <1>8, <1>9, <1>10 DEF PartsOK
  <1>12. CopyOK'
    <2>1. 1..(next' - 1) = 1..(next - 1) \union {next}
      BY <1>1, PositionsFacts
    <2>2. /\ Output' \subseteq 1..(next' - 1)
          /\ 1..(next' - 1) \subseteq Output' \union Parts
          /\ Output' \intersect Parts \subseteq written'
      BY <1>1, <1>2, <1>7, <1>9, <2>1
    <2>3. result' > 0
      BY <1>1 DEF TypeOK
    <2>4. task # "single"
      BY <1>7, <1>10
    <2> QED BY <1>1, <2>2, <2>3, <2>4 DEF CopyOK
  <1>13. MergeOK' /\ DoneOK'
    BY <1>1, <1>3 DEF MergeOK, DoneOK
  <1> QED
    BY <1>1, <1>3, <1>4, <1>6, <1>11, <1>12, <1>13, RunningExit DEF Inv

\* writeAll() copies a file, or fails to.
LEMMA InvCopyFile ==
  ASSUME Careful, Inv, CopyFile
  PROVE  Inv'
  <1>1. /\ TypeOK' /\ TypeOK
        /\ pc = "copy" /\ next \in Parts
        /\ next \in Nat /\ next' = next + 1 /\ exit = Running
        /\ image' = image /\ task' = task /\ missing' = missing
    <2>1. TypeOK'
      BY RunFacts, TypeCopy
    <2> QED BY <2>1, RunFacts DEF CopyFile
  <1>2. PICK q \in toCopy : Fits(q, next) /\ FileToImage(q)
    BY DEF CopyFile
  <1>3. /\ next \in toCopy /\ toCopy' = toCopy \ {next}
        /\ tmp'.exists = tmp.exists /\ tmp'.valid = tmp.valid
        /\ tmp'.have = tmp.have
        /\ task = "single" => tmp' = tmp
        /\ \/ /\ CopyStatus(Template[next]) = 0
              /\ Output' = Output \union {next}
              /\ written' = written \union {next} /\ result' = result
           \/ /\ CopyStatus(Template[next]) # 0
              /\ Output' = Output \ {next}
              /\ written' = written /\ result' = 2
    BY <1>1, <1>2, FileToImageFacts DEF Inv, Careful, Checked
  <1>4. /\ DiskOK' /\ task \in {"create", "single"}
        /\ task = "create" => tmp.exists /\ ~tmp.valid
    BY <1>1, <1>3, CopyDisk
  <1>5. CASE task = "single" /\ CopyStatus(Template[next]) # 0
    <2>1. pc' = "idle" /\ exit' = 2
      BY <1>3, <1>5 DEF CopyFile, Return
    <2>2. ControlOK' /\ QueueOK' /\ PartsOK' /\ CopyOK' /\ MergeOK' /\ DoneOK'
      BY <2>1 DEF ControlOK, QueueOK, PartsOK, CopyOK, MergeOK, DoneOK
    <2>3. ExitOK'
      BY <1>1, <1>5, <2>1 DEF ExitOK, ExitZero, ExitTwo
    <2> QED BY <1>1, <1>4, <2>2, <2>3 DEF Inv
  <1>6. CASE ~(task = "single" /\ CopyStatus(Template[next]) # 0)
    <2>1. pc' = "copy" /\ exit' = Running
      BY <1>1, <1>6 DEF CopyFile
    <2>2. ControlOK'
      BY <1>1, <1>3, <1>4, <2>1 DEF ControlOK
    <2>3. QueueOK'
      <3>1. \A r \in toCopy' : next <= r /\ r # next /\ r \in Nat
        BY <1>1, <1>3, PositionsFacts DEF Inv, QueueOK, TypeOK
      <3>2. \A r \in toCopy' : next + 1 <= r
        BY <1>1, <3>1
      <3> QED BY <1>1, <2>1, <3>2 DEF QueueOK
    <2>4. /\ Output \subseteq 1..(next - 1)
          /\ 1..(next - 1) \subseteq Output \union Parts
          /\ Output \intersect Parts \subseteq written
          /\ \A p \in missing : p < next => result > 0
          /\ task = "single" => missing = {} /\ result = 0
      BY <1>1 DEF Inv, CopyOK
    <2>5. /\ toCopy \intersect written = {} /\ missing \intersect written = {}
          /\ missing \intersect toCopy = {}
          /\ \A p \in Parts : \/ p \in written \/ p \in toCopy
                              \/ p \in missing \/ result = 2
          /\ written \subseteq Output
          /\ result = 1 => missing # {}
      BY <1>1 DEF Inv, PartsOK
    <2>6. next \notin Output
      BY <1>1, <2>4
    <2>7. PartsOK'
      BY <1>1, <1>3, <2>5, <2>6 DEF PartsOK
    <2>8. CopyOK'
      <3>1. 1..(next' - 1) = 1..(next - 1) \union {next}
        BY <1>1, PositionsFacts
      <3>2. /\ Output' \subseteq 1..(next' - 1)
            /\ 1..(next' - 1) \subseteq Output' \union Parts
            /\ Output' \intersect Parts \subseteq written'
        BY <1>1, <1>3, <2>4, <2>6, <3>1
      <3>3. \A p \in missing' : p < next' => result' > 0
        <4>1. \A p \in missing : p \in Nat /\ p # next
          BY <1>1, <1>3, <2>5, PositionsFacts DEF TypeOK
        <4>2. \A p \in missing : p < next + 1 => p < next
          BY <1>1, <4>1
        <4> QED BY <1>1, <1>3, <2>4, <4>2
      <3>4. task = "single" => missing' = {} /\ result' = 0
        BY <1>1, <1>3, <1>6, <2>4
      <3> QED BY <1>1, <2>1, <3>2, <3>3, <3>4 DEF CopyOK
    <2>9. MergeOK' /\ DoneOK'
      BY <1>1, <1>4, <2>1 DEF MergeOK, DoneOK
    <2> QED
      BY <1>1, <1>4, <2>1, <2>2, <2>3, <2>7, <2>8, <2>9, RunningExit DEF Inv
  <1> QED BY <1>5, <1>6

\* Once a run has ended, only the disk and the exit status matter.
LEMMA IdleFree ==
  ASSUME pc' = "idle"
  PROVE  ControlOK' /\ QueueOK' /\ PartsOK' /\ CopyOK' /\ MergeOK' /\ DoneOK'
  BY DEF ControlOK, QueueOK, PartsOK, CopyOK, MergeOK, DoneOK

\* The disk is as it was.
LEMMA DiskSame ==
  ASSUME Inv, tmp' = tmp, image' = image
  PROVE  DiskOK'
  <1>1. DiskOK
    BY DEF Inv
  <1> QED BY <1>1 DEF DiskOK, ImageGood, HonestTmp

\* The loop of writeAll() is over.
LEMMA InvEndCopy ==
  ASSUME Careful, Inv, EndCopy
  PROVE  Inv'
  <1>1. /\ TypeOK' /\ TypeOK /\ next \in Nat /\ result \in 0..2
        /\ pc = "copy" /\ next \notin Positions /\ exit = Running
        /\ task' = task /\ toCopy' = toCopy /\ missing' = missing
        /\ written' = written /\ result' = result /\ next' = next
        /\ tmp' = tmp /\ image' = image /\ stdout' = stdout
    <2>1. TypeOK'
      BY RunFacts, TypeCopy
    <2> QED BY <2>1, RunFacts DEF EndCopy, diskVars
  <1>2. DiskOK'
    BY <1>1, DiskSame
  <1>3. next = Len(Template) + 1 /\ 1..(next - 1) = Positions
    BY <1>1, PositionsFacts DEF TypeOK
  <1>4. toCopy = {}
    <2>1. \A r \in toCopy : next <= r /\ r \in 1..Len(Template)
      BY <1>1, PositionsFacts DEF Inv, QueueOK, TypeOK
    <2> QED BY <1>3, <2>1, PositionsFacts
  <1>5. /\ Output \subseteq Positions /\ Positions \subseteq Output \union Parts
        /\ Output \intersect Parts \subseteq written
        /\ \A p \in missing : p < next => result > 0
        /\ task = "single" => missing = {} /\ result = 0
    BY <1>1, <1>3 DEF Inv, CopyOK
  <1>6. /\ missing \intersect written = {}
        /\ \A p \in Parts : p \in written \/ p \in missing \/ result = 2
        /\ written \subseteq Output
        /\ result = 1 => missing # {}
    BY <1>1, <1>4 DEF Inv, PartsOK
  <1>7. result = 0 => missing = {}
    <2>1. \A p \in missing : p \in 1..Len(Template)
      BY <1>1, PositionsFacts DEF TypeOK
    <2>2. \A p \in missing : p < next
      BY <1>3, <2>1, PositionsFacts
    <2> QED BY <1>5, <2>2
  <1>8. result = 0 => Output = Positions
    BY <1>5, <1>6, <1>7
  <1>9. task \in {"create", "single"} /\ (task = "create" => tmp.exists)
    BY <1>1 DEF Inv, ControlOK
  <1>10. CASE task = "single"
    <2>1. pc' = "idle" /\ exit' = 0
      BY <1>5, <1>10 DEF EndCopy, Return
    <2>2. ExitOK'
      BY <1>1, <1>5, <1>8, <1>10, <2>1 DEF ExitOK, ExitZero, ExitTwo, Output
    <2> QED BY <1>1, <1>2, <2>1, <2>2, IdleFree DEF Inv
  <1>11. CASE task = "create"
    <2>1. exit' = Running /\ pc' = IF result > 0 THEN "desc" ELSE "close"
      BY <1>1, <1>11 DEF EndCopy
    <2>2. ControlOK'
      BY <1>1, <1>11, <2>1 DEF Inv, ControlOK
    <2>3. QueueOK'
      BY <1>1, <1>4, <2>1 DEF QueueOK
    <2>4. Output' = Output
      BY <1>1 DEF Output
    <2>5. PartsOK'
      BY <1>1, <1>4, <1>6, <2>1, <2>4 DEF PartsOK
    <2>6. CopyOK'
      BY <1>1, <1>5, <2>1, <2>4 DEF CopyOK
    <2>7. MergeOK'
      BY <1>1, <1>11, <2>1 DEF MergeOK
    <2>8. DoneOK'
      BY <1>1, <1>8, <1>11, <2>1 DEF DoneOK, Output
    <2> QED
      BY <1>1, <1>2, <2>1, <2>2, <2>3, <2>5, <2>6, <2>7, <2>8, RunningExit
      DEF Inv
  <1> QED BY <1>9, <1>10, <1>11

\* What the loop of writeMerge() can rely on.
LEMMA MergeFacts ==
  ASSUME Inv, pc = "merge"
  PROVE  /\ task = "merge" /\ tmp.exists /\ tmp.valid /\ Output = tmp.good
         /\ (Positions \ Parts) \union tmp.have \subseteq tmp.good
         /\ tmp.have \subseteq written /\ (missing # {} => result > 0)
         /\ toCopy \intersect written = {} /\ missing \intersect written = {}
         /\ missing \intersect toCopy = {}
         /\ \A p \in Parts : \/ p \in written \/ p \in toCopy
                             \/ p \in missing \/ result = 2
         /\ written \subseteq tmp.good /\ (result = 1 => missing # {})
         /\ \A q \in toCopy : next <= q /\ q \in Parts /\ q \in Nat
  <1>1. task = "merge" /\ tmp.exists /\ tmp.valid
    BY DEF Inv, ControlOK
  <1>2. Output = tmp.good
    BY <1>1 DEF Output
  <1>3. (Positions \ Parts) \union tmp.have \subseteq tmp.good
    BY <1>1 DEF Inv, DiskOK, HonestTmp
  <1>4. tmp.have \subseteq written /\ (missing # {} => result > 0)
    BY <1>1 DEF Inv, MergeOK
  <1>5. /\ toCopy \intersect written = {} /\ missing \intersect written = {}
        /\ missing \intersect toCopy = {}
        /\ \A p \in Parts : \/ p \in written \/ p \in toCopy
                            \/ p \in missing \/ result = 2
        /\ written \subseteq tmp.good /\ (result = 1 => missing # {})
    BY <1>2 DEF Inv, PartsOK
  <1>6. \A q \in toCopy : next <= q /\ q \in Parts /\ q \in Nat
    BY PositionsFacts DEF Inv, QueueOK, TypeOK
  <1> QED BY <1>1, <1>2, <1>3, <1>4, <1>5, <1>6

\* One turn of the loop of writeMerge() in which a file was found.
LEMMA InvMergeFile ==
  ASSUME Careful, Inv, MergeFile
  PROVE  Inv'
  <1>1. /\ TypeOK' /\ TypeOK
        /\ pc = "merge" /\ pc' = "merge" /\ next \in Parts
        /\ next \in Nat /\ next' = next + 1
        /\ exit = Running /\ exit' = Running
        /\ image' = image /\ task' = task /\ missing' = missing
    <2>1. TypeOK'
      BY RunFacts, TypeMerge
    <2> QED BY <2>1, RunFacts DEF MergeFile
  <1>2. PICK q \in toCopy : Fits(q, next) /\ FileToImage(q)
    BY DEF MergeFile
  <1>3. /\ next \in toCopy /\ toCopy' = toCopy \ {next}
        /\ tmp'.exists = tmp.exists /\ tmp'.valid = tmp.valid
        /\ tmp'.have = tmp.have
        /\ \/ /\ Output' = Output \union {next}
              /\ written' = written \union {next} /\ result' = result
           \/ /\ Output' = Output \ {next}
              /\ written' = written /\ result' = 2
    BY <1>1, <1>2, FileToImageFacts DEF Inv, Careful, Checked
  <1>4. /\ task = "merge" /\ tmp.exists /\ tmp.valid /\ Output = tmp.good
        /\ (Positions \ Parts) \union tmp.have \subseteq tmp.good
        /\ tmp.have \subseteq written /\ (missing # {} => result > 0)
        /\ toCopy \intersect written = {} /\ missing \intersect written = {}
        /\ missing \intersect toCopy = {}
        /\ \A p \in Parts : \/ p \in written \/ p \in toCopy
                            \/ p \in missing \/ result = 2
        /\ written \subseteq tmp.good /\ (result = 1 => missing # {})
    BY <1>1, MergeFacts
  <1>5. Output' = tmp'.good
    BY <1>1, <1>4 DEF Output
  <1>6. DiskOK'
    <2>1. ImageGood' /\ (tmp'.valid => tmp'.exists)
      BY <1>1, <1>3, <1>4 DEF Inv, DiskOK, ImageGood
    <2>2. (Positions \ Parts) \union tmp.have \subseteq tmp.good \ {next}
      BY <1>1, <1>3, <1>4
    <2>3. HonestTmp'
      BY <1>3, <1>4, <1>5, <2>2 DEF HonestTmp
    <2> QED BY <2>1, <2>3 DEF DiskOK
  <1>7. ControlOK'
    BY <1>1, <1>3, <1>4 DEF ControlOK
  <1>8. QueueOK'
    <2>1. \A r \in toCopy' : next <= r /\ r # next /\ r \in Nat
      BY <1>1, <1>3, MergeFacts
    <2>2. \A r \in toCopy' : next + 1 <= r
      BY <1>1, <2>1
    <2> QED BY <1>1, <2>2 DEF QueueOK
  <1>9. PartsOK'
    BY <1>1, <1>3, <1>4 DEF PartsOK
  <1>10. CopyOK' /\ MergeOK' /\ DoneOK'
    BY <1>1, <1>3, <1>4 DEF CopyOK, MergeOK, DoneOK
  <1> QED
    BY <1>1, <1>6, <1>7, <1>8, <1>9, <1>10, RunningExit DEF Inv

\* One turn in which nothing was to be done.
LEMMA InvMergeSkip ==
  ASSUME Careful, Inv, MergeSkip
  PROVE  Inv'
  <1>1. /\ TypeOK' /\ TypeOK
        /\ pc = "merge" /\ pc' = "merge" /\ next \in Positions
        /\ next \in Nat /\ next' = next + 1
        /\ exit = Running /\ exit' = Running
        /\ task' = task /\ missing' = missing /\ toCopy' = toCopy
        /\ written' = written /\ result' = result
        /\ tmp' = tmp /\ image' = image /\ stdout' = stdout
    <2>1. TypeOK'
      BY RunFacts, TypeMerge
    <2> QED BY <2>1, RunFacts DEF MergeSkip, diskVars
  <1>2. next \notin toCopy
    <2>1. next \in toCopy => next \in Parts /\ Fits(next, next)
      BY <1>1, FitsNext DEF Inv, Careful, TypeOK
    <2> QED BY <2>1 DEF MergeSkip
  <1>3. task = "merge" /\ tmp.exists /\ tmp.valid /\ Output' = Output
    BY <1>1, MergeFacts DEF Output
  <1>4. DiskOK'
    BY <1>1, DiskSame
  <1>5. ControlOK'
    BY <1>1, <1>3 DEF ControlOK
  <1>6. QueueOK'
    <2>1. \A r \in toCopy : next <= r /\ r # next /\ r \in Nat
      BY <1>1, <1>2, MergeFacts
    <2>2. \A r \in toCopy : next + 1 <= r
      BY <1>1, <2>1
    <2> QED BY <1>1, <2>2 DEF QueueOK
  <1>7. PartsOK'
    BY <1>1, <1>3 DEF Inv, PartsOK
  <1>8. CopyOK' /\ MergeOK' /\ DoneOK'
    BY <1>1, <1>3 DEF Inv, CopyOK, MergeOK, DoneOK
  <1> QED BY <1>1, <1>4, <1>5, <1>6, <1>7, <1>8, RunningExit DEF Inv

\* The loop of writeMerge() is over: if it goes on to close the file, then
\* nothing was missing and nothing went wrong.
LEMMA InvEndMerge ==
  ASSUME Careful, Inv, EndMerge
  PROVE  Inv'
  <1>1. /\ TypeOK' /\ TypeOK /\ next \in Nat
        /\ pc = "merge" /\ next \notin Positions /\ next' = 1
        /\ pc' = IF missing = {} /\ result = 0 THEN "close" ELSE "desc"
        /\ exit = Running /\ exit' = Running
        /\ task' = task /\ missing' = missing /\ toCopy' = toCopy
        /\ written' = written /\ result' = result
        /\ tmp' = tmp /\ image' = image /\ stdout' = stdout
    <2>1. TypeOK'
      BY RunFacts, TypeMerge
    <2> QED BY <2>1, RunFacts DEF EndMerge, diskVars
  <1>2. /\ task = "merge" /\ tmp.exists /\ tmp.valid /\ Output = tmp.good
        /\ (Positions \ Parts) \union tmp.have \subseteq tmp.good
        /\ tmp.have \subseteq written /\ (missing # {} => result > 0)
        /\ \A p \in Parts : \/ p \in written \/ p \in toCopy
                            \/ p \in missing \/ result = 2
        /\ written \subseteq tmp.good
    BY <1>1, MergeFacts
  <1>3. toCopy = {}
    <2>1. next = Len(Template) + 1
      BY <1>1, PositionsFacts DEF TypeOK
    <2>2. \A r \in toCopy : next <= r /\ r \in 1..Len(Template)
      BY <1>1, MergeFacts, PositionsFacts
    <2> QED BY <2>1, <2>2, PositionsFacts
  <1>4. DiskOK'
    BY <1>1, DiskSame
  <1>5. ControlOK'
    BY <1>1, <1>2 DEF ControlOK
  <1>6. QueueOK'
    BY <1>1, <1>3 DEF QueueOK
  <1>7. Output' = Output
    BY <1>1 DEF Output
  <1>8. PartsOK'
    BY <1>1, <1>7 DEF Inv, PartsOK
  <1>9. MergeOK'
    <2>1. \A p \in written : p \in Nat /\ ~(p < 1)
      BY <1>1, PositionsFacts DEF TypeOK
    <2> QED BY <1>1, <1>2, <2>1 DEF MergeOK
  <1>10. DoneOK'
    <2>1. missing = {} /\ result = 0 => Parts \subseteq written
      BY <1>2, <1>3
    <2>2. missing = {} /\ result = 0 => Positions \subseteq tmp.good
      BY <1>2, <2>1
    <2>3. result > 0 \/ result = 0
      BY <1>1 DEF TypeOK
    <2> QED BY <1>1, <1>2, <2>2, <2>3 DEF DoneOK, TypeOK
  <1>11. CopyOK'
    BY <1>1, <1>2 DEF CopyOK
  <1> QED
    BY <1>1, <1>4, <1>5, <1>6, <1>8, <1>9, <1>10, <1>11, RunningExit DEF Inv

\* What the writing of a DESC section can rely on.
LEMMA DescFacts ==
  ASSUME Inv, pc = "desc"
  PROVE  /\ TypeOK /\ result \in {1, 2} /\ toCopy = {}
         /\ task \in {"create", "merge"} /\ tmp.exists
         /\ tmp.valid <=> task = "merge"
         /\ Output = tmp.good
         /\ missing \intersect written = {} /\ written \subseteq tmp.good
         /\ result = 1 => missing # {} /\ Parts \ written = missing
  <1>1. TypeOK /\ result \in {1, 2} /\ toCopy = {}
    BY DEF Inv, TypeOK, DoneOK, QueueOK
  <1>2. /\ task \in {"create", "merge"} /\ tmp.exists
        /\ tmp.valid <=> task = "merge"
    BY DEF Inv, ControlOK
  <1>3. Output = tmp.good
    BY <1>2 DEF Output
  <1>4. missing \intersect written = {} /\ written \subseteq tmp.good
    BY <1>3 DEF Inv, PartsOK
  <1>5. result = 1 => missing # {} /\ Parts \ written = missing
    BY <1>1 DEF Inv, PartsOK, TypeOK
  <1> QED BY <1>1, <1>2, <1>3, <1>4, <1>5

\* The exit status of a run that leaves a temporary file.
LEMMA DescExit ==
  ASSUME Inv, pc = "desc", exit' = result, task' = task, missing' = missing,
         tmp'.exists, tmp'.valid, tmp'.have = written
  PROVE  ExitOK'
  <1>1. /\ result \in {1, 2} /\ task \in {"create", "merge"}
        /\ result = 1 => missing # {} /\ Parts \ written = missing
    BY DescFacts
  <1>2. ExitZero' /\ ExitTwo'
    BY <1>1 DEF ExitZero, ExitTwo
  <1>3. StillNeeded' = Parts \ written
    BY DEF StillNeeded, Needed, TaskFor
  <1> QED BY <1>1, <1>2, <1>3 DEF ExitOK

\* writeAll() appends a DESC section that tells the truth.
LEMMA InvAppendDesc ==
  ASSUME Careful, Inv, AppendDesc
  PROVE  Inv'
  <1>1. /\ TypeOK' /\ TypeOK /\ pc = "desc" /\ pc' = "idle" /\ exit' = result
        /\ task = "create" /\ task' = task /\ missing' = missing
        /\ tmp'.valid /\ tmp'.have = written
        /\ tmp'.exists = tmp.exists /\ tmp'.good = tmp.good
        /\ image' = image
    <2>1. TypeOK'
      BY TypeEnd DEF Inv
    <2>2. TypeOK
      BY RunFacts
    <2> QED BY <2>1, <2>2 DEF AppendDesc, Return, TypeOK
  <1>2. tmp.exists /\ Output = tmp.good /\ written \subseteq tmp.good
    BY <1>1, DescFacts
  <1>3. DiskOK'
    <2>1. Positions \subseteq Output \union Parts
      BY <1>1 DEF Inv, CopyOK
    <2>2. HonestTmp'
      BY <1>1, <1>2, <2>1 DEF HonestTmp
    <2>3. ImageGood'
      BY <1>1 DEF Inv, DiskOK, ImageGood
    <2> QED BY <1>1, <1>2, <2>2, <2>3 DEF DiskOK
  <1>4. ExitOK'
    BY <1>1, <1>2, DescExit
  <1> QED BY <1>1, <1>3, <1>4, IdleFree DEF Inv

\* writeMerge() brings one entry of the DESC section up to date.
LEMMA InvUpdateDesc ==
  ASSUME Careful, Inv, UpdateDesc
  PROVE  Inv'
  <1>1. /\ TypeOK' /\ TypeOK /\ pc = "desc" /\ pc' = "desc"
        /\ exit = Running /\ exit' = Running
        /\ task = "merge" /\ task' = task /\ missing' = missing
        /\ toCopy' = toCopy /\ written' = written /\ result' = result
        /\ next \in Positions /\ next \in Nat /\ next' = next + 1
        /\ tmp'.valid = tmp.valid /\ tmp'.exists = tmp.exists
        /\ tmp'.good = tmp.good /\ image' = image
        /\ tmp'.have = IF next \in written THEN tmp.have \union {next}
                       ELSE tmp.have \ {next}
    <2>1. TypeOK'
      BY TypeEnd DEF Inv
    <2>2. TypeOK /\ exit = Running /\ next \in Nat
      <3>1. pc # "idle"
        BY DEF UpdateDesc
      <3> QED BY <3>1, RunFacts
    <2> QED BY <2>1, <2>2 DEF UpdateDesc, TypeOK
  <1>2. tmp.exists /\ tmp.valid /\ Output = tmp.good /\ written \subseteq tmp.good
    BY <1>1, DescFacts
  <1>3. DiskOK'
    <2>1. (Positions \ Parts) \union tmp.have \subseteq tmp.good
      BY <1>2 DEF Inv, DiskOK, HonestTmp
    <2>2. HonestTmp'
      BY <1>1, <1>2, <2>1 DEF HonestTmp
    <2>3. ImageGood'
      BY <1>1 DEF Inv, DiskOK, ImageGood
    <2> QED BY <1>1, <1>2, <2>2, <2>3 DEF DiskOK
  <1>4. ControlOK'
    BY <1>1, <1>2 DEF ControlOK
  <1>5. Output' = Output
    BY <1>1 DEF Output
  <1>6. QueueOK' /\ DoneOK' /\ CopyOK'
    BY <1>1 DEF Inv, QueueOK, DoneOK, CopyOK
  <1>7. PartsOK'
    BY <1>1, <1>5 DEF Inv, PartsOK
  <1>8. MergeOK'
    <2>1. /\ tmp.have \subseteq written /\ (missing # {} => result > 0)
          /\ \A p \in written : p < next => p \in tmp.have
      BY <1>1 DEF Inv, MergeOK
    <2>2. \A p \in written : p \in Nat
      BY <1>1, PositionsFacts DEF TypeOK
    <2>3. \A p \in written : p < next + 1 => p < next \/ p = next
      BY <1>1, <2>2
    <2>4. \A p \in written : p < next + 1 => p \in tmp'.have
      BY <1>1, <2>1, <2>3
    <2> QED BY <1>1, <2>1, <2>4 DEF MergeOK
  <1> QED BY <1>1, <1>3, <1>4, <1>6, <1>7, <1>8, RunningExit DEF Inv

\* The DESC section is complete again.
LEMMA InvEndUpdate ==
  ASSUME Careful, Inv, EndUpdate
  PROVE  Inv'
  <1>1. /\ TypeOK' /\ TypeOK /\ pc = "desc" /\ pc' = "idle" /\ exit' = result
        /\ task = "merge" /\ task' = task /\ missing' = missing
        /\ next \notin Positions /\ tmp' = tmp /\ image' = image
    <2>1. TypeOK'
      BY TypeEnd DEF Inv
    <2>2. TypeOK
      BY RunFacts
    <2> QED BY <2>1, <2>2 DEF EndUpdate, Return, diskVars
  <1>2. tmp.exists /\ tmp.valid
    BY <1>1, DescFacts
  <1>3. tmp.have = written
    <2>1. /\ tmp.have \subseteq written
          /\ \A p \in written : p < next => p \in tmp.have
      BY <1>1 DEF Inv, MergeOK
    <2>2. next = Len(Template) + 1
      BY <1>1, PositionsFacts DEF TypeOK
    <2>3. \A p \in written : p \in 1..Len(Template)
      BY <1>1, PositionsFacts DEF TypeOK
    <2>4. \A p \in written : p < next
      BY <2>2, <2>3, PositionsFacts
    <2> QED BY <2>1, <2>4
  <1>4. ExitOK'
    BY <1>1, <1>2, <1>3, DescExit
  <1>5. DiskOK'
    BY <1>1, DiskSame
  <1> QED BY <1>1, <1>4, <1>5, IdleFree DEF Inv

\* The file is closed, truncated and renamed: it is complete by then.
LEMMA InvFinish ==
  ASSUME Careful, Inv, CloseFile \/ Truncate \/ Rename
  PROVE  Inv'
  <1>1. /\ TypeOK' /\ TypeOK /\ pc # "idle" /\ exit = Running
        /\ task \in {"create", "merge"} /\ tmp.exists
        /\ tmp.valid <=> (task = "merge" /\ pc # "rename")
        /\ tmp.good = Positions /\ DiskOK
        /\ pc = "truncate" => task = "merge"
    <2>1. TypeOK'
      BY TypeEnd DEF Inv
    <2>2. pc \in {"close", "truncate", "rename"}
      BY DEF CloseFile, Truncate, Rename
    <2>3. TypeOK /\ exit = Running
      BY <2>2, RunFacts
    <2>4. task \in {"create", "merge"}
      BY <2>2 DEF Inv, ControlOK
    <2>5. /\ tmp.exists
          /\ tmp.valid <=> (task = "merge" /\ pc # "rename")
          /\ pc = "truncate" => task = "merge"
      BY <2>2, <2>4 DEF Inv, ControlOK
    <2>6. tmp.good = Positions
      BY <2>2 DEF Inv, DoneOK
    <2>7. DiskOK
      BY DEF Inv
    <2> QED BY <2>1, <2>2, <2>3, <2>4, <2>5, <2>6, <2>7
  <1>2. CASE CloseFile
    <2>1. /\ pc' = IF task = "merge" THEN "truncate" ELSE "rename"
          /\ exit' = Running /\ tmp' = tmp /\ image' = image /\ task' = task
          /\ pc = "close"
      BY <1>1, <1>2 DEF CloseFile, diskVars
    <2>2. DiskOK'
      BY <2>1, DiskSame
    <2>3. ControlOK'
      BY <1>1, <2>1 DEF ControlOK
    <2>4. QueueOK' /\ PartsOK' /\ CopyOK' /\ MergeOK' /\ DoneOK'
      BY <1>1, <2>1 DEF QueueOK, PartsOK, CopyOK, MergeOK, DoneOK
    <2> QED BY <1>1, <2>1, <2>2, <2>3, <2>4, RunningExit DEF Inv
  <1>3. CASE Truncate
    <2>1. /\ pc' = "rename" /\ exit' = Running /\ image' = image
          /\ tmp'.good = tmp.good /\ tmp'.exists /\ ~tmp'.valid
          /\ task' = task
      BY <1>1, <1>3 DEF Truncate, TypeOK
    <2>2. DiskOK'
      BY <1>1, <2>1 DEF DiskOK, ImageGood, HonestTmp
    <2>3. ControlOK'
      BY <1>1, <2>1 DEF ControlOK
    <2>4. QueueOK' /\ PartsOK' /\ CopyOK' /\ MergeOK' /\ DoneOK'
      BY <1>1, <2>1 DEF QueueOK, PartsOK, CopyOK, MergeOK, DoneOK
    <2> QED BY <1>1, <2>1, <2>2, <2>3, <2>4, RunningExit DEF Inv
  <1>4. CASE Rename
    <2>1. /\ pc' = "idle" /\ exit' = 0 /\ task' = task
          /\ image'.exists /\ image'.good = Positions
          /\ ~tmp'.exists /\ ~tmp'.valid
      BY <1>1, <1>4 DEF Rename, Return, NoTmp
    <2>2. DiskOK'
      BY <2>1 DEF DiskOK, ImageGood, HonestTmp
    <2>3. ExitOK'
      BY <1>1, <2>1 DEF ExitOK, ExitZero, ExitTwo
    <2> QED BY <1>1, <2>1, <2>2, <2>3, IdleFree DEF Inv
  <1> QED BY <1>2, <1>3, <1>4

\* An area that is replaced while the run dies was not called written.
LEMMA TornArea ==
  ASSUME Careful, Inv, pc = "merge", next \in Parts, task' = task,
         image' = image, WriteArea(next, FALSE),
         \E q \in toCopy : Fits(q, next)
  PROVE  DiskOK'
  <1>1. next \in toCopy
    BY FitsNext DEF Inv, Careful
  <1>2. /\ task = "merge" /\ tmp.exists /\ tmp.valid /\ Output = tmp.good
        /\ (Positions \ Parts) \union tmp.have \subseteq tmp.good
        /\ tmp.have \subseteq written /\ toCopy \intersect written = {}
    BY MergeFacts
  <1>3. TypeOK
    BY RunFacts
  <1>4. /\ Output' = Output \ {next}
        /\ tmp'.exists = tmp.exists /\ tmp'.have = tmp.have
    BY <1>3, WriteAreaFacts
  <1>5. Output' = tmp'.good
    BY <1>2 DEF Output
  <1>6. HonestTmp'
    <2>1. (Positions \ Parts) \union tmp.have \subseteq tmp.good \ {next}
      BY <1>1, <1>2
    <2> QED BY <1>2, <1>4, <1>5, <2>1 DEF HonestTmp
  <1>7. ImageGood'
    BY DEF Inv, DiskOK, ImageGood
  <1> QED BY <1>2, <1>4, <1>6, <1>7 DEF DiskOK

\* I/O errors and crashes, at any point of a run.
LEMMA InvFault ==
  ASSUME Careful, Inv,
         IoError \/ MergeErrorUnseen \/ CloseLoses \/ DescLost \/ Crash
  PROVE  Inv'
  <1>1. TypeOK'
    BY RunFacts, TypeFault
  <1>2. IoError \/ Crash
    BY DEF Careful, MergeErrorUnseen, CloseLoses, DescLost
  <1>3. /\ pc' = "idle" /\ exit' \in {3, Killed}
        /\ task' = task /\ image' = image
        /\ \/ tmp' = tmp
           \/ /\ pc = "merge" /\ next \in Parts /\ WriteArea(next, FALSE)
              /\ \E q \in toCopy : Fits(q, next)
    <2>1. CASE IoError
      BY <2>1 DEF IoError, Return
    <2>2. CASE Crash
      BY <2>2 DEF Crash, Return
    <2> QED BY <1>2, <2>1, <2>2
  <1>4. DiskOK'
    BY <1>3, DiskSame, TornArea
  <1>5. ExitOK'
    <2>1. exit' # 0 /\ exit' # 1 /\ exit' # 2
      BY <1>3 DEF Killed
    <2> QED BY <2>1 DEF ExitOK, ExitZero, ExitTwo
  <1> QED BY <1>1, <1>3, <1>4, <1>5, IdleFree DEF Inv

\* A run that stops before it has written anything but an empty file.
LEMMA StopEarly ==
  ASSUME Inv, pc' = "idle", TypeOK', image' = image,
         tmp' = tmp \/ (~tmp'.valid /\ ~tmp'.exists) \/ tmp' = EmptyTmp,
         \/ exit' = 3
         \/ /\ exit' = 1 /\ missing' # {}
            /\ missing' = StillNeeded'
  PROVE  Inv'
  <1>1. DiskOK
    BY DEF Inv
  <1>2. EmptyTmp.exists /\ ~EmptyTmp.valid
    BY DEF EmptyTmp, NoTmp
  <1>3. DiskOK'
    <2>1. CASE tmp' = tmp
      BY <2>1, DiskSame
    <2>2. CASE tmp' # tmp
      <3>1. ~tmp'.valid
        BY <1>2, <2>2
      <3> QED BY <1>1, <3>1 DEF DiskOK, ImageGood, HonestTmp
    <2> QED BY <2>1, <2>2
  <1>4. ExitOK'
    BY DEF ExitOK, ExitZero, ExitTwo
  <1> QED BY <1>3, <1>4, IdleFree DEF Inv

\* What makeImage() does before it writes.
LEMMA StartFacts ==
  ASSUME Inv, NEW F \in SUBSET Files, NEW force \in BOOLEAN,
         NEW toStdout \in BOOLEAN, Start(F, force, toStdout)
  PROVE  /\ TypeOK /\ TypeOK' /\ image' = image
         /\ task' = TaskFor(toStdout)
         /\ toCopy' \union missing' = Needed(task')
         /\ toCopy' \intersect missing' = {}
         /\ written' = Parts \ Needed(task')
         /\ next' = 1
  <1>1. TypeOK /\ TypeOK'
    BY RunFacts, TypeStart
  <1>2. image' = image
    BY DEF Start, diskVars
  <1>3. task' = TaskFor(toStdout) /\ written' = Parts \ Needed(task') /\ next' = 1
    BY DEF Start
  <1>4. toCopy' \subseteq Needed(task') /\ missing' = Needed(task') \ toCopy'
    BY DEF Start
  <1> QED BY <1>1, <1>2, <1>3, <1>4

\* The three tasks, and what they find on the disk.
LEMMA TaskFacts ==
  ASSUME TypeOK, NEW toStdout \in BOOLEAN
  PROVE  /\ TaskFor(toStdout) = "single" <=> toStdout
         /\ TaskFor(toStdout) = "merge" => tmp.exists /\ tmp.valid
         /\ TaskFor(toStdout) \in {"create", "merge", "single"}
  BY DEF TaskFor, TypeOK

\* The start of a run that gives up at once.
LEMMA InvGiveUp ==
  ASSUME Careful, Inv, NEW F \in SUBSET Files, NEW force \in BOOLEAN,
         NEW toStdout \in BOOLEAN, Start(F, force, toStdout),
         GiveUpStatus(task', toCopy', missing') # 0
  PROVE  Inv'
  <1>1. /\ TypeOK /\ TypeOK' /\ image' = image
        /\ task' = TaskFor(toStdout)
        /\ toCopy' \union missing' = Needed(task')
    BY StartFacts
  <1>2. /\ pc' = "idle" /\ tmp' = tmp
        /\ exit' = GiveUpStatus(task', toCopy', missing')
    BY DEF Start, Return, diskVars
  <1>3. \/ exit' = 3
        \/ exit' = 1 /\ task' # "single" /\ toCopy' = {} /\ missing' # {}
    BY <1>2 DEF GiveUpStatus
  <1>4. CASE exit' = 3
    BY <1>1, <1>2, <1>4, StopEarly
  <1>5. CASE exit' = 1 /\ task' # "single" /\ toCopy' = {} /\ missing' # {}
    <2>1. task' = TaskFor(FALSE)
      BY <1>1, <1>5, TaskFacts
    <2>2. StillNeeded' = StillNeeded
      BY <1>2 DEF StillNeeded, Needed, TaskFor
    <2>3. Needed(task') = StillNeeded
      BY <2>1 DEF StillNeeded, Needed
    <2>4. missing' = StillNeeded'
      BY <1>1, <1>5, <2>2, <2>3
    <2> QED BY <1>1, <1>2, <1>5, <2>4, StopEarly
  <1> QED BY <1>3, <1>4, <1>5

\* The start of a run that goes on to write.
LEMMA InvBegin ==
  ASSUME Careful, Inv, NEW F \in SUBSET Files, NEW force \in BOOLEAN,
         NEW toStdout \in BOOLEAN, Start(F, force, toStdout),
         GiveUpStatus(task', toCopy', missing') = 0
  PROVE  Inv'
  <1>1. /\ TypeOK /\ TypeOK' /\ image' = image
        /\ task' = TaskFor(toStdout)
        /\ toCopy' \union missing' = Needed(task')
        /\ toCopy' \intersect missing' = {}
        /\ written' = Parts \ Needed(task')
        /\ next' = 1
    BY StartFacts
  <1>2. /\ tmp' = IF task' = "create" THEN EmptyTmp ELSE tmp
        /\ stdout' = IF toStdout THEN {} ELSE stdout
        /\ result' = IF task' = "merge" /\ missing' # {} THEN 1 ELSE 0
        /\ \/ pc' = "idle" /\ exit' = 3
           \/ /\ pc' = IF task' = "merge" THEN "merge" ELSE "copy"
              /\ exit' = Running
    BY DEF Start, Return
  <1>3. CASE pc' = "idle" /\ exit' = 3
    BY <1>1, <1>2, <1>3, StopEarly
  <1>4. CASE /\ pc' = IF task' = "merge" THEN "merge" ELSE "copy"
             /\ exit' = Running
    <2>1. /\ EmptyTmp.exists /\ ~EmptyTmp.valid /\ EmptyTmp.good = {}
      BY DEF EmptyTmp, NoTmp
    <2>2. /\ task' = "single" <=> toStdout
          /\ task' = "merge" => tmp.exists /\ tmp.valid
          /\ task' \in {"create", "merge", "single"}
      BY <1>1, TaskFacts
    <2>3. task' = "merge" => Needed(task') = Parts \ tmp.have
      BY DEF Needed
    <2>4. task' # "merge" => Needed(task') = Parts
      BY DEF Needed
    <2>5. DiskOK'
      <3>1. DiskOK
        BY DEF Inv
      <3>2. CASE tmp' = tmp
        BY <1>1, <3>2, DiskSame
      <3>3. CASE tmp' = EmptyTmp
        BY <1>1, <2>1, <3>1, <3>3 DEF DiskOK, ImageGood, HonestTmp
      <3> QED BY <1>2, <3>2, <3>3
    <2>6. ControlOK'
      BY <1>2, <1>4, <2>1, <2>2 DEF ControlOK
    <2>7. QueueOK'
      <3>1. \A r \in toCopy' : r \in Nat /\ 1 <= r
        BY <1>1, PositionsFacts DEF TypeOK
      <3> QED BY <1>1, <1>4, <3>1 DEF QueueOK
    <2>8. task' = "merge" => /\ written' = tmp.have /\ tmp' = tmp
                             /\ tmp.have \subseteq tmp.good
      <3>1. tmp.valid => tmp.have \subseteq tmp.good
        BY DEF Inv, DiskOK, HonestTmp
      <3>2. tmp.have \subseteq Parts
        BY <1>1 DEF TypeOK
      <3> QED BY <1>1, <1>2, <2>2, <2>3, <3>1, <3>2
    <2>9. task' # "merge" => written' = {} /\ Output' = {}
      BY <1>1, <1>2, <2>1, <2>2, <2>4 DEF Output
    <2>10. written' \subseteq Output'
      BY <2>8, <2>9 DEF Output
    <2>11. PartsOK'
      <3>1. written' \intersect Needed(task') = {}
        BY <1>1
      <3>2. \A p \in Parts : p \in written' \/ p \in toCopy' \/ p \in missing'
        BY <1>1
      <3>3. result' = 1 => missing' # {}
        BY <1>2
      <3> QED BY <1>1, <2>10, <3>1, <3>2, <3>3 DEF PartsOK
    <2>12. CopyOK'
      <3>1. CASE task' = "merge"
        BY <1>4, <3>1 DEF CopyOK
      <3>2. CASE task' # "merge"
        <4>1. pc' = "copy"
          BY <1>4, <3>2
        <4>2. 1..(next' - 1) = {}
          BY <1>1
        <4>3. \A p \in missing' : ~(p < next')
          BY <1>1, PositionsFacts DEF TypeOK
        <4>4. task' = "single" => missing' = {} /\ result' = 0
          BY <1>2, <2>2 DEF GiveUpStatus
        <4> QED BY <2>9, <3>2, <4>1, <4>2, <4>3, <4>4 DEF CopyOK
      <3> QED BY <3>1, <3>2
    <2>13. MergeOK' /\ DoneOK'
      <3>1. task' = "merge" => tmp'.have \subseteq written'
        BY <2>8
      <3>2. pc' \in {"copy", "merge"}
        BY <1>4
      <3> QED BY <1>2, <1>4, <3>1, <3>2 DEF MergeOK, DoneOK
    <2> QED
      BY <1>1, <1>4, <2>5, <2>6, <2>7, <2>11, <2>12, <2>13, RunningExit DEF Inv
  <1> QED BY <1>2, <1>3, <1>4

\* A refusal leaves everything as it was.
LEMMA InvRefuse ==
  ASSUME Inv, NEW force \in BOOLEAN, NEW toStdout \in BOOLEAN,
         Refuse(force, toStdout)
  PROVE  Inv'
  <1>1. TypeOK'
    BY RunFacts, TypeStart
  <1>2. pc' = "idle" /\ exit' = 3 /\ tmp' = tmp /\ image' = image
    BY DEF Refuse, Return, diskVars
  <1> QED BY <1>1, <1>2, StopEarly

\* What does not touch the program and the disk.
LEMMA InvElsewhere ==
  ASSUME Inv, TypeOK', UNCHANGED <<diskVars, runVars>>
  PROVE  Inv'
  <1>1. /\ tmp' = tmp /\ image' = image /\ stdout' = stdout
        /\ pc' = pc /\ task' = task /\ toCopy' = toCopy
        /\ missing' = missing /\ written' = written /\ next' = next
        /\ result' = result /\ exit' = exit
    BY DEF diskVars, runVars
  <1>2. Output' = Output /\ StillNeeded' = StillNeeded
    BY <1>1 DEF Output, StillNeeded, Needed, TaskFor
  <1>3. DiskOK'
    BY <1>1, DiskSame
  <1>4. ControlOK' /\ QueueOK' /\ DoneOK' /\ MergeOK'
    BY <1>1 DEF Inv, ControlOK, QueueOK, DoneOK, MergeOK
  <1>5. PartsOK' /\ CopyOK'
    BY <1>1, <1>2 DEF Inv, PartsOK, CopyOK
  <1>6. ExitOK'
    BY <1>1, <1>2 DEF Inv, ExitOK, ExitZero, ExitTwo
  <1> QED BY <1>3, <1>4, <1>5, <1>6 DEF Inv

\* At first there is neither image nor temporary file.
LEMMA InvInit ==
  ASSUME Init
  PROVE  Inv
  <1>1. TypeOK
    BY TypeInit
  <1>2. ~tmp.exists /\ ~tmp.valid /\ ~image.exists /\ pc = "idle" /\ exit = 4
    BY DEF Init, NoTmp, Running
  <1>3. DiskOK /\ ExitOK
    BY <1>2 DEF DiskOK, ImageGood, HonestTmp, ExitOK, ExitZero, ExitTwo
  <1>4. ControlOK /\ QueueOK /\ PartsOK /\ CopyOK /\ MergeOK /\ DoneOK
    BY <1>2 DEF ControlOK, QueueOK, PartsOK, CopyOK, MergeOK, DoneOK
  <1> QED BY <1>1, <1>3, <1>4 DEF Inv

\* Every step of a careful run keeps the invariant.
LEMMA InvNext ==
  ASSUME Careful, Inv, [Next]_vars
  PROVE  Inv'
  <1>1. TypeOK
    BY RunFacts
  <1>2. ASSUME NEW force \in BOOLEAN, NEW toStdout \in BOOLEAN,
               \/ Refuse(force, toStdout)
               \/ \E F \in SUBSET Files : Start(F, force, toStdout)
        PROVE  Inv'
    <2>1. CASE Refuse(force, toStdout)
      BY <2>1, InvRefuse
    <2>2. ASSUME NEW F \in SUBSET Files, Start(F, force, toStdout)
          PROVE  Inv'
      BY <2>2, InvBegin, InvGiveUp
    <2> QED BY <1>2, <2>1, <2>2
  <1>3. CASE Step
    BY <1>3, InvCopyData, InvWriteZeroes, InvCopyFile, InvEndCopy,
       InvMergeFile, InvMergeSkip, InvEndMerge, InvAppendDesc, InvUpdateDesc,
       InvEndUpdate, InvFinish DEF Step
  <1>4. CASE IoError \/ MergeErrorUnseen \/ CloseLoses \/ DescLost \/ Crash
    BY <1>4, InvFault
  <1>5. ASSUME NEW f \in Files, Break(f) \/ Repair(f) PROVE Inv'
    <2>1. TypeOK'
      <3>1. health' \in [Files -> {"ok", "changed", "unreadable"}]
        BY <1>1, <1>5 DEF Break, Repair, TypeOK
      <3>2. faults' \in 0..MaxFaults
        BY <1>1, <1>5, ImageAssumption DEF Break, Repair, Fault, TypeOK
      <3>3. UNCHANGED <<diskVars, runVars>>
        BY <1>5 DEF Break, Repair
      <3> QED BY <1>1, <3>1, <3>2, <3>3 DEF TypeOK, diskVars, runVars
    <2>2. UNCHANGED <<diskVars, runVars>>
      BY <1>5 DEF Break, Repair
    <2> QED BY <2>1, <2>2, InvElsewhere
  <1>6. CASE UNCHANGED vars
    <2>1. TypeOK' /\ UNCHANGED <<diskVars, runVars>>
      BY <1>1, <1>6 DEF vars, diskVars, runVars, envVars, TypeOK
    <2> QED BY <2>1, InvElsewhere
  <1> QED BY <1>2, <1>3, <1>4, <1>5, <1>6 DEF Next

-----------------------------------------------------------------------------
(* What a careful run guarantees *)

\* The strengthening of all the invariants below is an invariant.
LEMMA CarefulInv ==
  ASSUME Careful
  PROVE  Spec => []Inv
  <1>1. Init => Inv
    BY InvInit
  <1>2. Inv /\ [Next]_vars => Inv'
    BY InvNext
  <1> QED BY <1>1, <1>2, PTL DEF Spec

\* No file with the name of the image is anything but the image: with
\* --check-files, no file needed twice and no write error that stays hidden,
\* whatever the template, the sequence of runs and the number of crashes, I/O
\* errors and files that go bad (last lines of writeMerge() and makeImage()).
THEOREM ImageIsRight ==
  ASSUME Careful
  PROVE  Spec => []ImageGood
  <1>1. Inv => ImageGood
    BY DEF Inv, DiskOK
  <1> QED BY <1>1, CarefulInv, PTL

\* Exit status 0 of make-image means that the whole image was delivered.
THEOREM ZeroIsSuccess ==
  ASSUME Careful
  PROVE  Spec => []ExitZero
  <1>1. Inv => ExitZero
    BY DEF Inv, ExitOK
  <1> QED BY <1>1, CarefulInv, PTL

\* Exit status 1: the files to be supplied are those print-missing shows.
THEOREM OneIsMissing ==
  ASSUME Careful
  PROVE  Spec => []ExitOne
  <1>1. Inv => ExitOne
    <2> SUFFICES ASSUME Inv, exit = 1
                 PROVE  missing # {} /\ ListMissing = {Template[i] : i \in missing}
      BY DEF ExitOne
    <2>1. missing # {} /\ missing = StillNeeded
      BY DEF Inv, ExitOK
    <2> QED BY <2>1 DEF ListMissing, StillNeeded
  <1> QED BY <1>1, CarefulInv, PTL

\* Exit status 2 leaves a temporary file that a later run can build upon.
THEOREM TwoIsRecoverable ==
  ASSUME Careful
  PROVE  Spec => []ExitTwo
  <1>1. Inv => ExitTwo
    BY DEF Inv, ExitOK
  <1> QED BY <1>1, CarefulInv, PTL

\* As long as nothing has gone wrong, a temporary file that no run is writing
\* has a DESC section, and status 3 has one of the two legitimate reasons.
Settled ==
  faults = 0 =>
    /\ pc = "idle" \/ task = "single" => (tmp.exists => tmp.valid)
    /\ ExitThree

\* No step of the program but a fault disturbs this.
LEMMA SettledStep ==
  ASSUME Careful, BlockLength > 0, Inv, Settled, Step
  PROVE  Settled'
  <1>1. faults' = faults /\ TypeOK /\ exit = Running
    <2>1. pc # "idle"
      BY DEF Step, CopyData, WriteZeroes, CopyFile, EndCopy, MergeFile,
             MergeSkip, EndMerge, AppendDesc, UpdateDesc, EndUpdate,
             CloseFile, Truncate, Rename
    <2>2. faults' = faults
      BY DEF Step, CopyData, WriteZeroes, CopyFile, EndCopy, MergeFile,
             MergeSkip, EndMerge, AppendDesc, UpdateDesc, EndUpdate,
             CloseFile, Truncate, Rename, envVars
    <2> QED BY <2>1, <2>2, RunFacts
  <1>2. exit' # 3
    <2>1. pc \notin {"desc", "copy"} => exit' \in {0, exit}
      BY DEF Step, CopyData, WriteZeroes, CopyFile, EndCopy, MergeFile,
             MergeSkip, EndMerge, AppendDesc, UpdateDesc, EndUpdate,
             CloseFile, Truncate, Rename, Return
    <2>2. pc \in {"desc", "copy"} => exit' \in {exit, result, result'}
      BY DEF Step, CopyData, WriteZeroes, CopyFile, EndCopy, MergeFile,
             MergeSkip, EndMerge, AppendDesc, UpdateDesc, EndUpdate,
             CloseFile, Truncate, Rename, Return
    <2>3. result \in 0..2 /\ result' \in 0..2
      BY <1>1, TypeCopy, TypeMerge, TypeEnd DEF Step, TypeOK
    <2> QED BY <1>1, <2>1, <2>2, <2>3 DEF Running
  <1>3. ExitThree'
    BY <1>2 DEF ExitThree
  <1>4. ASSUME faults = 0, pc' = "idle" \/ task' = "single"
        PROVE  tmp'.exists => tmp'.valid
    <2>1. task' = task
      BY DEF Step, CopyData, WriteZeroes, CopyFile, EndCopy, MergeFile,
             MergeSkip, EndMerge, AppendDesc, UpdateDesc, EndUpdate,
             CloseFile, Truncate, Rename
    <2>2. CASE task = "single"
      <3>1. tmp.exists => tmp.valid
        BY <1>4, <2>2 DEF Settled
      <3>2. pc = "copy"
        BY <2>2 DEF Inv, ControlOK, Step, CopyData, WriteZeroes, CopyFile,
                    EndCopy, MergeFile, MergeSkip, EndMerge, AppendDesc,
                    UpdateDesc, EndUpdate, CloseFile, Truncate, Rename
      <3>3. tmp' = tmp
        BY <2>2, <3>2 DEF Step, CopyData, WriteZeroes, CopyFile, EndCopy,
             MergeFile, MergeSkip, EndMerge, AppendDesc, UpdateDesc, EndUpdate,
             CloseFile, Truncate, Rename, WriteArea, FileToImage, diskVars
      <3> QED BY <3>1, <3>3
    <2>3. CASE task # "single"
      <3>1. AppendDesc \/ EndUpdate \/ Rename
        BY <1>1, <1>4, <2>1, <2>3 DEF Step, CopyData, WriteZeroes, CopyFile,
           EndCopy, MergeFile, MergeSkip, EndMerge, UpdateDesc, CloseFile,
           Truncate
      <3>2. CASE AppendDesc
        BY <1>1, <3>2 DEF AppendDesc, TypeOK
      <3>3. CASE EndUpdate
        <4>1. pc = "desc" /\ task = "merge" /\ tmp' = tmp
          BY <3>3 DEF EndUpdate, diskVars
        <4> QED BY <4>1, DescFacts
      <3>4. CASE Rename
        BY <3>4 DEF Rename, NoTmp
      <3> QED BY <3>1, <3>2, <3>3, <3>4
    <2> QED BY <2>2, <2>3
  <1> QED BY <1>1, <1>3, <1>4 DEF Settled

\* The start of a run: the only reasons to stop with status 3.
LEMMA SettledStart ==
  ASSUME Careful, BlockLength > 0, Inv, Settled,
         NEW F \in SUBSET Files, NEW force \in BOOLEAN,
         NEW toStdout \in BOOLEAN,
         Start(F, force, toStdout) \/ Refuse(force, toStdout)
  PROVE  Settled'
  <1>1. CASE Refuse(force, toStdout)
    <2>1. /\ faults' = faults /\ pc = "idle" /\ tmp' = tmp /\ image' = image
          /\ task' = "create"
          /\ image.exists \/ (tmp.exists /\ ~tmp.valid)
      BY <1>1 DEF Refuse, Refused, diskVars, envVars
    <2>2. faults = 0 => image.exists /\ (tmp.exists => tmp.valid)
      BY <2>1 DEF Settled
    <2> QED BY <2>1, <2>2 DEF Settled, ExitThree
  <1>2. CASE Start(F, force, toStdout)
    <2>1. faults' = faults /\ pc = "idle" /\ task' = TaskFor(toStdout)
      BY <1>2 DEF Start, envVars
    <2>2. GiveUpStatus(task', toCopy', missing') = 3
            => task' = "single" /\ missing' # {}
      BY DEF GiveUpStatus
    <2>3. exit' = 3 => task' = "single" /\ missing' # {}
      <3>1. exit' = GiveUpStatus(task', toCopy', missing') \/ exit' = Running
        BY <1>2, ImageAssumption DEF Start, Return
      <3> QED BY <2>2, <3>1 DEF Running
    <2>4. ExitThree'
      BY <2>3 DEF ExitThree
    <2>5. pc' = "idle" \/ task' = "single" => tmp' = tmp
      BY <1>2, ImageAssumption DEF Start, diskVars
    <2> QED BY <2>1, <2>4, <2>5 DEF Settled
  <1> QED BY <1>1, <1>2

\* Exit status 3 without an error means that --force is needed, or more files
\* at once: no run leaves behind what a later one cannot use.
THEOREM ThreeIsTrouble ==
  ASSUME Careful, BlockLength > 0
  PROVE  Spec => []ExitThree
  <1>1. Init => Settled
    BY DEF Init, Settled, ExitThree, NoTmp, Running
  <1>2. Inv /\ Settled /\ [Next]_vars => Settled'
    <2> SUFFICES ASSUME Inv, Settled, [Next]_vars PROVE Settled'
      OBVIOUS
    <2>1. ASSUME NEW force \in BOOLEAN, NEW toStdout \in BOOLEAN,
                 \/ Refuse(force, toStdout)
                 \/ \E F \in SUBSET Files : Start(F, force, toStdout)
          PROVE  Settled'
      BY <2>1, SettledStart
    <2>2. CASE Step
      BY <2>2, SettledStep
    <2>3. ASSUME faults' = faults + 1 PROVE Settled'
      <3>1. faults \in Nat
        BY RunFacts, ImageAssumption DEF TypeOK
      <3> QED BY <2>3, <3>1 DEF Settled
    <2>4. CASE IoError \/ MergeErrorUnseen \/ CloseLoses \/ DescLost \/ Crash
      <3>1. faults' = faults + 1
        BY <2>4 DEF IoError, MergeErrorUnseen, CloseLoses, DescLost, Crash,
                    Fault
      <3> QED BY <2>3, <3>1
    <2>5. CASE \E f \in Files : Break(f)
      <3>1. faults' = faults + 1
        BY <2>5 DEF Break, Fault
      <3> QED BY <2>3, <3>1
    <2>6. CASE UNCHANGED vars \/ \E f \in Files : Repair(f)
      BY <2>6 DEF Repair, vars, diskVars, runVars, envVars, Settled, ExitThree
    <2> QED BY <2>1, <2>2, <2>4, <2>5, <2>6 DEF Next
  <1>3. TypeOK /\ Settled => ExitThree
    BY ImageAssumption DEF Settled, ExitThree
  <1>4. Inv => TypeOK
    BY DEF Inv
  <1> QED BY <1>1, <1>2, <1>3, <1>4, CarefulInv, PTL DEF Spec

-----------------------------------------------------------------------------
(* makeImage() implements ImageAssembly *)

\* The disk as the abstract specification sees it does not change.
LEMMA SavedSame ==
  ASSUME tmp' = tmp \/ (tmp.valid /\ tmp'.valid /\ tmp'.have = tmp.have)
  PROVE  Saved' = Saved
  BY DEF Saved

\* Three ways to be allowed by the abstract specification.
LEMMA AssemblyStep ==
  ASSUME Saved' \subseteq Parts,
         \/ Saved' = Saved /\ image'.exists = image.exists
         \/ Saved \subseteq Saved' /\ image'.exists = image.exists
         \/ /\ Saved = Parts /\ Saved' = {}
            /\ image'.exists = TRUE \/ image'.exists = image.exists
  PROVE  [Assembly!Next]_(Assembly!vars)
  <1>1. CASE Saved' = Saved /\ image'.exists = image.exists
    BY <1>1 DEF Assembly!vars
  <1>2. CASE /\ Saved \subseteq Saved' /\ Saved' # Saved
             /\ image'.exists = image.exists
    <2>1. Assembly!Save
      BY <1>2 DEF Assembly!Save
    <2> QED BY <2>1 DEF Assembly!Next
  <1>3. CASE /\ Saved = Parts /\ Saved' = {}
             /\ image'.exists = TRUE \/ image'.exists = image.exists
    BY <1>3 DEF Assembly!Next, Assembly!Finish, Assembly!Discard
  <1> QED BY <1>1, <1>2, <1>3

\* In the loop of writeAll() the image is incomplete.
LEMMA CopyIncomplete ==
  ASSUME Inv, pc = "copy", next \in Positions, task = "create"
  PROVE  Saved = {}
  <1>1. ~tmp.valid
    BY DEF Inv, ControlOK
  <1>2. tmp.good \subseteq 1..(next - 1)
    BY DEF Inv, CopyOK, Output
  <1>3. next \notin 1..(next - 1)
    BY PositionsFacts
  <1>4. tmp.good # Positions
    BY <1>2, <1>3
  <1> QED BY <1>1, <1>4 DEF Saved

\* writeAll() and the start of a run.
LEMMA KeepsCopy ==
  ASSUME Inv, Saved' \subseteq Parts, CopyData \/ WriteZeroes \/ CopyFile
  PROVE  [Assembly!Next]_(Assembly!vars)
  <1>1. pc = "copy" /\ next \in Positions /\ image' = image
    BY PositionsFacts DEF CopyData, WriteZeroes, CopyFile
  <1>2. task \in {"create", "single"}
    BY <1>1 DEF Inv, ControlOK
  <1>3. CASE task = "create"
    BY <1>1, <1>3, CopyIncomplete, AssemblyStep
  <1>4. CASE task = "single"
    <2>1. tmp' = tmp
      BY <1>4 DEF CopyData, WriteZeroes, CopyFile, WriteArea, FileToImage
    <2> QED BY <1>1, <2>1, SavedSame, AssemblyStep
  <1> QED BY <1>2, <1>3, <1>4

\* A run that starts afresh has no parts to lose.
LEMMA KeepsStart ==
  ASSUME Inv, Saved' \subseteq Parts, NEW F \in SUBSET Files,
         NEW force \in BOOLEAN, NEW toStdout \in BOOLEAN,
         Start(F, force, toStdout)
  PROVE  [Assembly!Next]_(Assembly!vars)
  <1>1. image' = image /\ (tmp' = tmp \/ tmp' = EmptyTmp)
    BY DEF Start, diskVars
  <1>2. CASE tmp' = tmp
    BY <1>1, <1>2, SavedSame, AssemblyStep
  <1>3. CASE tmp' = EmptyTmp /\ tmp' # tmp
    <2>1. TaskFor(toStdout) = "create"
      BY <1>3 DEF Start, diskVars
    <2>2. ~tmp.valid
      <3>1. ~(tmp.exists /\ tmp.valid)
        BY <2>1 DEF TaskFor
      <3> QED BY <3>1 DEF Inv, DiskOK
    <2>3. Saved = Parts \/ Saved = {}
      BY <2>2 DEF Saved
    <2>4. Saved' = {}
      <3>1. Positions # {}
        BY PositionsFacts
      <3>2. ~tmp'.valid /\ tmp'.good = {}
        BY <1>3 DEF EmptyTmp, NoTmp
      <3> QED BY <3>1, <3>2 DEF Saved
    <2> QED BY <1>1, <2>3, <2>4, AssemblyStep
  <1> QED BY <1>1, <1>2, <1>3

\* The writing of a DESC section never takes a part back.
LEMMA KeepsDesc ==
  ASSUME Inv, Saved' \subseteq Parts, AppendDesc \/ UpdateDesc
  PROVE  [Assembly!Next]_(Assembly!vars)
  <1>1. /\ pc = "desc" /\ image' = image /\ TypeOK
        /\ Output = tmp.good
        /\ tmp.valid <=> task = "merge"
    <2>1. pc = "desc" /\ image' = image
      BY DEF AppendDesc, UpdateDesc
    <2> QED BY <2>1, DescFacts
  <1>2. Saved \subseteq Saved'
    <2>1. CASE AppendDesc
      <3>1. ~tmp.valid /\ task = "create"
        BY <1>1, <2>1 DEF AppendDesc
      <3>2. Saved' = written
        BY <1>1, <2>1 DEF AppendDesc, Saved, TypeOK
      <3>3. Output \intersect Parts \subseteq written
        BY <1>1, <3>1 DEF Inv, CopyOK
      <3>4. tmp.good = Positions => Parts \subseteq written
        BY <1>1, <3>3, PositionsFacts
      <3> QED BY <3>1, <3>2, <3>4 DEF Saved
    <2>2. CASE UpdateDesc
      <3>1. task = "merge" /\ tmp.valid
        BY <1>1, <2>2 DEF UpdateDesc
      <3>2. tmp.have \subseteq written
        BY <1>1, <3>1 DEF Inv, MergeOK
      <3>3. tmp.have \subseteq tmp'.have /\ tmp'.valid
        BY <1>1, <2>2, <3>1, <3>2 DEF UpdateDesc, TypeOK
      <3> QED BY <3>1, <3>3 DEF Saved
    <2> QED BY <2>1, <2>2
  <1> QED BY <1>1, <1>2, AssemblyStep

\* Truncation and renaming.
LEMMA KeepsEnd ==
  ASSUME Inv, Saved' \subseteq Parts, Truncate \/ Rename
  PROVE  [Assembly!Next]_(Assembly!vars)
  <1>1. TypeOK /\ tmp.good = Positions
    <2>1. pc \in {"truncate", "rename"}
      BY DEF Truncate, Rename
    <2> QED BY <2>1 DEF Inv, DoneOK
  <1>2. CASE Truncate
    <2>1. tmp.exists
      BY <1>2 DEF Inv, ControlOK, Truncate
    <2>2. image' = image /\ Saved' = Parts
      BY <1>1, <1>2, <2>1 DEF Truncate, TypeOK, Saved
    <2>3. Saved \subseteq Parts
      BY <1>1 DEF TypeOK, Saved
    <2> QED BY <2>2, <2>3, AssemblyStep
  <1>3. CASE Rename
    <2>1. tmp.exists /\ ~tmp.valid
      BY <1>3 DEF Inv, ControlOK, Rename
    <2>2. Saved = Parts
      BY <1>1, <2>1 DEF Saved
    <2>3. image'.exists = TRUE /\ Saved' = {}
      BY <1>3 DEF Rename, NoTmp, Saved
    <2> QED BY <2>2, <2>3, AssemblyStep
  <1> QED BY <1>2, <1>3

\* Everything else, the faults included.
LEMMA KeepsElse ==
  ASSUME Careful, Inv, Saved' \subseteq Parts,
         \/ EndCopy \/ MergeFile \/ MergeSkip \/ EndMerge
         \/ EndUpdate \/ CloseFile
         \/ IoError \/ MergeErrorUnseen \/ CloseLoses \/ DescLost \/ Crash
  PROVE  [Assembly!Next]_(Assembly!vars)
  <1>1. TypeOK /\ image' = image
    BY RunFacts DEF EndCopy, MergeFile, MergeSkip, EndMerge, EndUpdate,
       CloseFile, IoError, MergeErrorUnseen, CloseLoses, DescLost, Crash,
       diskVars
  <1>2. CASE MergeFile
    <2>1. tmp.valid
      BY <1>2, MergeFacts DEF MergeFile
    <2>2. /\ tmp'.valid = tmp.valid /\ tmp'.have = tmp.have
      <3>1. PICK q \in toCopy : Fits(q, next) /\ FileToImage(q)
        BY <1>2 DEF MergeFile
      <3> QED BY <1>1, <1>2, <3>1, FileToImageFacts
        DEF MergeFile, Inv, Careful, Checked
    <2> QED BY <1>1, <2>1, <2>2, SavedSame, AssemblyStep
  <1>3. CASE IoError \/ Crash
    <2>1. \/ tmp' = tmp
          \/ pc = "merge" /\ WriteArea(next, FALSE) /\ task' = task
      BY <1>3 DEF IoError, Crash
    <2>2. CASE tmp' = tmp
      BY <1>1, <2>2, SavedSame, AssemblyStep
    <2>3. CASE pc = "merge" /\ WriteArea(next, FALSE) /\ task' = task
      <3>1. tmp.valid
        BY <2>3, MergeFacts
      <3>2. tmp'.valid = tmp.valid /\ tmp'.have = tmp.have
        BY <1>1, <2>3, WriteAreaFacts
      <3> QED BY <1>1, <3>1, <3>2, SavedSame, AssemblyStep
    <2> QED BY <2>1, <2>2, <2>3
  <1>4. CASE EndCopy \/ MergeSkip \/ EndMerge \/ EndUpdate \/ CloseFile
    <2>1. tmp' = tmp
      BY <1>4 DEF EndCopy, MergeSkip, EndMerge, EndUpdate, CloseFile, diskVars
    <2> QED BY <1>1, <2>1, SavedSame, AssemblyStep
  <1>5. ~MergeErrorUnseen /\ ~CloseLoses /\ ~DescLost
    BY DEF Careful, MergeErrorUnseen, CloseLoses, DescLost
  <1> QED BY <1>2, <1>3, <1>4, <1>5

\* make-image keeps its promise to whoever feeds it files: every step of it,
\* every crash and every failure is a step of ImageAssembly or none at all.
THEOREM WorkIsKept ==
  ASSUME Careful
  PROVE  Spec => KeepsWork
  <1>1. Init => Assembly!Init
    <2>1. Init => Saved = {} /\ image.exists = FALSE
      BY DEF Init, NoTmp, Saved
    <2> QED BY <2>1 DEF Assembly!Init
  <1>2. Inv /\ [Next]_vars => [Assembly!Next]_(Assembly!vars)
    <2> SUFFICES ASSUME Inv, [Next]_vars PROVE [Assembly!Next]_(Assembly!vars)
      OBVIOUS
    <2>1. Saved' \subseteq Parts
      <3>1. Inv'
        BY InvNext
      <3>2. TypeOK'
        BY <3>1 DEF Inv
      <3> QED BY <3>2 DEF TypeOK, Saved
    <2>2. ASSUME NEW force \in BOOLEAN, NEW toStdout \in BOOLEAN,
                 \/ Refuse(force, toStdout)
                 \/ \E F \in SUBSET Files : Start(F, force, toStdout)
          PROVE  [Assembly!Next]_(Assembly!vars)
      <3>1. CASE Refuse(force, toStdout)
        <4>1. tmp' = tmp /\ image' = image
          BY <3>1 DEF Refuse, diskVars
        <4> QED BY <2>1, <4>1, SavedSame, AssemblyStep
      <3>2. CASE \E F \in SUBSET Files : Start(F, force, toStdout)
        BY <2>1, <3>2, KeepsStart
      <3> QED BY <2>2, <3>1, <3>2
    <2>3. CASE Step
      BY <2>1, <2>3, KeepsCopy, KeepsDesc, KeepsEnd, KeepsElse DEF Step
    <2>4. CASE IoError \/ MergeErrorUnseen \/ CloseLoses \/ DescLost \/ Crash
      BY <2>1, <2>4, KeepsElse
    <2>5. CASE UNCHANGED vars \/ \E f \in Files : Break(f) \/ Repair(f)
      <3>1. tmp' = tmp /\ image' = image
        BY <2>5 DEF Break, Repair, vars, diskVars
      <3> QED BY <2>1, <3>1, SavedSame, AssemblyStep
    <2> QED BY <2>2, <2>3, <2>4, <2>5 DEF Next
  <1> QED BY <1>1, <1>2, CarefulInv, PTL DEF Spec, KeepsWork, Assembly!Spec

-----------------------------------------------------------------------------
(* Write errors that show too late: what the temporary file still promises *)

\* Which places of the program go with which task.
PlacesOK ==
  /\ pc = "copy" => task \in {"create", "single"}
  /\ pc \in {"merge", "truncate"} => task = "merge"
  /\ pc \in {"desc", "close", "rename"} => task \in {"create", "merge"}
  /\ pc # "idle" /\ task = "create" => ~tmp.valid

\* Until the DESC section is complete, the output is right wherever that
\* section will say so.
GoodOK ==
  /\ pc = "copy" /\ task = "create" =>
       /\ 1..(next - 1) \subseteq tmp.good \union Parts
       /\ written \subseteq tmp.good /\ written \subseteq 1..(next - 1)
  /\ pc = "desc" /\ task = "create" => Positions \subseteq tmp.good \union Parts
  /\ pc \in {"merge", "desc"} /\ task # "single" => written \subseteq tmp.good

\* What a late error can still spoil, an area in the queue or the one written
\* last, is not among those that the DESC section on disk calls written.
LastOK ==
  /\ pc = "merge" => toCopy \intersect written = {} /\ tmp.have \subseteq written
  /\ pc \in {"merge", "close"} /\ task = "merge" =>
       last \in Parts \union {0} /\ last \notin tmp.have

LateInv == TypeOK /\ HonestTmp /\ PlacesOK /\ QueueOK /\ GoodOK /\ LastOK

\* Once a run has ended, only the temporary file matters.
LEMMA LateIdle ==
  ASSUME pc' = "idle"
  PROVE  PlacesOK' /\ QueueOK' /\ GoodOK' /\ LastOK'
  BY DEF PlacesOK, QueueOK, GoodOK, LastOK

\* In the loop of writeAll() the temporary file promises nothing.
LEMMA LateCopy ==
  ASSUME LateInv, pc = "copy", task' = task, tmp'.valid = tmp.valid,
         task = "single" => tmp' = tmp
  PROVE  /\ HonestTmp' /\ task \in {"create", "single"}
         /\ task = "create" => ~tmp.valid /\ Output = tmp.good
         /\ task' = "create" => Output' = tmp'.good
  <1>1. /\ task \in {"create", "single"}
        /\ task = "create" => ~tmp.valid
    BY DEF LateInv, PlacesOK
  <1>2. HonestTmp
    BY DEF LateInv
  <1>3. tmp' = tmp \/ ~tmp'.valid
    BY <1>1
  <1>4. HonestTmp'
    BY <1>2, <1>3 DEF HonestTmp
  <1> QED BY <1>1, <1>4 DEF Output

\* The loop goes on behind next.
LEMMA LateQueue ==
  ASSUME LateInv, pc' = pc, pc \in {"copy", "merge"}, next' = next + 1,
         toCopy' \subseteq toCopy, next \notin toCopy'
  PROVE  QueueOK'
  <1>1. \A r \in toCopy : next <= r /\ r \in Nat
    BY PositionsFacts DEF LateInv, QueueOK, TypeOK
  <1>2. next \in Nat
    BY DEF LateInv, TypeOK
  <1>3. \A r \in toCopy' : next <= r /\ r # next /\ r \in Nat
    BY <1>1
  <1>4. \A r \in toCopy' : next + 1 <= r
    BY <1>2, <1>3
  <1> QED BY <1>4 DEF QueueOK

\* writeAll() copies unmatched data or leaves out a part.
LEMMA LateArea ==
  ASSUME Checked, LateInv, CopyData \/ WriteZeroes
  PROVE  LateInv'
  <1>1. /\ TypeOK /\ TypeOK' /\ pc = "copy" /\ pc' = "copy"
        /\ next \in Nat /\ next' = next + 1 /\ task' = task
        /\ toCopy' = toCopy /\ written' = written
    <2>1. TypeOK
      BY DEF LateInv
    <2>2. TypeOK'
      BY <2>1, TypeCopy
    <2>3. next \in Nat
      BY <2>1 DEF TypeOK
    <2> QED BY <2>1, <2>2, <2>3 DEF CopyData, WriteZeroes
  <1>2. /\ \/ next \in Parts /\ Output' = Output \ {next}
           \/ next \notin Parts /\ Output' = Output \union {next}
        /\ tmp'.valid = tmp.valid
        /\ task = "single" => tmp' = tmp
    <2>1. CASE CopyData
      <3>1. WriteArea(next, TRUE) /\ next \notin Parts
        BY <2>1 DEF CopyData
      <3> QED BY <1>1, <3>1, WriteAreaFacts
    <2>2. CASE WriteZeroes
      <3>1. WriteArea(next, FALSE) /\ next \in Parts
        BY <2>2 DEF WriteZeroes
      <3> QED BY <1>1, <3>1, WriteAreaFacts
    <2> QED BY <2>1, <2>2
  <1>3. /\ HonestTmp' /\ task \in {"create", "single"}
        /\ task = "create" => ~tmp.valid /\ Output = tmp.good
        /\ task' = "create" => Output' = tmp'.good
    BY <1>1, <1>2, LateCopy
  <1>4. QueueOK'
    <2>1. next \notin toCopy
      <3>1. toCopy \subseteq Parts
        BY <1>1 DEF TypeOK
      <3>2. CASE CopyData
        BY <3>1, <3>2 DEF CopyData
      <3>3. CASE WriteZeroes
        BY <1>1, <3>3, FitsNext DEF LateInv, Checked, WriteZeroes
      <3> QED BY <3>2, <3>3
    <2> QED BY <1>1, <2>1, LateQueue
  <1>5. GoodOK'
    <2>1. 1..(next' - 1) = 1..(next - 1) \union {next}
      BY <1>1, PositionsFacts DEF TypeOK
    <2>2. CASE task = "create"
      <3>1. /\ 1..(next - 1) \subseteq Output \union Parts
            /\ written \subseteq Output /\ written \subseteq 1..(next - 1)
        BY <1>1, <1>3, <2>2 DEF LateInv, GoodOK
      <3>2. next \notin written
        BY <1>1, <3>1
      <3>3. /\ 1..(next' - 1) \subseteq Output' \union Parts
            /\ written' \subseteq Output' /\ written' \subseteq 1..(next' - 1)
        BY <1>1, <1>2, <2>1, <3>1, <3>2
      <3> QED BY <1>1, <1>3, <2>2, <3>3 DEF GoodOK
    <2> QED BY <1>1, <1>3, <2>2 DEF GoodOK
  <1>6. PlacesOK' /\ LastOK'
    BY <1>1, <1>2, <1>3 DEF PlacesOK, LastOK
  <1> QED BY <1>1, <1>3, <1>4, <1>5, <1>6 DEF LateInv

\* writeAll() copies a file, or fails to.
LEMMA LateCopyFile ==
  ASSUME Checked, LateInv, CopyFile
  PROVE  LateInv'
  <1>1. /\ TypeOK /\ TypeOK' /\ pc = "copy" /\ pc' \in {"copy", "idle"}
        /\ next \in Nat /\ next' = next + 1 /\ task' = task /\ next \in Parts
    <2>1. TypeOK
      BY DEF LateInv
    <2>2. TypeOK'
      BY <2>1, TypeCopy
    <2>3. next \in Nat
      BY <2>1 DEF TypeOK
    <2> QED BY <2>1, <2>2, <2>3 DEF CopyFile, Return
  <1>2. PICK q \in toCopy : Fits(q, next) /\ FileToImage(q)
    BY DEF CopyFile
  <1>3. /\ toCopy' = toCopy \ {next}
        /\ tmp'.valid = tmp.valid
        /\ task = "single" => tmp' = tmp
        /\ \/ /\ Output' = Output \union {next}
              /\ written' = written \union {next}
           \/ /\ Output' = Output \ {next}
              /\ written' = written
    BY <1>1, <1>2, FileToImageFacts DEF LateInv
  <1>4. /\ HonestTmp' /\ task \in {"create", "single"}
        /\ task = "create" => ~tmp.valid /\ Output = tmp.good
        /\ task' = "create" => Output' = tmp'.good
    BY <1>1, <1>3, LateCopy
  <1>5. CASE pc' = "idle"
    BY <1>1, <1>4, <1>5, LateIdle DEF LateInv
  <1>6. CASE pc' = "copy"
    <2>1. QueueOK'
      BY <1>1, <1>3, <1>6, LateQueue
    <2>2. GoodOK'
      <3>1. 1..(next' - 1) = 1..(next - 1) \union {next}
        BY <1>1, PositionsFacts DEF TypeOK
      <3>2. CASE task = "create"
        <4>1. /\ 1..(next - 1) \subseteq Output \union Parts
              /\ written \subseteq Output /\ written \subseteq 1..(next - 1)
          BY <1>1, <1>4, <3>2 DEF LateInv, GoodOK
        <4>2. next \notin written
          BY <1>1, <4>1
        <4>3. /\ 1..(next' - 1) \subseteq Output' \union Parts
              /\ written' \subseteq Output'
              /\ written' \subseteq 1..(next' - 1)
          BY <1>1, <1>3, <3>1, <4>1, <4>2
        <4> QED BY <1>1, <1>4, <1>6, <3>2, <4>3 DEF GoodOK
      <3> QED BY <1>1, <1>4, <1>6, <3>2 DEF GoodOK
    <2>3. PlacesOK' /\ LastOK'
      BY <1>1, <1>3, <1>4, <1>6 DEF PlacesOK, LastOK
    <2> QED BY <1>1, <1>4, <2>1, <2>2, <2>3 DEF LateInv
  <1> QED BY <1>1, <1>5, <1>6

\* The loop of writeAll() is over, or that of writeMerge().
LEMMA LateLoopEnd ==
  ASSUME Checked, LateInv, EndCopy \/ EndMerge
  PROVE  LateInv'
  <1>1. /\ TypeOK /\ TypeOK' /\ next = Len(Template) + 1
        /\ pc \in {"copy", "merge"}
        /\ tmp' = tmp /\ task' = task
        /\ written' = written /\ toCopy' = toCopy /\ last' = last
        /\ pc' \in {"desc", "close", "idle"}
        /\ pc = "copy" /\ task = "single" => pc' = "idle"
    <2>1. TypeOK
      BY DEF LateInv
    <2>2. TypeOK'
      BY <2>1, TypeCopy, TypeMerge
    <2>3. next \notin Positions
      BY DEF EndCopy, EndMerge
    <2>4. next = Len(Template) + 1
      BY <2>1, <2>3, PositionsFacts DEF TypeOK
    <2>5. /\ pc \in {"copy", "merge"}
          /\ tmp' = tmp /\ task' = task
          /\ written' = written /\ toCopy' = toCopy /\ last' = last
          /\ pc' \in {"desc", "close", "idle"}
          /\ pc = "copy" /\ task = "single" => pc' = "idle"
      BY DEF EndCopy, EndMerge, Return, diskVars
    <2> QED BY <2>1, <2>2, <2>4, <2>5
  <1>2. HonestTmp'
    BY <1>1 DEF LateInv, HonestTmp
  <1>3. CASE pc' = "idle"
    BY <1>1, <1>2, <1>3, LateIdle DEF LateInv
  <1>4. CASE pc' # "idle"
    <2>1. toCopy = {}
      <3>1. \A r \in toCopy : next <= r /\ r \in 1..Len(Template)
        BY <1>1, PositionsFacts DEF LateInv, QueueOK, TypeOK
      <3> QED BY <1>1, <3>1, PositionsFacts
    <2>2. PlacesOK' /\ QueueOK'
      BY <1>1, <1>4, <2>1 DEF LateInv, PlacesOK, QueueOK
    <2>3. GoodOK'
      <3>1. 1..(next - 1) = Positions
        BY <1>1, PositionsFacts
      <3>2. pc = "copy" /\ task = "create" =>
              Positions \subseteq tmp.good \union Parts
        BY <3>1 DEF LateInv, GoodOK
      <3>3. task # "single" => written \subseteq tmp.good
        BY <1>1 DEF LateInv, GoodOK, PlacesOK
      <3>4. task = "create" => pc = "copy"
        BY <1>1 DEF LateInv, PlacesOK
      <3> QED BY <1>1, <1>4, <3>2, <3>3, <3>4 DEF GoodOK
    <2>4. LastOK'
      <3>1. task = "merge" => pc = "merge"
        BY <1>1 DEF LateInv, PlacesOK
      <3> QED BY <1>1, <1>4, <3>1 DEF LateInv, LastOK
    <2> QED BY <1>1, <1>2, <2>2, <2>3, <2>4 DEF LateInv
  <1> QED BY <1>3, <1>4

\* What the loop of writeMerge() can rely on, whatever else goes wrong.
LEMMA LateMerge ==
  ASSUME LateInv, pc = "merge"
  PROVE  /\ TypeOK /\ task = "merge" /\ Output = tmp.good
         /\ written \subseteq tmp.good /\ tmp.have \subseteq written
         /\ toCopy \intersect written = {}
         /\ last \in Parts \union {0} /\ last \notin tmp.have
         /\ tmp.valid => Positions \ Parts \subseteq tmp.good
  <1>1. task = "merge"
    BY DEF LateInv, PlacesOK
  <1> QED BY <1>1 DEF LateInv, GoodOK, LastOK, HonestTmp, Output

\* One turn of the loop of writeMerge().
LEMMA LateMergeTurn ==
  ASSUME Checked, LateInv, MergeFile \/ MergeSkip
  PROVE  LateInv'
  <1>1. /\ TypeOK /\ TypeOK' /\ pc = "merge" /\ pc' = "merge"
        /\ next \in Nat /\ next \in Positions /\ next' = next + 1
        /\ task' = task
    <2>1. TypeOK
      BY DEF LateInv
    <2>2. TypeOK'
      BY <2>1, TypeMerge
    <2>3. next \in Nat
      BY <2>1 DEF TypeOK
    <2> QED BY <2>1, <2>2, <2>3, PositionsFacts DEF MergeFile, MergeSkip
  <1>2. /\ task = "merge" /\ Output = tmp.good
        /\ written \subseteq tmp.good /\ tmp.have \subseteq written
        /\ toCopy \intersect written = {}
        /\ last \in Parts \union {0} /\ last \notin tmp.have
        /\ tmp.valid => Positions \ Parts \subseteq tmp.good
    BY <1>1, LateMerge
  <1>3. Output' = tmp'.good
    BY <1>1, <1>2 DEF Output
  <1>4. CASE MergeFile
    <2>1. next \in Parts
      BY <1>4 DEF MergeFile
    <2>2. PICK q \in toCopy : Fits(q, next) /\ FileToImage(q)
      BY <1>4 DEF MergeFile
    <2>3. /\ next \in toCopy /\ toCopy' = toCopy \ {next}
          /\ tmp'.valid = tmp.valid /\ tmp'.have = tmp.have
          /\ \/ /\ Output' = Output \union {next}
                /\ written' = written \union {next}
             \/ /\ Output' = Output \ {next}
                /\ written' = written
      BY <1>1, <2>1, <2>2, FileToImageFacts DEF LateInv
    <2>4. last' = next
      BY <2>2 DEF FileToImage
    <2>5. QueueOK'
      BY <1>1, <2>3, LateQueue
    <2>6. written' \subseteq tmp'.good /\ tmp'.have \subseteq tmp'.good
      BY <1>2, <1>3, <2>3
    <2>7. HonestTmp'
      <3>1. tmp'.valid => Positions \ Parts \subseteq tmp'.good
        BY <1>2, <1>3, <2>1, <2>3
      <3> QED BY <2>6, <3>1 DEF HonestTmp
    <2>8. PlacesOK' /\ GoodOK'
      BY <1>1, <1>2, <2>6 DEF PlacesOK, GoodOK
    <2>9. LastOK'
      BY <1>1, <1>2, <2>1, <2>3, <2>4 DEF LastOK
    <2> QED BY <1>1, <2>5, <2>7, <2>8, <2>9 DEF LateInv
  <1>5. CASE MergeSkip
    <2>1. /\ tmp' = tmp /\ toCopy' = toCopy /\ written' = written
          /\ last' = last
      BY <1>5 DEF MergeSkip, diskVars
    <2>2. next \notin toCopy
      <3>1. next \in toCopy => next \in Parts /\ Fits(next, next)
        BY <1>1, FitsNext DEF LateInv, Checked, TypeOK
      <3> QED BY <1>5, <3>1 DEF MergeSkip
    <2>3. QueueOK'
      BY <1>1, <2>1, <2>2, LateQueue
    <2>4. HonestTmp'
      BY <2>1 DEF LateInv, HonestTmp
    <2>5. PlacesOK' /\ GoodOK' /\ LastOK'
      BY <1>1, <1>2, <2>1 DEF PlacesOK, GoodOK, LastOK
    <2> QED BY <1>1, <2>3, <2>4, <2>5 DEF LateInv
  <1> QED BY <1>4, <1>5

\* The DESC section, truncation and renaming.
LEMMA LateEnd ==
  ASSUME LateInv,
         AppendDesc \/ UpdateDesc \/ EndUpdate \/ CloseFile \/ Truncate
           \/ Rename
  PROVE  LateInv'
  <1>1. TypeOK /\ TypeOK' /\ task' = task
    <2>1. TypeOK
      BY DEF LateInv
    <2> QED BY <2>1, TypeEnd DEF AppendDesc, UpdateDesc, EndUpdate, CloseFile,
            Truncate, Rename
  <1>2. CASE AppendDesc
    <2>1. /\ tmp'.have = written /\ tmp'.good = tmp.good /\ pc' = "idle"
          /\ pc = "desc" /\ task = "create"
      BY <1>1, <1>2 DEF AppendDesc, Return, TypeOK
    <2>2. Positions \subseteq tmp.good \union Parts /\ written \subseteq tmp.good
      BY <2>1 DEF LateInv, GoodOK
    <2>3. HonestTmp'
      BY <2>1, <2>2 DEF HonestTmp
    <2> QED BY <1>1, <2>1, <2>3, LateIdle DEF LateInv
  <1>3. CASE UpdateDesc
    <2>1. /\ tmp'.have = IF next \in written THEN tmp.have \union {next}
                         ELSE tmp.have \ {next}
          /\ tmp'.good = tmp.good /\ tmp'.valid = tmp.valid
          /\ pc = "desc" /\ pc' = "desc" /\ task = "merge"
          /\ toCopy' = toCopy /\ written' = written
      BY <1>1, <1>3 DEF UpdateDesc, TypeOK
    <2>2. written \subseteq tmp.good
      BY <2>1 DEF LateInv, GoodOK
    <2>3. HonestTmp'
      <3>1. tmp'.have \subseteq tmp.have \union written
        BY <2>1
      <3> QED BY <2>1, <2>2, <3>1 DEF LateInv, HonestTmp
    <2>4. PlacesOK' /\ QueueOK' /\ GoodOK' /\ LastOK'
      BY <1>1, <2>1, <2>2 DEF LateInv, PlacesOK, QueueOK, GoodOK, LastOK
    <2> QED BY <1>1, <2>3, <2>4 DEF LateInv
  <1>4. CASE EndUpdate \/ CloseFile
    <2>1. tmp' = tmp /\ pc' \in {"idle", "truncate", "rename"}
      BY <1>4 DEF EndUpdate, CloseFile, Return, diskVars
    <2>2. pc' # "idle" => pc = "close" /\ (pc' = "truncate" <=> task = "merge")
      BY <1>4 DEF EndUpdate, CloseFile, Return
    <2>3. HonestTmp'
      BY <2>1 DEF LateInv, HonestTmp
    <2>4. PlacesOK'
      BY <1>1, <2>1, <2>2 DEF LateInv, PlacesOK
    <2>5. QueueOK' /\ GoodOK' /\ LastOK'
      BY <2>1 DEF QueueOK, GoodOK, LastOK
    <2> QED BY <1>1, <2>3, <2>4, <2>5 DEF LateInv
  <1>5. CASE Truncate \/ Rename
    <2>1. ~tmp'.valid /\ pc' \in {"idle", "rename"}
      <3>1. CASE Truncate
        <4>1. tmp' = [tmp EXCEPT !.valid = FALSE, !.have = {}]
          BY <3>1 DEF Truncate
        <4>2. tmp'.valid = FALSE
          BY <1>1, <4>1 DEF TypeOK
        <4> QED BY <3>1, <4>2 DEF Truncate
      <3>2. CASE Rename
        BY <3>2 DEF Rename, Return, NoTmp
      <3> QED BY <1>5, <3>1, <3>2
    <2>2. pc' = "rename" => pc = "truncate"
      BY <1>5 DEF Truncate, Rename, Return
    <2>3. HonestTmp' /\ PlacesOK'
      BY <1>1, <2>1, <2>2 DEF LateInv, HonestTmp, PlacesOK
    <2>4. QueueOK' /\ GoodOK' /\ LastOK'
      BY <2>1 DEF QueueOK, GoodOK, LastOK
    <2> QED BY <1>1, <2>3, <2>4 DEF LateInv
  <1> QED BY <1>2, <1>3, <1>4, <1>5

\* An area is spoilt that the DESC section on disk does not call written.
LEMMA LateSpoilt ==
  ASSUME LateInv, pc \in {"merge", "close"}, task' = task, NEW p,
         WriteArea(p, FALSE), task = "merge" => p \notin tmp.have,
         task = "merge" => p \in Parts \union {0}
  PROVE  /\ HonestTmp' /\ tmp'.valid = tmp.valid /\ tmp'.have = tmp.have
         /\ tmp'.good = tmp.good \ {p}
  <1>1. TypeOK /\ task \in {"create", "merge"}
    BY DEF LateInv, PlacesOK
  <1>2. /\ tmp'.good = tmp.good \ {p}
        /\ tmp'.valid = tmp.valid /\ tmp'.have = tmp.have
    BY <1>1, WriteAreaFacts DEF Output
  <1>3. task = "create" => ~tmp.valid
    BY DEF LateInv, PlacesOK
  <1>4. p \in Parts \union {0} => p \notin Positions \ Parts
    BY PositionsFacts
  <1>5. tmp.valid => (Positions \ Parts) \union tmp.have \subseteq tmp.good
    BY DEF LateInv, HonestTmp
  <1>6. tmp.valid => (Positions \ Parts) \union tmp.have \subseteq tmp.good \ {p}
    BY <1>1, <1>3, <1>4, <1>5
  <1> QED BY <1>2, <1>6 DEF HonestTmp

\* I/O errors, noticed or not, and crashes, at any point of a run.
LEMMA LateFault ==
  ASSUME Checked, LateInv,
         IoError \/ MergeErrorUnseen \/ CloseLoses \/ DescLost \/ Crash
  PROVE  LateInv'
  <1>1. TypeOK /\ TypeOK' /\ task' = task
    <2>1. TypeOK
      BY DEF LateInv
    <2> QED BY <2>1, TypeFault DEF IoError, MergeErrorUnseen, CloseLoses,
            DescLost, Crash
  <1>2. ASSUME pc = "merge", next \in Parts, WriteArea(next, FALSE),
               NEW q \in toCopy, Fits(q, next)
        PROVE  /\ HonestTmp' /\ tmp'.valid = tmp.valid
               /\ tmp'.have = tmp.have /\ next \in toCopy
               /\ task = "merge" /\ next \notin tmp.have
    <2>1. next \in toCopy
      BY <1>1, <1>2, FitsNext DEF LateInv, Checked
    <2>2. /\ task = "merge" /\ tmp.have \subseteq written
          /\ toCopy \intersect written = {}
      BY <1>2, LateMerge
    <2>3. next \notin tmp.have
      BY <2>1, <2>2
    <2> QED BY <1>1, <1>2, <2>1, <2>2, <2>3, LateSpoilt
  <1>3. CASE IoError \/ Crash \/ DescLost
    <2>1. pc' = "idle"
      BY <1>3 DEF IoError, Crash, DescLost, Return
    <2>2. \/ tmp' = tmp
          \/ /\ pc = "merge" /\ next \in Parts /\ WriteArea(next, FALSE)
             /\ \E q \in toCopy : Fits(q, next)
      BY <1>3 DEF IoError, Crash, DescLost, diskVars
    <2>3. HonestTmp'
      <3>1. CASE tmp' = tmp
        BY <3>1 DEF LateInv, HonestTmp
      <3> QED BY <1>2, <2>2, <3>1
    <2> QED BY <1>1, <2>1, <2>3, LateIdle DEF LateInv
  <1>4. CASE MergeErrorUnseen
    <2>1. PICK q \in toCopy : Fits(q, next) /\ toCopy' = toCopy \ {q}
      BY <1>4 DEF MergeErrorUnseen
    <2>2. /\ pc = "merge" /\ next \in Parts /\ WriteArea(next, FALSE)
          /\ last' = next
          /\ pc' = "idle" \/ (pc' = "close" /\ toCopy' = {})
      BY <1>4 DEF MergeErrorUnseen, Return
    <2>3. /\ HonestTmp' /\ tmp'.have = tmp.have /\ task = "merge"
          /\ next \notin tmp.have
      BY <1>2, <2>1, <2>2
    <2>4. CASE pc' = "idle"
      BY <1>1, <2>3, <2>4, LateIdle DEF LateInv
    <2>5. CASE pc' = "close" /\ toCopy' = {}
      <3>1. PlacesOK' /\ QueueOK' /\ GoodOK' /\ LastOK'
        BY <1>1, <2>2, <2>3, <2>5 DEF PlacesOK, QueueOK, GoodOK, LastOK
      <3> QED BY <1>1, <2>3, <3>1 DEF LateInv
    <2> QED BY <2>2, <2>4, <2>5
  <1>5. CASE CloseLoses
    <2>1. /\ pc = "close" /\ WriteArea(last, FALSE)
          /\ pc' = IF task = "merge" THEN "truncate" ELSE "rename"
      BY <1>5 DEF CloseLoses
    <2>2. task = "merge" => last \in Parts \union {0} /\ last \notin tmp.have
      BY <2>1 DEF LateInv, LastOK
    <2>3. HonestTmp' /\ tmp'.valid = tmp.valid
      BY <1>1, <2>1, <2>2, LateSpoilt
    <2>4. PlacesOK'
      BY <1>1, <2>1, <2>3 DEF LateInv, PlacesOK
    <2>5. QueueOK' /\ GoodOK' /\ LastOK'
      BY <2>1 DEF QueueOK, GoodOK, LastOK
    <2> QED BY <1>1, <2>3, <2>4, <2>5 DEF LateInv
  <1> QED BY <1>3, <1>4, <1>5

\* The start of a run, or its refusal.
LEMMA LateStart ==
  ASSUME LateInv, NEW F \in SUBSET Files, NEW force \in BOOLEAN,
         NEW toStdout \in BOOLEAN,
         Start(F, force, toStdout) \/ Refuse(force, toStdout)
  PROVE  LateInv'
  <1>1. TypeOK /\ TypeOK'
    <2>1. TypeOK
      BY DEF LateInv
    <2> QED BY <2>1, TypeStart
  <1>2. ~EmptyTmp.valid
    BY DEF EmptyTmp, NoTmp
  <1>3. tmp' = tmp \/ tmp' = EmptyTmp
    BY DEF Start, Refuse, diskVars
  <1>4. HonestTmp'
    BY <1>2, <1>3 DEF LateInv, HonestTmp
  <1>5. CASE pc' = "idle"
    BY <1>1, <1>4, <1>5, LateIdle DEF LateInv
  <1>6. CASE pc' # "idle"
    <2>1. /\ task' = TaskFor(toStdout) /\ written' = Parts \ Needed(task')
          /\ toCopy' \subseteq Needed(task') /\ next' = 1 /\ last' = 0
          /\ tmp' = IF task' = "create" THEN EmptyTmp ELSE tmp
          /\ pc' = IF task' = "merge" THEN "merge" ELSE "copy"
      BY <1>6 DEF Start, Refuse, Return
    <2>2. /\ task' = "merge" => tmp.valid
          /\ task' \in {"create", "merge", "single"}
      BY <1>1, <2>1, TaskFacts
    <2>3. /\ task' = "merge" => written' = Parts \intersect tmp.have
          /\ task' # "merge" => written' = {}
      BY <2>1 DEF Needed
    <2>4. task' = "merge" => /\ written' = tmp.have /\ tmp' = tmp
                             /\ tmp.have \subseteq tmp.good
      BY <1>1, <2>1, <2>2, <2>3 DEF LateInv, HonestTmp, TypeOK
    <2>5. PlacesOK'
      BY <1>2, <2>1, <2>2 DEF PlacesOK
    <2>6. QueueOK'
      <3>1. \A r \in toCopy' : r \in Nat /\ 1 <= r
        BY <1>1, PositionsFacts DEF TypeOK
      <3> QED BY <2>1, <3>1 DEF QueueOK
    <2>7. GoodOK'
      <3>1. 1..(next' - 1) = {}
        BY <2>1
      <3> QED BY <2>1, <2>3, <2>4, <3>1 DEF GoodOK
    <2>8. LastOK'
      <3>1. 0 \notin Parts
        BY PositionsFacts
      <3>2. tmp.have \subseteq Parts
        BY <1>1 DEF TypeOK
      <3>3. toCopy' \intersect written' = {}
        BY <2>1
      <3> QED BY <2>1, <2>4, <3>1, <3>2, <3>3 DEF LastOK
    <2> QED BY <1>1, <1>4, <2>5, <2>6, <2>7, <2>8 DEF LateInv
  <1> QED BY <1>5, <1>6

\* Every step keeps it, whichever errors show when.
LEMMA LateNext ==
  ASSUME Checked, LateInv, [Next]_vars
  PROVE  LateInv'
  <1>1. TypeOK
    BY DEF LateInv
  <1>2. ASSUME NEW force \in BOOLEAN, NEW toStdout \in BOOLEAN,
               \/ Refuse(force, toStdout)
               \/ \E F \in SUBSET Files : Start(F, force, toStdout)
        PROVE  LateInv'
    BY <1>2, LateStart
  <1>3. CASE Step
    BY <1>3, LateArea, LateCopyFile, LateLoopEnd, LateMergeTurn, LateEnd
    DEF Step
  <1>4. CASE IoError \/ MergeErrorUnseen \/ CloseLoses \/ DescLost \/ Crash
    BY <1>4, LateFault
  <1>5. CASE UNCHANGED vars \/ \E f \in Files : Break(f) \/ Repair(f)
    <2>1. TypeOK'
      <3>1. [Next]_vars
        OBVIOUS
      <3> QED BY <1>1, <3>1, TypeNext
    <2>2. UNCHANGED <<diskVars, runVars>>
      BY <1>5 DEF Break, Repair, vars
    <2>3. /\ tmp' = tmp /\ pc' = pc /\ task' = task /\ toCopy' = toCopy
          /\ written' = written /\ next' = next /\ last' = last
      BY <2>2 DEF diskVars, runVars
    <2> QED
      BY <2>1, <2>3 DEF LateInv, HonestTmp, PlacesOK, QueueOK, GoodOK, LastOK
  <1> QED BY <1>2, <1>3, <1>4, <1>5 DEF Next

\* The strengthening of the two invariants below is an invariant.
LEMMA LateCorrect ==
  ASSUME Checked
  PROVE  Spec => []LateInv
  <1>1. Init => LateInv
    <2> SUFFICES ASSUME Init PROVE LateInv
      OBVIOUS
    <2>1. TypeOK
      BY TypeInit
    <2>2. ~tmp.valid /\ pc = "idle"
      BY DEF Init, NoTmp
    <2> QED BY <2>1, <2>2 DEF LateInv, HonestTmp, PlacesOK, QueueOK, GoodOK,
            LastOK
  <1>2. LateInv /\ [Next]_vars => LateInv'
    BY LateNext
  <1> QED BY <1>1, <1>2, PTL DEF Spec

\* The DESC section of the temporary file never claims a part that is not
\* there (JigdoDescVec::put(), the end of writeMerge()): with --check-files
\* and no file needed twice, even if write errors show only in close(), when
\* the image and the exit status cannot be relied upon any more.
THEOREM TmpIsHonest ==
  ASSUME Checked
  PROVE  Spec => []HonestTmp
  <1>1. LateInv => HonestTmp
    BY DEF LateInv
  <1> QED BY <1>1, LateCorrect, PTL

\* Assert(toCopy.empty()) at the end of writeAll() never fails, whichever
\* errors show when.
THEOREM QueueIsUsedUp ==
  ASSUME Checked
  PROVE  Spec => []QueueUsedUp
  <1>1. LateInv => QueueUsedUp
    BY DEF LateInv, QueueOK, QueueUsedUp
  <1> QED BY <1>1, LateCorrect, PTL

-----------------------------------------------------------------------------
(* The script that feeds it: jigdo-lite (module JigdoLite) *)

CONSTANTS AllParts, PartsOf, Urls, Good, Flaky, FileUrl, Local, Relative,
          FilesPerFetch, Passes, Batch, Unreliable, KillAt, MaxRuns

VARIABLES jigdoFile, templates, images, tmps, dirs, place, cur, url, todo,
          pass, noMorePasses, runs, tried

Lite ==
  INSTANCE JigdoLite
    WITH Parts <- AllParts, jigdo <- jigdoFile, template <- templates,
         image <- images, tmp <- tmps, dir <- dirs, pc <- place

\* The .jigdo file lists an image at least.
LiteUsable == Lite!LiteAssumption /\ PartsOf # << >>

LiteTypeOK ==
  /\ templates \in [Lite!Images -> {"none", "cut", "right"}]
  /\ images \in [Lite!Images -> BOOLEAN]
  /\ tmps \in [Lite!Images -> [state : {"none", "valid", "broken"},
                               parts : SUBSET AllParts]]
  /\ dirs \in [Lite!Images -> [state : {"none", "valid"},
                               parts : SUBSET AllParts]]
  /\ cur \in Lite!Images

\* make-image leaves no file behind in which there is nothing.
NoneEmpty == \A i \in Lite!Images : tmps[i].state = "valid" => tmps[i].parts # {}

\* Without the directory there are no files in it.
DirsOK == \A i \in Lite!Images : dirs[i].state = "none" => dirs[i].parts = {}

\* The template was checked before any of these places is reached.
CheckedBefore ==
  place \in {"scan", "left", "uris", "pass", "fetch", "merge", "remove",
             "prompt"} => templates[cur] = "right"

\* What is about to be deleted is in the image, or in the file that will be.
Removable ==
  place = "remove" =>
    images[cur] \/ dirs[cur].parts \intersect PartsOf[cur] \subseteq tmps[cur].parts

LiteInv == LiteTypeOK /\ NoneEmpty /\ DirsOK /\ CheckedBefore /\ Removable

\* The parts of an image.
LEMMA LiteImages ==
  ASSUME LiteUsable
  PROVE  /\ Lite!Images = 1..Len(PartsOf) /\ 1 \in Lite!Images
         /\ Len(PartsOf) \in Nat
         /\ \A i \in Lite!Images : PartsOf[i] \subseteq AllParts
  BY DEF LiteUsable, Lite!LiteAssumption, Lite!Images

\* make-image, in the abstract: the state of the file it leaves.
LEMMA LiteMakeImage ==
  ASSUME LiteUsable, LiteTypeOK, NoneEmpty, NEW files, Lite!MakeImage(cur, files)
  PROVE  /\ images' \in [Lite!Images -> BOOLEAN]
         /\ tmps' \in [Lite!Images -> [state : {"none", "valid", "broken"},
                                       parts : SUBSET AllParts]]
         /\ NoneEmpty'
         /\ \A i \in Lite!Images : images[i] => images'[i]
         /\ \A i \in Lite!Images : tmps[i].state = "valid" =>
              \/ images'[i]
              \/ tmps'[i].state = "valid" /\ tmps[i].parts \subseteq tmps'[i].parts
         /\ Lite!Status(cur, files) < 3 =>
              \/ images'[cur]
              \/ files \intersect PartsOf[cur] \subseteq tmps'[cur].parts
         /\ Lite!Status(cur, files) \in {0, 1, 3}
  <1> DEFINE status == Lite!Status(cur, files)
             merged == Lite!Merged(cur, files)
             new == IF status = 0 \/ (status = 1 /\ merged = {}) THEN Lite!NoFile
                    ELSE IF status = 3 THEN tmps[cur]
                    ELSE [state |-> "valid", parts |-> merged]
  <1>1. status \in {0, 1, 3}
    BY DEF Lite!Status
  <1>2. /\ images' = [images EXCEPT ![cur] = @ \/ status = 0]
        /\ tmps' = [tmps EXCEPT ![cur] = new]
    BY DEF Lite!MakeImage
  <1>3. cur \in Lite!Images /\ PartsOf[cur] \subseteq AllParts
    BY LiteImages DEF LiteTypeOK
  <1>4. /\ merged \subseteq AllParts /\ files \intersect PartsOf[cur] \subseteq merged
        /\ tmps[cur].state = "valid" => /\ tmps[cur].parts \subseteq merged
                                        /\ merged # {}
    BY <1>3 DEF Lite!Merged, Lite!Written, LiteTypeOK, NoneEmpty
  <1>5. /\ new \in [state : {"none", "valid", "broken"}, parts : SUBSET AllParts]
        /\ new.state = "valid" => new.parts # {}
        /\ status = 1 => files \intersect PartsOf[cur] \subseteq new.parts
        /\ status # 0 /\ tmps[cur].state = "valid" =>
             new.state = "valid" /\ tmps[cur].parts \subseteq new.parts
    <2>1. CASE status = 0 \/ (status = 1 /\ merged = {})
      BY <1>4, <2>1 DEF Lite!NoFile
    <2>2. CASE status = 3
      BY <1>3, <2>2 DEF LiteTypeOK, NoneEmpty
    <2>3. CASE status = 1 /\ merged # {}
      BY <1>4, <2>3
    <2> QED BY <1>1, <2>1, <2>2, <2>3
  <1> HIDE DEF status, merged, new
  <1>6. images' \in [Lite!Images -> BOOLEAN]
    BY <1>2, <1>3 DEF LiteTypeOK
  <1>7. /\ \A i \in Lite!Images : images[i] => images'[i]
        /\ status = 0 => images'[cur]
    BY <1>2, <1>3 DEF LiteTypeOK
  <1>8. /\ tmps'[cur] = new
        /\ \A i \in Lite!Images : i # cur => tmps'[i] = tmps[i]
    BY <1>2, <1>3 DEF LiteTypeOK
  <1>9. tmps' \in [Lite!Images -> [state : {"none", "valid", "broken"},
                                   parts : SUBSET AllParts]]
    BY <1>2, <1>3, <1>5 DEF LiteTypeOK
  <1>10. NoneEmpty'
    BY <1>5, <1>8 DEF NoneEmpty
  <1>11. \A i \in Lite!Images : tmps[i].state = "valid" =>
           \/ images'[i]
           \/ tmps'[i].state = "valid" /\ tmps[i].parts \subseteq tmps'[i].parts
    BY <1>5, <1>7, <1>8
  <1>12. status < 3 =>
           \/ images'[cur]
           \/ files \intersect PartsOf[cur] \subseteq tmps'[cur].parts
    BY <1>1, <1>5, <1>7, <1>8
  <1> QED BY <1>1, <1>6, <1>7, <1>9, <1>10, <1>11, <1>12 DEF status

\* The end of the work on an image.
LEMMA LiteEnding ==
  ASSUME LiteUsable, cur \in Lite!Images,
         \/ Lite!Fail \/ Lite!NextImage("done")
  PROVE  cur' \in Lite!Images /\ place' \in {"template", "done", "aborted"}
  <1>1. PICK end \in {"done", "aborted"} : Lite!NextImage(end)
    BY DEF Lite!Fail
  <1> QED BY <1>1, LiteImages DEF Lite!NextImage

\* What no step of the script or of its user may do.
Losing ==
  \/ \E i \in Lite!Images : \E p \in dirs[i].parts \intersect PartsOf[i] :
       ~(p \in dirs'[i].parts \/ images'[i] \/ p \in tmps'[i].parts)
  \/ \E i \in Lite!Images : images[i] /\ ~images'[i]
  \/ \E i \in Lite!Images :
       /\ tmps[i].state = "valid" /\ ~images'[i] /\ place' # "killed"
       /\ ~(tmps'[i].state = "valid" /\ tmps[i].parts \subseteq tmps'[i].parts)

\* Steps that run make-image.
LEMMA LiteMakes ==
  ASSUME LiteUsable, LiteInv,
         Lite!Scan \/ Lite!MergeLeftover \/ Lite!MergeUris \/ Lite!Merge
  PROVE  LiteInv' /\ ~Losing
  <1>1. LiteTypeOK /\ NoneEmpty /\ CheckedBefore /\ cur \in Lite!Images
    BY DEF LiteInv, LiteTypeOK
  <1>2. templates' = templates /\ dirs' = dirs
    BY DEF Lite!Scan, Lite!MergeLeftover, Lite!MergeUris, Lite!Merge
  <1>3. /\ place \in {"scan", "left", "uris", "merge"}
        /\ \/ /\ cur' \in Lite!Images
              /\ place' \in {"template", "done", "aborted"}
           \/ cur' = cur /\ place' \in {"left", "scan", "uris", "pass", "remove"}
    <2>1. CASE Lite!Scan
      BY <1>1, <2>1, LiteEnding DEF Lite!Scan
    <2>2. CASE Lite!MergeLeftover
      BY <2>2 DEF Lite!MergeLeftover
    <2>3. CASE Lite!MergeUris
      BY <1>1, <2>3, LiteEnding DEF Lite!MergeUris
    <2>4. CASE Lite!Merge
      BY <1>1, <2>4, LiteEnding DEF Lite!Merge
    <2> QED BY <2>1, <2>2, <2>3, <2>4
  <1>4. /\ images' \in [Lite!Images -> BOOLEAN]
        /\ tmps' \in [Lite!Images -> [state : {"none", "valid", "broken"},
                                      parts : SUBSET AllParts]]
        /\ NoneEmpty'
        /\ \A i \in Lite!Images : images[i] => images'[i]
        /\ \A i \in Lite!Images : tmps[i].state = "valid" =>
             \/ images'[i]
             \/ tmps'[i].state = "valid" /\ tmps[i].parts \subseteq tmps'[i].parts
    <2>1. CASE images' = images /\ tmps' = tmps
      BY <1>1, <2>1 DEF LiteTypeOK, NoneEmpty
    <2>2. CASE \E files : Lite!MakeImage(cur, files)
      BY <1>1, <2>2, LiteMakeImage
    <2>3. \/ images' = images /\ tmps' = tmps
          \/ \E files : Lite!MakeImage(cur, files)
      <3>1. CASE Lite!Scan
        BY <3>1 DEF Lite!Scan
      <3>2. CASE Lite!MergeLeftover
        BY <3>2 DEF Lite!MergeLeftover
      <3>3. CASE Lite!MergeUris
        BY <3>3 DEF Lite!MergeUris
      <3>4. CASE Lite!Merge
        BY <3>4 DEF Lite!Merge
      <3> QED BY <3>1, <3>2, <3>3, <3>4
    <2> QED BY <2>1, <2>2, <2>3
  <1>5. place' = "remove" =>
          \/ images'[cur]
          \/ dirs[cur].parts \intersect PartsOf[cur] \subseteq tmps'[cur].parts
    <2> SUFFICES ASSUME place' = "remove"
                 PROVE  \/ images'[cur]
                        \/ dirs[cur].parts \intersect PartsOf[cur]
                             \subseteq tmps'[cur].parts
      OBVIOUS
    <2>1. Lite!Merge
      BY <1>1, LiteEnding
      DEF Lite!Scan, Lite!MergeLeftover, Lite!MergeUris, Lite!Merge
    <2>2. /\ Lite!MakeImage(cur, dirs[cur].parts)
          /\ ~(Lite!Status(cur, dirs[cur].parts) >= 3)
      BY <1>1, <2>1, LiteEnding DEF Lite!Merge
    <2>3. Lite!Status(cur, dirs[cur].parts) \in {0, 1, 3}
      BY DEF Lite!Status
    <2>4. Lite!Status(cur, dirs[cur].parts) < 3
      BY <2>2, <2>3
    <2> QED BY <1>1, <2>2, <2>4, LiteMakeImage
  <1>6. LiteTypeOK' /\ CheckedBefore' /\ DirsOK'
    BY <1>1, <1>2, <1>3, <1>4 DEF LiteInv, LiteTypeOK, CheckedBefore, DirsOK
  <1>7. Removable'
    BY <1>2, <1>3, <1>5 DEF Removable
  <1>8. ~Losing
    BY <1>2, <1>4 DEF Losing
  <1> QED BY <1>4, <1>6, <1>7, <1>8 DEF LiteInv

\* Steps that touch neither image nor image.tmp nor the directory.
LEMMA LiteWalks ==
  ASSUME LiteUsable, LiteInv,
         \/ Lite!FetchJigdo \/ Lite!FetchTemplate \/ Lite!NoScan \/ Lite!Pass
         \/ Lite!PassEnd \/ Lite!GiveUp \/ Lite!Finished \/ Lite!Retry
         \/ Lite!Restart
         \/ \E i \in Lite!Images : Lite!Menu(i)
         \/ UNCHANGED Lite!vars
  PROVE  LiteInv' /\ ~Losing
  <1>1. LiteTypeOK /\ NoneEmpty /\ CheckedBefore /\ Removable
        /\ cur \in Lite!Images
    BY DEF LiteInv, LiteTypeOK
  <1>2. images' = images /\ tmps' = tmps /\ dirs' = dirs
    BY DEF Lite!FetchJigdo, Lite!FetchTemplate, Lite!NoScan, Lite!Pass,
       Lite!PassEnd, Lite!GiveUp, Lite!Finished, Lite!Retry, Lite!Restart,
       Lite!Menu, Lite!vars, Lite!disk
  <1>3. NoneEmpty' /\ DirsOK' /\ ~Losing
    BY <1>1, <1>2 DEF LiteInv, NoneEmpty, DirsOK, Losing
  <1>4. CASE Lite!FetchTemplate
    <2>1. PICK t \in {"none", "cut", "right"} :
            templates' = [templates EXCEPT ![cur] = t]
      BY <1>1, <1>4 DEF Lite!FetchTemplate, Lite!GivesUp, LiteTypeOK
    <2>2. templates' \in [Lite!Images -> {"none", "cut", "right"}]
      BY <1>1, <2>1 DEF LiteTypeOK
    <2>3. \/ place' = "scan" /\ cur' = cur /\ templates'[cur] = "right"
          \/ cur' \in Lite!Images /\ place' \in {"template", "done", "aborted"}
      BY <1>1, <1>4, LiteEnding DEF Lite!FetchTemplate
    <2>4. LiteTypeOK' /\ CheckedBefore' /\ Removable'
      BY <1>1, <1>2, <2>2, <2>3 DEF LiteTypeOK, CheckedBefore, Removable
    <2> QED BY <1>3, <2>4 DEF LiteInv
  <1>5. CASE ~Lite!FetchTemplate
    <2>1. templates' = templates
      BY <1>5 DEF Lite!FetchJigdo, Lite!NoScan, Lite!Pass, Lite!PassEnd,
         Lite!GiveUp, Lite!Finished, Lite!Retry, Lite!Restart, Lite!Menu,
         Lite!vars, Lite!disk
    <2>2. \/ /\ cur' \in Lite!Images
             /\ place' \in {"template", "done", "aborted", "menu", "start"}
          \/ /\ cur' = cur
             /\ place \in {"scan", "left", "uris", "pass", "fetch", "prompt"}
             /\ place' \in {"left", "uris", "pass", "fetch", "prompt", "finished"}
          \/ cur' = cur /\ place' = place
      <3>1. CASE Lite!FetchJigdo \/ Lite!NoScan \/ Lite!Pass \/ Lite!PassEnd
                 \/ Lite!Retry \/ UNCHANGED Lite!vars
        BY <1>1, <3>1 DEF Lite!FetchJigdo, Lite!NoScan, Lite!Pass,
           Lite!PassEnd, Lite!Retry, Lite!vars, Lite!script
      <3>2. CASE Lite!GiveUp
        BY <1>1, <3>2, LiteEnding DEF Lite!GiveUp
      <3>3. CASE Lite!Finished
        BY <1>1, <3>3, LiteEnding DEF Lite!Finished
      <3>4. CASE Lite!Restart
        BY <3>4, LiteImages DEF Lite!Restart
      <3>5. CASE \E i \in Lite!Images : Lite!Menu(i)
        BY <3>5 DEF Lite!Menu
      <3> QED BY <1>5, <3>1, <3>2, <3>3, <3>4, <3>5
    <2>3. LiteTypeOK' /\ CheckedBefore' /\ Removable'
      BY <1>1, <1>2, <2>1, <2>2 DEF LiteTypeOK, CheckedBefore, Removable
    <2> QED BY <1>3, <2>3 DEF LiteInv
  <1> QED BY <1>4, <1>5

\* wget delivers some parts, and deletes none.
LEMMA LiteDelivers ==
  ASSUME LiteUsable, LiteTypeOK, DirsOK,
         NEW got \in SUBSET (Lite!Args \intersect (Good \union Flaky)),
         Lite!Deliver(got)
  PROVE  /\ dirs' \in [Lite!Images -> [state : {"none", "valid"},
                                       parts : SUBSET AllParts]]
         /\ DirsOK'
         /\ \A i \in Lite!Images : dirs[i].parts \subseteq dirs'[i].parts
  <1> DEFINE more == {u[1] : u \in got}
             new == IF dirs[cur].state = "none" /\ got = {} THEN Lite!NoFile
                    ELSE [state |-> "valid", parts |-> dirs[cur].parts \union more]
  <1>1. cur \in Lite!Images
    BY DEF LiteTypeOK
  <1>2. more \subseteq AllParts
    <2>1. got \subseteq AllParts \X (Nat \ {0})
      BY DEF LiteUsable, Lite!LiteAssumption
    <2>2. \A u \in got : u[1] \in AllParts
      BY <2>1
    <2> QED BY <2>2
  <1>3. dirs' = [dirs EXCEPT ![cur] = new]
    BY DEF Lite!Deliver
  <1> HIDE DEF more
  <1>4. /\ new \in [state : {"none", "valid"}, parts : SUBSET AllParts]
        /\ dirs[cur].parts \subseteq new.parts
        /\ new.state = "none" => new.parts = {}
    BY <1>1, <1>2 DEF LiteTypeOK, Lite!NoFile, DirsOK
  <1> HIDE DEF new
  <1>5. /\ dirs'[cur] = new
        /\ \A i \in Lite!Images : i # cur => dirs'[i] = dirs[i]
    BY <1>1, <1>3 DEF LiteTypeOK
  <1>6. dirs' \in [Lite!Images -> [state : {"none", "valid"},
                                   parts : SUBSET AllParts]]
    BY <1>1, <1>3, <1>4 DEF LiteTypeOK
  <1> QED BY <1>4, <1>5, <1>6 DEF DirsOK

\* A call of wget for parts.
LEMMA LiteFetch ==
  ASSUME LiteUsable, LiteInv, NEW got \in Lite!Deliverable, Lite!Fetch(got)
  PROVE  LiteInv' /\ ~Losing
  <1>1. /\ LiteTypeOK /\ DirsOK /\ place = "fetch" /\ place' = "merge"
        /\ cur' = cur /\ images' = images /\ tmps' = tmps
        /\ templates' = templates /\ Lite!Deliver(got)
    BY DEF LiteInv, Lite!Fetch
  <1>2. got \in SUBSET (Lite!Args \intersect (Good \union Flaky))
    BY DEF Lite!Deliverable
  <1>3. /\ dirs' \in [Lite!Images -> [state : {"none", "valid"},
                                      parts : SUBSET AllParts]]
        /\ DirsOK'
        /\ \A i \in Lite!Images : dirs[i].parts \subseteq dirs'[i].parts
    BY <1>1, <1>2, LiteDelivers
  <1>4. LiteTypeOK' /\ NoneEmpty' /\ CheckedBefore' /\ Removable'
    BY <1>1, <1>3 DEF LiteInv, LiteTypeOK, NoneEmpty, CheckedBefore, Removable
  <1>5. ~Losing
    BY <1>1, <1>3 DEF Losing
  <1> QED BY <1>3, <1>4, <1>5 DEF LiteInv

\* The directory is removed.
LEMMA LiteRemove ==
  ASSUME LiteUsable, LiteInv, Lite!RemoveDir
  PROVE  LiteInv' /\ ~Losing
  <1>1. /\ LiteTypeOK /\ DirsOK /\ place = "remove" /\ place' = "fetch"
        /\ cur \in Lite!Images
        /\ cur' = cur /\ images' = images /\ tmps' = tmps
        /\ templates' = templates
        /\ dirs' = [dirs EXCEPT ![cur] = Lite!NoFile]
    BY DEF LiteInv, LiteTypeOK, Lite!RemoveDir
  <1>2. /\ dirs'[cur].parts = {}
        /\ \A i \in Lite!Images : i # cur => dirs'[i] = dirs[i]
    BY <1>1 DEF LiteTypeOK, Lite!NoFile
  <1>3. dirs' \in [Lite!Images -> [state : {"none", "valid"},
                                   parts : SUBSET AllParts]]
    <2>1. Lite!NoFile \in [state : {"none", "valid"}, parts : SUBSET AllParts]
      BY DEF Lite!NoFile
    <2> QED BY <1>1, <2>1 DEF LiteTypeOK
  <1>4. /\ LiteTypeOK' /\ NoneEmpty' /\ DirsOK' /\ CheckedBefore'
        /\ Removable'
    BY <1>1, <1>2, <1>3
    DEF LiteInv, LiteTypeOK, NoneEmpty, DirsOK, CheckedBefore, Removable
  <1>5. \A p \in dirs[cur].parts \intersect PartsOf[cur] :
          images[cur] \/ p \in tmps[cur].parts
    BY <1>1 DEF LiteInv, Removable
  <1>6. ~Losing
    BY <1>1, <1>2, <1>5 DEF Losing
  <1> QED BY <1>4, <1>6 DEF LiteInv

\* Ctrl-C, whatever the script is doing.
LEMMA LiteKill ==
  ASSUME LiteUsable, LiteInv, Lite!Kill
  PROVE  LiteInv' /\ ~Losing
  <1> DEFINE broken == [state |-> "broken", parts |-> {}]
  <1>1. /\ LiteTypeOK /\ NoneEmpty /\ DirsOK /\ Removable
        /\ cur \in Lite!Images /\ place' = "killed"
        /\ cur' = cur /\ images' = images
    BY DEF LiteInv, LiteTypeOK, Lite!Kill
  <1>2. tmps' = tmps \/ (place # "remove" /\ tmps' = [tmps EXCEPT ![cur] = broken])
    <2>1. ASSUME NEW files, Lite!MakeImageKilled(cur, files)
          PROVE  tmps' = tmps \/ tmps' = [tmps EXCEPT ![cur] = broken]
      BY <2>1 DEF Lite!MakeImageKilled
    <2>2. CASE place \in {"scan", "left", "uris", "merge"}
      <3>1. \E files : Lite!MakeImageKilled(cur, files)
        BY <2>2 DEF Lite!Kill
      <3> QED BY <2>1, <2>2, <3>1
    <2>3. CASE place \notin {"scan", "left", "uris", "merge"}
      BY <2>3 DEF Lite!Kill
    <2> QED BY <2>2, <2>3
  <1>3. /\ tmps' \in [Lite!Images -> [state : {"none", "valid", "broken"},
                                      parts : SUBSET AllParts]]
        /\ NoneEmpty'
    <2>1. CASE tmps' = tmps
      BY <1>1, <2>1 DEF LiteTypeOK, NoneEmpty
    <2>2. CASE tmps' = [tmps EXCEPT ![cur] = broken]
      <3>1. /\ tmps'[cur] = broken
            /\ \A i \in Lite!Images : i # cur => tmps'[i] = tmps[i]
        BY <1>1, <2>2 DEF LiteTypeOK
      <3>2. tmps' \in [Lite!Images -> [state : {"none", "valid", "broken"},
                                       parts : SUBSET AllParts]]
        BY <1>1, <2>2 DEF LiteTypeOK
      <3> QED BY <1>1, <3>1, <3>2 DEF NoneEmpty
    <2> QED BY <1>2, <2>1, <2>2
  <1>4. templates' \in [Lite!Images -> {"none", "cut", "right"}]
    <2>1. \/ templates' = templates
          \/ templates' = [templates EXCEPT ![cur] = "cut"]
      BY DEF Lite!Kill
    <2> QED BY <1>1, <2>1 DEF LiteTypeOK
  <1>5. /\ dirs' \in [Lite!Images -> [state : {"none", "valid"},
                                      parts : SUBSET AllParts]]
        /\ DirsOK'
        /\ \/ \A i \in Lite!Images : dirs[i].parts \subseteq dirs'[i].parts
           \/ /\ place = "remove"
              /\ \A i \in Lite!Images : i # cur => dirs'[i] = dirs[i]
    <2>1. CASE place = "fetch" /\ todo # << >>
      <3>1. PICK got \in SUBSET (Lite!Args \intersect (Good \union Flaky)) :
              Lite!Deliver(got)
        BY <2>1 DEF Lite!Kill
      <3> QED BY <1>1, <3>1, LiteDelivers
    <2>2. CASE ~(place = "fetch" /\ todo # << >>)
      <3>1. \/ dirs' = dirs
            \/ place = "remove" /\ dirs' = [dirs EXCEPT ![cur].parts = {}]
        BY <2>2 DEF Lite!Kill
      <3>2. CASE dirs' = dirs
        BY <1>1, <3>2 DEF LiteTypeOK, DirsOK
      <3>3. CASE place = "remove" /\ dirs' = [dirs EXCEPT ![cur].parts = {}]
        <4>1. /\ dirs'[cur].parts = {}
              /\ \A i \in Lite!Images : i # cur => dirs'[i] = dirs[i]
              /\ dirs' \in [Lite!Images -> [state : {"none", "valid"},
                                            parts : SUBSET AllParts]]
          BY <1>1, <3>3 DEF LiteTypeOK
        <4> QED BY <1>1, <3>3, <4>1 DEF DirsOK
      <3> QED BY <3>1, <3>2, <3>3
    <2> QED BY <2>1, <2>2
  <1>6. LiteTypeOK' /\ CheckedBefore' /\ Removable'
    BY <1>1, <1>3, <1>4, <1>5 DEF LiteTypeOK, CheckedBefore, Removable
  <1>7. \A i \in Lite!Images : \A p \in dirs[i].parts \intersect PartsOf[i] :
          p \in dirs'[i].parts \/ images'[i] \/ p \in tmps'[i].parts
    <2>1. CASE \A i \in Lite!Images : dirs[i].parts \subseteq dirs'[i].parts
      BY <2>1
    <2>2. CASE /\ place = "remove"
               /\ \A i \in Lite!Images : i # cur => dirs'[i] = dirs[i]
      BY <1>1, <1>2, <2>2 DEF Removable
    <2> QED BY <1>5, <2>1, <2>2
  <1>8. ~Losing
    BY <1>1, <1>7 DEF Losing
  <1> QED BY <1>3, <1>5, <1>6, <1>8 DEF LiteInv

\* The invariant holds, and no step loses anything.
LEMMA LiteNext ==
  ASSUME LiteUsable, LiteInv, [Lite!Next]_(Lite!vars)
  PROVE  LiteInv' /\ ~Losing
  <1>1. CASE Lite!Script
    <2>1. CASE \E got \in Lite!Deliverable : Lite!Fetch(got)
      BY <2>1, LiteFetch
    <2> QED BY <1>1, <2>1, LiteMakes, LiteWalks, LiteRemove DEF Lite!Script
  <1>2. CASE Lite!Kill
    BY <1>2, LiteKill
  <1> QED BY <1>1, <1>2, LiteWalks DEF Lite!Next

LEMMA LiteInit ==
  ASSUME LiteUsable, Lite!Init
  PROVE  LiteInv
  <1>1. /\ templates = [i \in Lite!Images |-> "none"]
        /\ images = [i \in Lite!Images |-> FALSE]
        /\ tmps = [i \in Lite!Images |-> Lite!NoFile]
        /\ dirs = [i \in Lite!Images |-> Lite!NoFile]
        /\ place = "start" /\ cur = 1
    BY DEF Lite!Init, Lite!Begin
  <1>2. Lite!NoFile.state = "none" /\ Lite!NoFile.parts = {}
    BY DEF Lite!NoFile
  <1>3. LiteTypeOK
    BY <1>1, LiteImages DEF LiteTypeOK, Lite!NoFile
  <1>4. NoneEmpty /\ DirsOK
    BY <1>1, <1>2 DEF NoneEmpty, DirsOK
  <1> QED BY <1>1, <1>3, <1>4 DEF LiteInv, CheckedBefore, Removable

LEMMA LiteInvariance ==
  ASSUME LiteUsable
  PROVE  Lite!Spec => []LiteInv
  <1>1. Lite!Init => LiteInv
    BY LiteInit
  <1>2. LiteInv /\ [Lite!Next]_(Lite!vars) => LiteInv'
    BY LiteNext
  <1> QED BY <1>1, <1>2, PTL DEF Lite!Spec

\* make-image is run only with a template whose checksum was verified by this
\* run of the script (fetchTemplate() of jigdo-lite), whatever was left of
\* interrupted downloads.
THEOREM TemplateIsChecked ==
  ASSUME LiteUsable
  PROVE  Lite!Spec => []Lite!TemplateChecked
  <1>1. LiteInv => Lite!TemplateChecked
    BY DEF LiteInv, CheckedBefore, Lite!TemplateChecked
  <1> QED BY <1>1, LiteInvariance, PTL

\* A part that jigdo-lite has downloaded is deleted only when it is in the
\* image or in image.tmp (fetchAndMerge()), whatever the status of make-image,
\* also in batch mode, and wherever the user presses Ctrl-C.
THEOREM DownloadsAreKept ==
  ASSUME LiteUsable
  PROVE  Lite!Spec => [][Lite!FilesKept]_(Lite!vars)
  <1>1. LiteInv /\ [Lite!Next]_(Lite!vars) => [Lite!FilesKept]_(Lite!vars)
    BY LiteNext DEF Losing, Lite!FilesKept
  <1> QED BY <1>1, LiteInvariance, PTL DEF Lite!Spec

\* No image disappears, and image.tmp loses nothing that is in it, unless the
\* script is interrupted while make-image writes it.
THEOREM ImageWorkIsKept ==
  ASSUME LiteUsable
  PROVE  Lite!Spec => [][Lite!WorkKept]_(Lite!vars)
  <1>1. LiteInv /\ [Lite!Next]_(Lite!vars) => [Lite!WorkKept]_(Lite!vars)
    BY LiteNext DEF Losing, Lite!WorkKept
  <1> QED BY <1>1, LiteInvariance, PTL DEF Lite!Spec

-----------------------------------------------------------------------------
(* jigdo-lite tries every URL before it asks *)

\* The cardinality that JigdoLite speaks of.
LEMMA LiteCardinality ==
  ASSUME NEW S
  PROVE  Lite!Cardinality(S) = Cardinality(S)
  BY DEF Lite!Cardinality, Cardinality

\* A set that is made a sequence is all in it.
LEMMA LiteSetToSeq ==
  ASSUME NEW S, IsFiniteSet(S)
  PROVE  /\ Lite!SetToSeq(S) \in Seq(S)
         /\ \A x \in S : \E k \in 1..Len(Lite!SetToSeq(S)) :
              Lite!SetToSeq(S)[k] = x
  <1> DEFINE n == Cardinality(S)
             s == Lite!SetToSeq(S)
  <1>1. n \in Nat /\ ExistsBijection(1..n, S)
    BY FS_CardinalityType
  <1>2. PICK g \in Bijection(1..n, S) : TRUE
    BY <1>1 DEF ExistsBijection
  <1>3. g \in [1..n -> S] /\ Lite!IsInjective(g)
    BY <1>2 DEF Bijection, Injection, IsInjective, Lite!IsInjective
  <1>4. Lite!SetToSeq(S) = CHOOSE f \in [1..n -> S] : Lite!IsInjective(f)
    BY LiteCardinality DEF Lite!SetToSeq
  <1>5. s \in [1..n -> S] /\ Lite!IsInjective(s)
    BY <1>3, <1>4
  <1> HIDE DEF s, n
  <1>6. s \in Seq(S) /\ Len(s) = n
    BY <1>1, <1>5
  <1>7. s \in Injection(1..n, S)
    BY <1>5 DEF Injection, IsInjective, Lite!IsInjective
  <1>8. s \in Surjection(1..n, S)
    <2>1. Cardinality(1..n) = n
      BY <1>1, FS_Interval
    <2> QED BY <1>7, <2>1, FS_Injection DEF n
  <1>9. \A x \in S : \E k \in 1..n : s[k] = x
    BY <1>8 DEF Surjection
  <1> QED BY <1>6, <1>9 DEF s

\* The URLs of a call of wget are the first of those that are left.
LEMMA LiteArgs ==
  ASSUME LiteUsable, NEW X, todo \in Seq(X)
  PROVE  /\ Lite!Args \subseteq X
         /\ Cardinality(Lite!Args) \in 0..Len(todo)
         /\ \A k \in 1..Cardinality(Lite!Args) : todo[k] \in Lite!Args
  <1> DEFINE m == IF FilesPerFetch < Len(todo) THEN FilesPerFetch ELSE Len(todo)
             s == SubSeq(todo, 1, m)
             A == Lite!Args
  <1>1. FilesPerFetch \in Nat /\ Len(todo) \in Nat
    BY DEF LiteUsable, Lite!LiteAssumption
  <1>2. m \in 0..Len(todo)
    BY <1>1
  <1>3. A = Lite!Range(s)
    BY DEF Lite!Args
  <1> HIDE DEF m, A
  <1>4. /\ s \in Seq(X) /\ Len(s) = m
        /\ \A k \in 1..m : s[k] = todo[k]
    BY <1>1, <1>2
  <1> HIDE DEF s
  <1>5. s \in [1..m -> X] /\ DOMAIN s = 1..m
    BY <1>4
  <1>6. A = {s[k] : k \in 1..m}
    BY <1>3, <1>5 DEF Lite!Range
  <1>7. \A k \in 1..m : todo[k] \in A
    BY <1>4, <1>6
  <1>8. s \in Surjection(1..m, A)
    BY <1>5, <1>6 DEF Surjection
  <1>9. m \in Nat
    BY <1>1, <1>2
  <1>10. IsFiniteSet(1..m)
    BY <1>9, FS_Interval
  <1>11. IsFiniteSet(A)
    BY <1>8, <1>10, FS_Surjection
  <1>12. Cardinality(A) \in Nat
    BY <1>11, FS_CardinalityType
  <1>13. Cardinality(A) <= m
    BY <1>8, <1>9, FS_SurjCardinalityBound DEF ExistsSurjection
  <1>14. A \subseteq X
    BY <1>5, <1>6
  <1>15. Cardinality(A) \in 0..Len(todo)
    BY <1>1, <1>2, <1>12, <1>13
  <1>16. \A k \in 1..Cardinality(A) : todo[k] \in A
    BY <1>7, <1>9, <1>12, <1>13
  <1> QED BY <1>14, <1>15, <1>16 DEF A

\* Each URL up to a number that is listed for a missing part was tried.
TriedUpTo(k) ==
  \A p \in Lite!Missing(cur) : \A n \in 1..k :
    n <= Lite!UrlCount(p) => <<p, n>> \in tried

\* For a missing part the URL of this pass was tried or is still to be; and
\* when no more passes are to come, it has none.
ThisPass ==
  \A p \in Lite!Missing(cur) :
    /\ pass <= Lite!UrlCount(p) =>
         \/ <<p, pass>> \in tried
         \/ \E k \in 1..Len(todo) : todo[k] = <<p, pass>>
    /\ noMorePasses => Lite!UrlCount(p) < pass

TriedInv ==
  /\ todo \in Seq(AllParts \X Nat)
  /\ place \in {"pass", "fetch", "merge", "remove"} =>
       pass \in 1..Passes /\ TriedUpTo(pass - 1)
  /\ place \in {"fetch", "merge", "remove"} => ThisPass
  /\ place = "prompt" => Lite!AllTried

\* make-image needs no part that it did not need before.
LEMMA LiteMissing ==
  ASSUME LiteUsable, LiteInv, NEW files, Lite!MakeImage(cur, files)
  PROVE  \A p : p \in Lite!Missing(cur)' /\ cur' = cur => p \in Lite!Missing(cur)
  <1>1. LiteTypeOK /\ NoneEmpty /\ cur \in Lite!Images
    BY DEF LiteInv, LiteTypeOK
  <1>2. /\ images' \in [Lite!Images -> BOOLEAN]
        /\ images[cur] => images'[cur]
        /\ tmps[cur].state = "valid" =>
             \/ images'[cur]
             \/ tmps'[cur].state = "valid" /\ tmps[cur].parts \subseteq tmps'[cur].parts
    BY <1>1, LiteMakeImage
  <1> SUFFICES ASSUME NEW p, p \in Lite!Missing(cur)', cur' = cur
               PROVE  p \in Lite!Missing(cur)
    OBVIOUS
  <1>3. ~images'[cur] /\ p \in PartsOf[cur]
    BY DEF Lite!Missing
  <1>4. tmps'[cur].state = "valid" => p \notin tmps'[cur].parts
    BY DEF Lite!Missing, Lite!Written
  <1>5. tmps[cur].state = "valid" => p \notin tmps[cur].parts
    BY <1>2, <1>3, <1>4
  <1> QED BY <1>2, <1>3, <1>5 DEF Lite!Missing, Lite!Written

\* What is missing is a part, and the number of its URLs is a number.
LEMMA LiteCounts ==
  ASSUME LiteUsable, LiteInv, NEW p \in Lite!Missing(cur)
  PROVE  p \in AllParts /\ Lite!UrlCount(p) \in Nat
  <1>1. p \in PartsOf[cur] /\ cur \in Lite!Images
    BY DEF Lite!Missing, LiteInv, LiteTypeOK
  <1>2. p \in AllParts
    BY <1>1, LiteImages
  <1> QED BY <1>2 DEF Lite!UrlCount, LiteUsable, Lite!LiteAssumption

\* Steps after which the script is not within a pass, and does not ask.
LEMMA TriedElsewhere ==
  ASSUME TriedInv, todo' = todo \/ todo' = << >>,
         place' \notin {"pass", "fetch", "merge", "remove", "prompt"}
  PROVE  TriedInv'
  <1>1. << >> \in Seq(AllParts \X Nat)
    OBVIOUS
  <1> QED BY <1>1 DEF TriedInv

\* A step within a pass, by which nothing becomes missing.
LEMMA TriedSame ==
  ASSUME LiteUsable, LiteInv, TriedInv,
         UNCHANGED <<jigdoFile, pass, noMorePasses, tried, todo, cur>>,
         place' \in {"fetch", "merge", "remove"},
         place \in {"fetch", "merge", "remove"},
         \A p : p \in Lite!Missing(cur)' => p \in Lite!Missing(cur)
  PROVE  TriedInv'
  <1>1. \A p : Lite!UrlCount(p)' = Lite!UrlCount(p)
    BY DEF Lite!UrlCount
  <1>2. pass \in 1..Passes /\ TriedUpTo(pass - 1) /\ ThisPass
    BY DEF TriedInv
  <1>3. TriedUpTo(pass - 1)'
    BY <1>1, <1>2 DEF TriedUpTo
  <1>4. ThisPass'
    BY <1>1, <1>2 DEF ThisPass
  <1> QED BY <1>2, <1>3, <1>4 DEF TriedInv

\* make-image runs.
LEMMA TriedMakes ==
  ASSUME LiteUsable, LiteInv, TriedInv,
         Lite!Scan \/ Lite!MergeLeftover \/ Lite!MergeUris \/ Lite!Merge
  PROVE  TriedInv'
  <1>1. cur \in Lite!Images
    BY DEF LiteInv, LiteTypeOK
  <1>2. todo' = todo
    BY DEF Lite!Scan, Lite!MergeLeftover, Lite!MergeUris, Lite!Merge
  <1>3. CASE place' \notin {"pass", "remove"}
    <2>1. place' \in {"template", "done", "aborted", "left", "scan", "uris"}
      BY <1>1, <1>3, LiteEnding
      DEF Lite!Scan, Lite!MergeLeftover, Lite!MergeUris, Lite!Merge
    <2> QED BY <1>2, <2>1, TriedElsewhere
  <1>4. CASE place' = "pass"
    <2>1. Lite!MergeUris
      BY <1>1, <1>4, LiteEnding
      DEF Lite!Scan, Lite!MergeLeftover, Lite!MergeUris, Lite!Merge
    <2>2. pass' = 1
      BY <2>1 DEF Lite!MergeUris
    <2>3. 1 \in 1..Passes
      BY DEF LiteUsable, Lite!LiteAssumption
    <2>4. TriedUpTo(pass - 1)'
      BY <2>2 DEF TriedUpTo
    <2> QED BY <1>2, <1>4, <2>2, <2>3, <2>4 DEF TriedInv
  <1>5. CASE place' = "remove"
    <2>1. Lite!Merge
      BY <1>1, <1>5, LiteEnding
      DEF Lite!Scan, Lite!MergeLeftover, Lite!MergeUris, Lite!Merge
    <2>2. /\ Lite!MakeImage(cur, dirs[cur].parts) /\ place = "merge"
          /\ UNCHANGED <<jigdoFile, pass, noMorePasses, tried>>
          /\ cur' = cur
      BY <1>1, <1>5, <2>1, LiteEnding DEF Lite!Merge
    <2>3. \A p : p \in Lite!Missing(cur)' => p \in Lite!Missing(cur)
      BY <2>2, LiteMissing
    <2> QED BY <1>2, <1>5, <2>2, <2>3, TriedSame
  <1> QED BY <1>3, <1>4, <1>5

\* A pass begins: the URLs of this number are listed.
LEMMA TriedPass ==
  ASSUME LiteUsable, IsFiniteSet(AllParts), LiteInv, TriedInv, Lite!Pass
  PROVE  TriedInv'
  <1> DEFINE L == Lite!Listed(cur, pass)
             S == L \X {pass}
  <1>1. /\ place = "pass" /\ place' = "fetch"
        /\ todo' = Lite!SetToSeq(S)
        /\ noMorePasses' = (noMorePasses /\ todo' = << >>)
        /\ UNCHANGED <<jigdoFile, images, tmps, cur, pass, tried>>
    BY DEF Lite!Pass, Lite!disk
  <1>2. pass \in 1..Passes /\ pass \in Nat /\ TriedUpTo(pass - 1)
    BY <1>1 DEF TriedInv, LiteUsable, Lite!LiteAssumption
  <1>3. /\ \A p : Lite!UrlCount(p)' = Lite!UrlCount(p)
        /\ Lite!Missing(cur)' = Lite!Missing(cur)
    BY <1>1 DEF Lite!UrlCount, Lite!Missing, Lite!Written
  <1>4. L \subseteq AllParts
    BY LiteCounts DEF Lite!Listed
  <1>5. IsFiniteSet(L)
    BY <1>4, FS_Subset
  <1>6. IsFiniteSet(S)
    BY <1>5, FS_Singleton, FS_Product
  <1>7. /\ todo' \in Seq(S)
        /\ \A x \in S : \E k \in 1..Len(todo') : todo'[k] = x
    BY <1>1, <1>6, LiteSetToSeq
  <1>8. \A p \in Lite!Missing(cur) : pass <= Lite!UrlCount(p) => <<p, pass>> \in S
    BY <1>2, LiteCounts DEF Lite!Listed
  <1>9. S \subseteq AllParts \X Nat
    BY <1>2, <1>4
  <1> HIDE DEF S, L
  <1>10. todo' \in Seq(AllParts \X Nat)
    BY <1>7, <1>9
  <1>11. TriedUpTo(pass - 1)'
    BY <1>1, <1>2, <1>3 DEF TriedUpTo
  <1>12. ThisPass'
    <2> SUFFICES ASSUME NEW p \in Lite!Missing(cur)
                 PROVE  /\ pass <= Lite!UrlCount(p) =>
                             \E k \in 1..Len(todo') : todo'[k] = <<p, pass>>
                        /\ noMorePasses' => Lite!UrlCount(p) < pass
      BY <1>1, <1>3 DEF ThisPass
    <2>1. pass <= Lite!UrlCount(p) =>
            \E k \in 1..Len(todo') : todo'[k] = <<p, pass>>
      BY <1>7, <1>8
    <2>2. noMorePasses' => Len(todo') = 0
      BY <1>1
    <2>3. noMorePasses' => ~(pass <= Lite!UrlCount(p))
      BY <2>1, <2>2
    <2> QED BY <1>2, <2>1, <2>3, LiteCounts
  <1> QED BY <1>1, <1>2, <1>10, <1>11, <1>12 DEF TriedInv

\* wget is called for some of them.
LEMMA TriedFetch ==
  ASSUME LiteUsable, LiteInv, TriedInv, NEW got \in Lite!Deliverable,
         Lite!Fetch(got)
  PROVE  TriedInv'
  <1> DEFINE c == Cardinality(Lite!Args)
  <1>1. /\ place = "fetch" /\ place' = "merge"
        /\ tried' = tried \union Lite!Args
        /\ todo' = SubSeq(todo, c + 1, Len(todo))
        /\ UNCHANGED <<jigdoFile, images, tmps, cur, pass, noMorePasses>>
    BY LiteCardinality DEF Lite!Fetch
  <1>2. /\ c \in 0..Len(todo) /\ Len(todo) \in Nat
        /\ \A k \in 1..c : todo[k] \in Lite!Args
        /\ todo \in Seq(AllParts \X Nat)
    BY LiteArgs DEF TriedInv
  <1>3. /\ \A p : Lite!UrlCount(p)' = Lite!UrlCount(p)
        /\ Lite!Missing(cur)' = Lite!Missing(cur)
    BY <1>1 DEF Lite!UrlCount, Lite!Missing, Lite!Written
  <1>4. pass \in 1..Passes /\ TriedUpTo(pass - 1) /\ ThisPass
    BY <1>1 DEF TriedInv
  <1> HIDE DEF c
  <1>5. /\ todo' \in Seq(AllParts \X Nat)
        /\ Len(todo') = Len(todo) - c
        /\ \A k \in 1..(Len(todo) - c) : todo'[k] = todo[k + c]
    BY <1>1, <1>2
  <1>6. TriedUpTo(pass - 1)'
    BY <1>1, <1>3, <1>4 DEF TriedUpTo
  <1>7. ThisPass'
    <2> SUFFICES ASSUME NEW p \in Lite!Missing(cur)
                 PROVE  /\ pass <= Lite!UrlCount(p) =>
                             \/ <<p, pass>> \in tried'
                             \/ \E k \in 1..Len(todo') : todo'[k] = <<p, pass>>
                        /\ noMorePasses => Lite!UrlCount(p) < pass
      BY <1>1, <1>3 DEF ThisPass
    <2>1. ASSUME NEW k \in 1..Len(todo), todo[k] = <<p, pass>>
          PROVE  \/ <<p, pass>> \in tried'
                 \/ \E j \in 1..Len(todo') : todo'[j] = <<p, pass>>
      <3>1. CASE k <= c
        <4>1. k \in 1..c
          BY <1>2, <3>1
        <4>2. todo[k] \in Lite!Args
          BY <1>2, <4>1
        <4> QED BY <1>1, <2>1, <4>2
      <3>2. CASE k > c
        <4>1. k - c \in 1..(Len(todo) - c) /\ (k - c) + c = k
          BY <1>2, <3>2
        <4> QED BY <1>5, <2>1, <4>1
      <3> QED BY <1>2, <3>1, <3>2
    <2> QED BY <1>1, <1>4, <2>1 DEF ThisPass
  <1> QED BY <1>1, <1>4, <1>5, <1>6, <1>7 DEF TriedInv

\* A pass is over.
LEMMA TriedPassEnd ==
  ASSUME LiteUsable, LiteInv, TriedInv, Lite!PassEnd
  PROVE  TriedInv'
  <1>1. /\ place = "fetch" /\ todo = << >> /\ todo' = todo
        /\ UNCHANGED <<jigdoFile, images, tmps, cur, tried>>
        /\ \/ /\ place' \in {"finished", "prompt"} /\ pass' = pass
              /\ place' = "prompt" => noMorePasses \/ pass = Passes
           \/ place' = "pass" /\ pass' = pass + 1 /\ pass # Passes
    BY DEF Lite!PassEnd, Lite!disk
  <1>2. /\ pass \in 1..Passes /\ pass \in Nat /\ Passes \in Nat
        /\ TriedUpTo(pass - 1) /\ ThisPass /\ todo \in Seq(AllParts \X Nat)
    BY <1>1 DEF TriedInv, LiteUsable, Lite!LiteAssumption
  <1>3. /\ \A p : Lite!UrlCount(p)' = Lite!UrlCount(p)
        /\ Lite!Missing(cur)' = Lite!Missing(cur)
    BY <1>1 DEF Lite!UrlCount, Lite!Missing, Lite!Written
  <1>4. TriedUpTo(pass)
    <2> SUFFICES ASSUME NEW p \in Lite!Missing(cur), NEW n \in 1..pass,
                        n <= Lite!UrlCount(p)
                 PROVE  <<p, n>> \in tried
      BY DEF TriedUpTo
    <2>1. CASE n = pass
      <3>1. Len(todo) = 0
        BY <1>1
      <3> QED BY <1>2, <2>1, <3>1 DEF ThisPass
    <2>2. CASE n # pass
      <3>1. n \in 1..(pass - 1)
        BY <1>2, <2>2
      <3> QED BY <1>2, <3>1 DEF TriedUpTo
    <2> QED BY <2>1, <2>2
  <1>5. CASE place' = "pass"
    <2>1. pass' \in 1..Passes /\ pass' - 1 = pass
      BY <1>1, <1>2, <1>5
    <2>2. TriedUpTo(pass - 1)'
      BY <1>1, <1>3, <1>4, <2>1 DEF TriedUpTo
    <2> QED BY <1>1, <1>2, <1>5, <2>1, <2>2 DEF TriedInv
  <1>6. CASE place' = "prompt"
    <2>1. ASSUME NEW p \in Lite!Missing(cur), NEW n \in 1..Passes,
                 n <= Lite!UrlCount(p)
          PROVE  <<p, n>> \in tried
      <3>1. Lite!UrlCount(p) \in Nat
        BY LiteCounts
      <3>2. noMorePasses => Lite!UrlCount(p) < pass
        BY <1>2 DEF ThisPass
      <3>3. n \in 1..pass
        BY <1>1, <1>2, <1>6, <2>1, <3>1, <3>2
      <3> QED BY <1>4, <2>1, <3>3 DEF TriedUpTo
    <2>2. Lite!AllTried'
      BY <1>1, <1>3, <2>1 DEF Lite!AllTried
    <2> QED BY <1>1, <1>2, <1>6, <2>2 DEF TriedInv
  <1>7. CASE place' = "finished"
    BY <1>1, <1>7, TriedElsewhere
  <1> QED BY <1>1, <1>5, <1>6, <1>7

LEMMA TriedNext ==
  ASSUME LiteUsable, IsFiniteSet(AllParts), LiteInv, TriedInv,
         [Lite!Next]_(Lite!vars)
  PROVE  TriedInv'
  <1>1. cur \in Lite!Images
    BY DEF LiteInv, LiteTypeOK
  <1>2. CASE Lite!RemoveDir
    <2>1. /\ place = "remove" /\ place' = "fetch"
          /\ UNCHANGED <<jigdoFile, pass, noMorePasses, tried, todo, cur,
                         images, tmps>>
      BY <1>2 DEF Lite!RemoveDir
    <2>2. Lite!Missing(cur)' = Lite!Missing(cur)
      BY <2>1 DEF Lite!Missing, Lite!Written
    <2> QED BY <2>1, <2>2, TriedSame
  <1>3. CASE \/ Lite!FetchJigdo \/ Lite!FetchTemplate \/ Lite!NoScan
             \/ Lite!GiveUp \/ Lite!Finished \/ Lite!Retry \/ Lite!Restart
             \/ Lite!Kill \/ \E i \in Lite!Images : Lite!Menu(i)
    <2>1. todo' = todo \/ todo' = << >>
      BY <1>3 DEF Lite!FetchJigdo, Lite!FetchTemplate, Lite!NoScan,
         Lite!GiveUp, Lite!Finished, Lite!Retry, Lite!Restart, Lite!Kill,
         Lite!Menu
    <2>2. place' \in {"template", "done", "aborted", "menu", "left", "uris",
                      "start", "killed", "scan"}
      <3>1. CASE Lite!FetchTemplate
        BY <1>1, <3>1, LiteEnding DEF Lite!FetchTemplate
      <3>2. CASE Lite!GiveUp
        BY <1>1, <3>2, LiteEnding DEF Lite!GiveUp
      <3>3. CASE Lite!Finished
        BY <1>1, <3>3, LiteEnding DEF Lite!Finished
      <3>4. CASE \/ Lite!FetchJigdo \/ Lite!NoScan \/ Lite!Retry
                 \/ Lite!Restart \/ Lite!Kill
                 \/ \E i \in Lite!Images : Lite!Menu(i)
        BY <3>4 DEF Lite!FetchJigdo, Lite!NoScan, Lite!Retry, Lite!Restart,
           Lite!Kill, Lite!Menu
      <3> QED BY <1>3, <3>1, <3>2, <3>3, <3>4
    <2> QED BY <2>1, <2>2, TriedElsewhere
  <1>4. CASE UNCHANGED Lite!vars
    <2>1. UNCHANGED <<jigdoFile, images, tmps, cur, pass, tried, todo,
                      noMorePasses, place>>
      BY <1>4 DEF Lite!vars, Lite!disk, Lite!script
    <2>2. /\ \A p : Lite!UrlCount(p)' = Lite!UrlCount(p)
          /\ Lite!Missing(cur)' = Lite!Missing(cur)
      BY <2>1 DEF Lite!UrlCount, Lite!Missing, Lite!Written
    <2>3. place = "prompt" => Lite!AllTried'
      BY <2>1, <2>2 DEF TriedInv, Lite!AllTried
    <2>4. place \in {"pass", "fetch", "merge", "remove"} =>
            pass' \in 1..Passes /\ TriedUpTo(pass - 1)'
      BY <2>1, <2>2 DEF TriedInv, TriedUpTo
    <2>5. place \in {"fetch", "merge", "remove"} => ThisPass'
      BY <2>1, <2>2 DEF TriedInv, ThisPass
    <2> QED BY <2>1, <2>3, <2>4, <2>5 DEF TriedInv
  <1>5. CASE Lite!Script
    <2>1. CASE \E got \in Lite!Deliverable : Lite!Fetch(got)
      BY <2>1, TriedFetch
    <2> QED BY <1>2, <1>3, <1>5, <2>1, TriedMakes, TriedPass, TriedPassEnd
            DEF Lite!Script
  <1> QED BY <1>3, <1>4, <1>5 DEF Lite!Next

\* When jigdo-lite says that parts could not be downloaded it has tried each of
\* their URLs, as far as there are passes (the loop over $pass in
\* imageDownload()), however many URLs a call of wget gets.
THEOREM UrlsAreTried ==
  ASSUME LiteUsable, IsFiniteSet(AllParts)
  PROVE  Lite!Spec => []Lite!AllTried
  <1>1. Lite!Init => TriedInv
    BY DEF Lite!Init, Lite!Begin, TriedInv
  <1>2. LiteInv /\ TriedInv /\ [Lite!Next]_(Lite!vars) => TriedInv'
    BY TriedNext
  <1>3. TriedInv => Lite!AllTried
    BY DEF TriedInv, Lite!AllTried
  <1> QED BY <1>1, <1>2, <1>3, LiteInvariance, PTL DEF Lite!Spec

-----------------------------------------------------------------------------
(* The script of a mirror (module JigdoMirror) *)

CONSTANTS FileOf, Gzipped, Summed, Remote, Failures, Kills, Delayed, MaxAge,
          MaxTime

VARIABLES now, published, mirrored, masters, made, linked, own, listed, step,
          number, current, wrong, told, come

Mirror ==
  INSTANCE JigdoMirror
    WITH mirror <- mirrored, master <- masters, image <- made, link <- linked,
         copy <- own, jigdo <- listed, pc <- step, file <- number,
         cur <- current, failed <- wrong, exit <- told, seen <- come

\* The steps of makeImage() at which the template has been looked at.
MirrorChecked == {"local", "download"}

\* Each image has its origin and a time.
MadeOK ==
  /\ made = [i \in Mirror!Images |-> made[i]]
  /\ \A i \in Mirror!Images : made[i] = [from |-> made[i].from, time |-> made[i].time]

OwnInv ==
  /\ MadeOK
  /\ step \in MirrorChecked /\ current \in Mirror!Images =>
       Mirror!Found.of = current
  /\ Mirror!OwnTemplate

\* jigdo-mirror puts no image in place that was made from the template of
\* another image, although the file "template" may be left over from a run that
\* was killed, and wget may write through it into the mirror: provided that the
\* .jigdo files have the sums of the templates.
THEOREM OnlyOwnTemplates ==
  ASSUME Summed = Mirror!Images
  PROVE  Mirror!Spec => []Mirror!OwnTemplate
  <1>1. Mirror!Init => OwnInv
    BY DEF Mirror!Init, Mirror!NoImage, OwnInv, MadeOK, Mirror!OwnTemplate, MirrorChecked
  <1>2. OwnInv /\ [Mirror!Next]_(Mirror!vars) => OwnInv'
    <2> SUFFICES ASSUME OwnInv, [Mirror!Next]_(Mirror!vars) PROVE OwnInv'
      OBVIOUS
    <2> USE DEF OwnInv, MadeOK, Mirror!OwnTemplate, MirrorChecked
    <2>1. CASE UNCHANGED Mirror!vars
      BY <2>1 DEF Mirror!vars, Mirror!work, Mirror!control, Mirror!Found
    <2>2. ASSUME NEW f \in Mirror!Files, Mirror!Publish(f) \/ Mirror!Sync(f)
          PROVE  OwnInv'
      BY <2>2 DEF Mirror!Publish, Mirror!Sync, Mirror!Updated, Mirror!work,
                  Mirror!control, Mirror!Found
    <2>3. CASE Mirror!Tick \/ Mirror!Kill \/ Mirror!Start
      BY <2>3 DEF Mirror!Tick, Mirror!Kill, Mirror!Start, Mirror!work,
                  Mirror!control, Mirror!Found
    <2>4. ASSUME Mirror!GiveUp
          PROVE  OwnInv'
      BY <2>4 DEF Mirror!GiveUp, Mirror!Continue, Mirror!NextFile
    <2>5. CASE Mirror!Jigdo
      BY <2>5 DEF Mirror!Jigdo, Mirror!NextFile
    <2>6. CASE Mirror!UpToDate \/ Mirror!Outdated
      <3>1. ASSUME NEW i \in Mirror!Images, made' = [made EXCEPT ![current].time = now]
            PROVE  /\ made'[i].from = made[i].from
                   /\ i # current => made'[i] = made[i]
                   /\ made'[i] = [from |-> made'[i].from, time |-> made'[i].time]
        BY <3>1
      <3>2. MadeOK'
        BY <2>6, <3>1 DEF Mirror!UpToDate, Mirror!Outdated, Mirror!NoImage
      <3>3. \A i \in Mirror!Images :
              made'[i] # Mirror!NoImage => made'[i].from.of = i
        BY <2>6, <3>1 DEF Mirror!UpToDate, Mirror!Outdated
      <3>4. step' \notin MirrorChecked
        BY <2>6 DEF Mirror!UpToDate, Mirror!Outdated, Mirror!Continue, Mirror!NextFile
      <3> QED BY <3>2, <3>3, <3>4
    <2>7. CASE Mirror!Link \/ Mirror!Fetch
      BY <2>7 DEF Mirror!Link, Mirror!Fetch
    <2>8. CASE Mirror!Check
      BY <2>8 DEF Mirror!Check, Mirror!Fits, Mirror!Right, Mirror!TemplateFor,
                  Mirror!work, Mirror!Found
    <2>9. CASE Mirror!Local
      BY <2>9 DEF Mirror!Local, Mirror!work, Mirror!Found
    <2>10. CASE Mirror!Complete
      <3>1. made' = [made EXCEPT ![current] = [from |-> Mirror!Found, time |-> now]]
        BY <2>10 DEF Mirror!Complete
      <3>2. MadeOK'
        BY <3>1
      <3>3. step = "download"
        BY <2>10 DEF Mirror!Complete
      <3>4. \A i \in Mirror!Images :
              made'[i] # Mirror!NoImage => made'[i].from.of = i
        BY <3>1, <3>3
      <3>5. step' \notin MirrorChecked
        BY <2>10 DEF Mirror!Complete, Mirror!Continue, Mirror!NextFile
      <3> QED BY <3>2, <3>4, <3>5
    <2>11. CASE Mirror!MergeFails
      BY <2>11 DEF Mirror!MergeFails
    <2>12. CASE Mirror!Expire
      <3>1. MadeOK'
        BY <2>12 DEF Mirror!Expire, Mirror!NoImage
      <3> QED BY <2>12, <3>1 DEF Mirror!Expire
    <2> QED BY <2>1, <2>2, <2>3, <2>4, <2>5, <2>6, <2>7, <2>8, <2>9, <2>10, <2>11, <2>12
            DEF Mirror!Next, Mirror!Script, Mirror!NotFound, Mirror!FetchFails,
                Mirror!Misfit, Mirror!LocalFails, Mirror!Incomplete
  <1>3. OwnInv => Mirror!OwnTemplate
    BY DEF OwnInv
  <1> QED BY <1>1, <1>2, <1>3, PTL DEF Mirror!Spec

\* The .jigdo files in the order of find, and their images in that order
MirrorOrder ==
  /\ Mirror!MirrorAssumption
  /\ \E n \in Nat : Mirror!Files = 1..n
  /\ \A i, j \in Mirror!Images : i <= j => FileOf[i] <= FileOf[j]

\* Each image has its origin and the time at which it was made.
Published(i) == published[FileOf[i]]
IsCurrent(i) == made[i].from = Mirror!Current(i) /\ Published(i) <= made[i].time

MadeInv ==
  \A i \in Mirror!Images :
    /\ made[i] = [from |-> made[i].from, time |-> made[i].time]
    /\ made[i].time \in 0..now
    /\ made[i] # Mirror!NoImage /\ Published(i) <= made[i].time => IsCurrent(i)

\* A file of the mirror is as it was published, unless a run that was killed
\* while "jigdo" was a link to it has made the next one write to it.
Intact(f) == mirrored[f] = Mirror!Jigdofile(f, published[f], published[f])

FilesInv ==
  \A f \in Mirror!Files :
    \/ Intact(f)
    \/ f \notin Gzipped /\ mirrored[f].text = 0
    \/ f \notin Gzipped /\ 1 \in Gzipped /\ mirrored[f].text = 1

\* Through a link, wget writes what is the template of another image, or the
\* newest.
MastersInv ==
  \A i \in Mirror!Images :
    masters[i].of = i => masters[i] = Mirror!Current(i)

\* Where an image is made, or looked at
AtImage == step \in {"section", "template", "check", "local", "download"}
Making == AtImage /\ step # "section"

PlaceInv ==
  /\ number \in Mirror!Files
  /\ listed = 0 \/ listed \in Mirror!Files \ Gzipped
  /\ listed # 0 /\ step = "jigdo" => number = 1
  /\ linked \in Mirror!Images \union {0} /\ come \subseteq Mirror!Images
  /\ AtImage => current \in Mirror!Images /\ FileOf[current] = mirrored[number].text
  /\ Making => made[current] = Mirror!NoImage

\* What has been in "template" before is not there when a file that is not
\* compressed is linked to, and the template found is the newest.
TemplateInv ==
  AtImage =>
    /\ number \notin Gzipped =>
         /\ step \in {"section", "template"} => linked = 0 /\ own = Mirror!Nothing
         /\ ~(step \in {"section", "template"}) =>
              \/ linked = current
              \/ linked = 0 /\ own = Mirror!Current(current)
    /\ step \in {"local", "download"} => Mirror!Found = Mirror!Current(current)

\* The images of the first file have been looked at when the next is read.
FirstInv ==
  1 \in Gzipped =>
    \A i \in Mirror!Images :
      FileOf[i] = 1 =>
        /\ number # 1 /\ (AtImage \/ step = "jigdo") => i \in come
        /\ number = 1 /\ AtImage /\ i < current => i \in come

SeenInv ==
  step # "idle" =>
    \A i \in come :
      /\ made[i] # Mirror!NoImage => IsCurrent(i)
      /\ made[i] = Mirror!NoImage => wrong \/ (Making /\ i = current)

MirrorInv ==
  /\ now \in Nat /\ published \in [Mirror!Files -> 0..now]
  /\ made = [i \in Mirror!Images |-> made[i]]
  /\ masters = [i \in Mirror!Images |-> masters[i]]
  /\ mirrored = [f \in Mirror!Files |-> mirrored[f]]
  /\ MadeInv /\ FilesInv /\ MastersInv /\ PlaceInv /\ TemplateInv /\ FirstInv /\ SeenInv

-----------------------------------------------------------------------------
(* None is outdated *)

\* What the theorem assumes of the instance: new versions are mirrored before
\* the next run, and each template can be checked.
MirrorUsual == MirrorOrder /\ Summed = Mirror!Images /\ ~Delayed

LEMMA MirrorFacts ==
  ASSUME MirrorUsual
  PROVE  /\ Mirror!Images = 1..Len(FileOf) /\ Len(FileOf) \in Nat \ {0}
         /\ 1 \in Mirror!Files /\ Mirror!Files \subseteq Nat \ {0}
         /\ \A i \in Mirror!Images : FileOf[i] \in Mirror!Files
         /\ Mirror!Files = 1..Cardinality(Mirror!Files)
         /\ Cardinality(Mirror!Files) \in Nat
         /\ Gzipped \subseteq Mirror!Files
         /\ MaxAge \in Nat
         /\ \A i, j \in Mirror!Images : i <= j => FileOf[i] <= FileOf[j]
  <1>1. FileOf \in Seq(Nat \ {0}) /\ FileOf # << >>
    BY DEF MirrorUsual, MirrorOrder, Mirror!MirrorAssumption
  <1>2. Mirror!Images = 1..Len(FileOf) /\ Len(FileOf) \in Nat \ {0}
    BY <1>1 DEF Mirror!Images
  <1>3. \A i \in Mirror!Images : FileOf[i] \in Mirror!Files
    BY DEF Mirror!Files
  <1>4. Mirror!Files \subseteq Nat \ {0}
    BY <1>1, <1>2 DEF Mirror!Files
  <1>5. FileOf[1] \in Mirror!Files
    BY <1>2, <1>3
  <1>6. Mirror!Files = 1..Cardinality(Mirror!Files) /\ Cardinality(Mirror!Files) \in Nat
    <2>1. PICK n \in Nat : Mirror!Files = 1..n
      BY DEF MirrorUsual, MirrorOrder
    <2> QED BY <2>1, FS_Interval
  <1>7. 1 \in Mirror!Files
    BY <1>4, <1>5, <1>6
  <1> QED BY <1>2, <1>3, <1>4, <1>6, <1>7
          DEF MirrorUsual, MirrorOrder, Mirror!MirrorAssumption

\* What does not change from one step of a run to the next, in most of them.
MirrorSame == UNCHANGED <<now, published, mirrored, masters>>

LEMMA MirrorStays ==
  ASSUME MirrorInv, UNCHANGED <<now, published, mirrored>>
  PROVE  /\ FilesInv' /\ now' \in Nat /\ published' \in [Mirror!Files -> 0..now']
         /\ mirrored' = [f \in Mirror!Files |-> mirrored'[f]]
         /\ \A f \in Mirror!Files : Intact(f)' <=> Intact(f)
         /\ \A i \in Mirror!Images : Mirror!Current(i)' = Mirror!Current(i)
         /\ \A i : Published(i)' = Published(i)
  BY DEF MirrorInv, FilesInv, Intact, Mirror!Current, Published

LEMMA MirrorMasters ==
  ASSUME MirrorInv, MirrorSame
  PROVE  MastersInv' /\ masters' = [i \in Mirror!Images |-> masters'[i]]
  BY DEF MirrorInv, MirrorSame, MastersInv, Mirror!Current

\* The loop goes on to the next image or file.
LEMMA MirrorContinue ==
  ASSUME MirrorUsual, MirrorInv, AtImage, Mirror!Continue, MirrorSame,
         \/ linked' = 0 /\ own' = Mirror!Nothing
         \/ step = "section" /\ UNCHANGED <<linked, own>>,
         made' = [i \in Mirror!Images |-> made'[i]], MadeInv',
         \A i \in Mirror!Images : i # current => made'[i] = made[i],
         NEW c \in Mirror!Images, c = current,
         made'[c] # Mirror!NoImage => IsCurrent(c)',
         made'[c] = Mirror!NoImage => wrong',
         wrong => wrong'
  PROVE  MirrorInv'
  <1> USE MirrorFacts
  <1>1. /\ step \in {"section", "template", "check", "local", "download"}
        /\ current \in Mirror!Images /\ FileOf[current] = mirrored[number].text
        /\ number \in Mirror!Files /\ come \subseteq Mirror!Images
    BY DEF AtImage, MirrorInv, PlaceInv
  <1>2. come' = come \union {current}
    BY DEF Mirror!Continue
  <1>3. \/ /\ step' = "section" /\ current' = current + 1 /\ listed' = listed
           /\ number' = number /\ current + 1 \in Mirror!Images
           /\ FileOf[current + 1] = mirrored[number].text
        \/ /\ ~(current + 1 \in Mirror!Images /\ FileOf[current + 1] = mirrored[number].text)
           /\ listed' = 0 /\ current' = current
           /\ \/ step' = "jigdo" /\ number' = number + 1 /\ number + 1 \in Mirror!Files
              \/ step' = "expire" /\ number' = number
    <2> DEFINE more == current + 1 \in Mirror!Images
                        /\ FileOf[current + 1] = mirrored[number].text
    <2> HIDE DEF more
    <2>1. IF more
          THEN step' = "section" /\ current' = current + 1 /\ UNCHANGED <<listed, number>>
          ELSE Mirror!NextFile /\ UNCHANGED current
      BY DEF Mirror!Continue, more
    <2>2. CASE more
      <3>1. current + 1 \in Mirror!Images /\ FileOf[current + 1] = mirrored[number].text
        BY <2>2 DEF more
      <3> QED BY <2>1, <2>2, <3>1
    <2>3. CASE ~more
      <3>1. ~(current + 1 \in Mirror!Images /\ FileOf[current + 1] = mirrored[number].text)
        BY <2>3 DEF more
      <3>2. listed' = 0 /\ current' = current
        BY <2>1, <2>3 DEF Mirror!NextFile
      <3>3. \/ step' = "jigdo" /\ number' = number + 1 /\ number < Cardinality(Mirror!Files)
            \/ step' = "expire" /\ number' = number
        <4>1. Mirror!Cardinality(Mirror!Files) = Cardinality(Mirror!Files)
          BY Zenon DEF Mirror!Cardinality, Cardinality
        <4> QED BY <4>1, <2>1, <2>3 DEF Mirror!NextFile
      <3>4. number < Cardinality(Mirror!Files) => number + 1 \in Mirror!Files
        BY <1>1
      <3> QED BY <3>1, <3>2, <3>3, <3>4
    <2> QED BY <2>2, <2>3
  <1>4. mirrored' = mirrored
    BY DEF MirrorSame
  <1>5. PlaceInv'
    <2>1. linked' \in Mirror!Images \union {0}
      BY DEF MirrorInv, PlaceInv
    <2> QED BY <1>1, <1>2, <1>3, <1>4, <2>1 DEF MirrorInv, PlaceInv, AtImage, Making
  <1>6. TemplateInv'
    BY <1>1, <1>3 DEF MirrorInv, TemplateInv, AtImage
  <1>7. FirstInv'
    <2> SUFFICES ASSUME 1 \in Gzipped, NEW i \in Mirror!Images, FileOf[i] = 1
                 PROVE  /\ number' # 1 /\ (AtImage' \/ step' = "jigdo") => i \in come'
                        /\ number' = 1 /\ AtImage' /\ i < current' => i \in come'
      BY DEF FirstInv
    <2>1. /\ number # 1 => i \in come
          /\ number = 1 /\ i < current => i \in come
      BY DEF MirrorInv, FirstInv
    <2>2. CASE step' = "section"
      BY <1>1, <1>2, <1>3, <2>1, <2>2
    <2>3. ASSUME step' = "jigdo", number = 1, current < i
          PROVE  FALSE
      <3>1. mirrored[1].text = 1
        BY DEF MirrorInv, FilesInv, Intact, Mirror!Jigdofile
      <3>2. current + 1 \in Mirror!Images
        BY <1>1, <2>3
      <3>3. FileOf[current + 1] # 1
        BY <1>3, <2>3, <3>1, <3>2
      <3>4. FileOf[current] <= FileOf[current + 1] /\ FileOf[current + 1] <= FileOf[i]
        BY <1>1, <2>3, <3>2
      <3>5. FileOf[current] = 1 /\ FileOf[current + 1] \in Nat
        BY <1>1, <2>3, <3>1, <3>2
      <3> QED BY <3>3, <3>4, <3>5
    <2>4. CASE step' = "jigdo"
      BY <1>1, <1>2, <1>3, <2>1, <2>3, <2>4 DEF AtImage
    <2>5. CASE step' = "expire"
      BY <2>5 DEF AtImage
    <2> QED BY <1>3, <2>2, <2>4, <2>5
  <1>8. SeenInv'
    <2> SUFFICES ASSUME NEW i \in come'
                 PROVE  /\ made'[i] # Mirror!NoImage => IsCurrent(i)'
                        /\ made'[i] = Mirror!NoImage => wrong'
      BY DEF SeenInv
    <2>1. CASE i = c
      BY <2>1
    <2>2. CASE i # current
      <3>1. i \in come /\ i \in Mirror!Images /\ made'[i] = made[i]
        BY <1>1, <1>2, <2>2
      <3>2. /\ made[i] # Mirror!NoImage => IsCurrent(i)
            /\ made[i] = Mirror!NoImage => wrong
        BY <1>1, <2>2, <3>1 DEF MirrorInv, SeenInv
      <3> QED BY <3>1, <3>2 DEF IsCurrent, Published, Mirror!Current, MirrorSame
    <2> QED BY <2>1, <2>2
  <1>9. FilesInv' /\ now' \in Nat /\ published' \in [Mirror!Files -> 0..now']
        /\ mirrored' = [f \in Mirror!Files |-> mirrored'[f]]
    BY MirrorStays DEF MirrorSame
  <1> QED BY <1>5, <1>6, <1>7, <1>8, <1>9, MirrorMasters DEF MirrorInv

LEMMA MirrorGiveUp ==
  ASSUME MirrorUsual, MirrorInv, Making, Mirror!GiveUp
  PROVE  MirrorInv'
  <1>1. MirrorSame /\ made' = made /\ wrong' /\ linked' = 0 /\ own' = Mirror!Nothing
        /\ Mirror!Continue
    BY DEF Mirror!GiveUp, Mirror!NoTemplate, MirrorSame
  <1>2. made[current] = Mirror!NoImage /\ AtImage /\ current \in Mirror!Images
    BY DEF MirrorInv, PlaceInv, Making
  <1>3. MadeInv'
    BY <1>1 DEF MirrorInv, MadeInv, IsCurrent, Published, Mirror!Current, MirrorSame
  <1>4. made' = [i \in Mirror!Images |-> made'[i]]
    BY <1>1 DEF MirrorInv
  <1>5. PICK c \in Mirror!Images : c = current
    BY <1>2
  <1> QED BY <1>1, <1>2, <1>3, <1>4, <1>5, MirrorContinue

\* A file that a killed run has spoiled is not the first, whose images it has
\* now; they have been looked at.
LEMMA MirrorSpoiled ==
  ASSUME MirrorUsual, MirrorInv, AtImage, ~Intact(number)
  PROVE  current \in come /\ number \notin Gzipped
  <1> USE MirrorFacts
  <1>1. /\ number \in Mirror!Files /\ current \in Mirror!Images
        /\ FileOf[current] = mirrored[number].text
    BY DEF MirrorInv, PlaceInv
  <1>2. FileOf[current] # 0
    BY <1>1
  <1>3. number \notin Gzipped /\ 1 \in Gzipped /\ mirrored[number].text = 1
    BY <1>1, <1>2 DEF MirrorInv, FilesInv
  <1> QED BY <1>1, <1>3 DEF MirrorInv, FirstInv

\* In place and not older than its .jigdo file: current
LEMMA MirrorNotOlder ==
  ASSUME MirrorUsual, MirrorInv, step = "section",
         made[current] # Mirror!NoImage, ~Mirror!Newer(current)
  PROVE  IsCurrent(current)
  <1> USE MirrorFacts
  <1>1. AtImage
    BY DEF AtImage
  <1>2. /\ number \in Mirror!Files /\ current \in Mirror!Images
        /\ FileOf[current] = mirrored[number].text
    BY <1>1 DEF MirrorInv, PlaceInv
  <1>3. CASE Intact(number)
    <2>1. FileOf[current] = number /\ mirrored[number].time = published[number]
      BY <1>2, <1>3 DEF Intact, Mirror!Jigdofile
    <2>2. published[number] \in Int /\ made[current].time \in Int
      BY <1>2 DEF MirrorInv, MadeInv
    <2>3. Published(current) <= made[current].time
      BY <2>1, <2>2 DEF Mirror!Newer, Published
    <2> QED BY <1>2, <2>3 DEF MirrorInv, MadeInv
  <1>4. CASE ~Intact(number)
    BY <1>1, <1>4, MirrorSpoiled DEF MirrorInv, SeenInv
  <1> QED BY <1>3, <1>4

LEMMA MirrorUpToDate ==
  ASSUME MirrorUsual, MirrorInv, Mirror!UpToDate
  PROVE  MirrorInv'
  <1> USE MirrorFacts
  <1>1. /\ step = "section" /\ AtImage /\ Mirror!Continue /\ MirrorSame
        /\ UNCHANGED <<linked, own, wrong>>
        /\ made' = IF MaxAge = 0 THEN made ELSE [made EXCEPT ![current].time = now]
        /\ made[current] # Mirror!NoImage /\ ~Mirror!Newer(current)
    BY DEF Mirror!UpToDate, AtImage, MirrorSame
  <1>2. PICK c \in Mirror!Images : c = current
    BY <1>1 DEF MirrorInv, PlaceInv
  <1>3. IsCurrent(c) /\ made[c] # Mirror!NoImage
    BY <1>1, <1>2, MirrorNotOlder
  <1>4. made = [i \in Mirror!Images |-> made[i]] /\ now \in Nat
        /\ Published(c) \in 0..now
        /\ \A i \in Mirror!Images :
             made[i] = [from |-> made[i].from, time |-> made[i].time]
    BY DEF MirrorInv, MadeInv, Published
  <1>5. made' = [i \in Mirror!Images |-> made'[i]]
        /\ \A i \in Mirror!Images : i # c => made'[i] = made[i]
    BY <1>1, <1>2, <1>4
  <1>6. /\ made'[c] = [from |-> made'[c].from, time |-> made'[c].time]
        /\ made'[c].from = made[c].from /\ made'[c].time \in {made[c].time, now}
    BY <1>1, <1>2, <1>4
  <1>7. /\ published' = published /\ Mirror!Current(c)' = Mirror!Current(c) /\ now' = now
        /\ Published(c)' = Published(c)
    BY <1>1 DEF MirrorSame, Mirror!Current, Published
  <1>8. IsCurrent(c)'
    BY <1>3, <1>4, <1>6, <1>7 DEF IsCurrent
  <1>9. made'[c] # Mirror!NoImage
    <2>1. made[c].from.of = c /\ c # 0
      BY <1>3 DEF IsCurrent, Mirror!Current, Mirror!TemplateFor
    <2>2. Mirror!NoImage.from.of = 0
      BY DEF Mirror!NoImage, Mirror!Nothing, Mirror!TemplateFor
    <2> QED BY <1>6, <2>1, <2>2
  <1>10. MadeInv'
    <2> SUFFICES ASSUME NEW i \in Mirror!Images
                 PROVE  /\ made'[i] = [from |-> made'[i].from, time |-> made'[i].time]
                        /\ made'[i].time \in 0..now'
                        /\ made'[i] # Mirror!NoImage /\ Published(i)' <= made'[i].time =>
                             IsCurrent(i)'
      BY DEF MadeInv
    <2>1. CASE i = c
      <3>1. made[c].time \in 0..now
        BY DEF MirrorInv, MadeInv
      <3> QED BY <1>4, <1>6, <1>7, <1>8, <2>1, <3>1
    <2>2. CASE i # c
      BY <1>1, <1>5, <2>2
         DEF MirrorInv, MadeInv, IsCurrent, Published, Mirror!Current, MirrorSame
    <2> QED BY <2>1, <2>2
  <1> QED BY <1>1, <1>2, <1>5, <1>8, <1>9, <1>10, MirrorContinue

\* The sum of the template says that it is right: the newest, since the .jigdo
\* file is, or no old one is left to be found.
LEMMA MirrorCheck ==
  ASSUME MirrorUsual, MirrorInv, step = "check", Mirror!Fits
  PROVE  Mirror!Found = Mirror!Current(current)
  <1> USE MirrorFacts
  <1>1. AtImage /\ current \in Mirror!Images /\ number \in Mirror!Files
        /\ FileOf[current] = mirrored[number].text
    BY DEF AtImage, MirrorInv, PlaceInv
  <1>2. Mirror!Found = Mirror!Right(current)
    BY <1>1 DEF MirrorUsual, Mirror!Fits
  <1>3. CASE Intact(number)
    BY <1>1, <1>2, <1>3
       DEF Intact, Mirror!Right, Mirror!Current, Mirror!Jigdofile, Mirror!TemplateFor
  <1>4. CASE ~Intact(number)
    <2>1. linked = current \/ (linked = 0 /\ own = Mirror!Current(current))
      BY <1>1, <1>4, MirrorSpoiled DEF MirrorInv, TemplateInv
    <2>2. CASE linked = 0 /\ own = Mirror!Current(current)
      BY <2>2 DEF Mirror!Found
    <2>3. CASE linked = current
      <3>1. current # 0
        BY <1>1
      <3>2. Mirror!Found = masters[current]
        BY <2>3, <3>1 DEF Mirror!Found
      <3>3. masters[current].of = current
        BY <1>2, <3>2 DEF Mirror!Right, Mirror!TemplateFor
      <3> QED BY <1>1, <3>2, <3>3 DEF MirrorInv, MastersInv
    <2> QED BY <2>1, <2>2, <2>3
  <1> QED BY <1>3, <1>4

LEMMA MirrorComplete ==
  ASSUME MirrorUsual, MirrorInv, Mirror!Complete
  PROVE  MirrorInv'
  <1> USE MirrorFacts
  <1>1. /\ step = "download" /\ AtImage /\ Mirror!Continue /\ MirrorSame
        /\ linked' = 0 /\ own' = Mirror!Nothing /\ wrong' = wrong
        /\ made' = [made EXCEPT ![current] = [from |-> Mirror!Found, time |-> now]]
    BY DEF Mirror!Complete, Mirror!NoTemplate, AtImage, MirrorSame
  <1>2. PICK c \in Mirror!Images : c = current
    BY <1>1 DEF MirrorInv, PlaceInv
  <1>3. Mirror!Found = Mirror!Current(c)
    BY <1>1, <1>2 DEF MirrorInv, TemplateInv
  <1>4. made = [i \in Mirror!Images |-> made[i]] /\ now \in Nat
        /\ Published(c) \in 0..now
    BY DEF MirrorInv, Published
  <1>5. made' = [i \in Mirror!Images |-> made'[i]]
        /\ \A i \in Mirror!Images : i # c => made'[i] = made[i]
    BY <1>1, <1>2, <1>4
  <1>6. made'[c] = [from |-> Mirror!Current(c), time |-> now]
    BY <1>1, <1>2, <1>3, <1>4
  <1>7. /\ published' = published /\ Mirror!Current(c)' = Mirror!Current(c) /\ now' = now
        /\ Published(c)' = Published(c)
    BY <1>1 DEF MirrorSame, Mirror!Current, Published
  <1>8. IsCurrent(c)'
    BY <1>4, <1>6, <1>7 DEF IsCurrent
  <1>9. made'[c] # Mirror!NoImage
    <2>1. Mirror!Current(c).of = c /\ c # 0
      BY DEF Mirror!Current, Mirror!TemplateFor
    <2>2. Mirror!NoImage.from.of = 0
      BY DEF Mirror!NoImage, Mirror!Nothing, Mirror!TemplateFor
    <2> QED BY <1>6, <2>1, <2>2
  <1>10. MadeInv'
    <2> SUFFICES ASSUME NEW i \in Mirror!Images
                 PROVE  /\ made'[i] = [from |-> made'[i].from, time |-> made'[i].time]
                        /\ made'[i].time \in 0..now'
                        /\ made'[i] # Mirror!NoImage /\ Published(i)' <= made'[i].time =>
                             IsCurrent(i)'
      BY DEF MadeInv
    <2>1. CASE i = c
      BY <1>4, <1>6, <1>7, <1>8, <2>1
    <2>2. CASE i # c
      BY <1>1, <1>5, <2>2
         DEF MirrorInv, MadeInv, IsCurrent, Published, Mirror!Current, MirrorSame
    <2> QED BY <2>1, <2>2
  <1> QED BY <1>1, <1>2, <1>5, <1>8, <1>9, <1>10, MirrorContinue

\* An image is thrown away, to be made again.
LEMMA MirrorOutdated ==
  ASSUME MirrorUsual, MirrorInv, Mirror!Outdated
  PROVE  MirrorInv'
  <1> USE MirrorFacts
  <1>1. /\ step = "section" /\ step' = "template" /\ AtImage /\ AtImage' /\ Making'
        /\ MirrorSame
        /\ UNCHANGED <<linked, own, listed, number, current, wrong, come>>
        /\ made' = [made EXCEPT ![current] = Mirror!NoImage]
    BY DEF Mirror!Outdated, Mirror!work, AtImage, Making, MirrorSame
  <1>2. /\ current \in Mirror!Images /\ now \in Nat
        /\ made = [i \in Mirror!Images |-> made[i]]
    BY <1>1 DEF MirrorInv, PlaceInv
  <1>3. /\ made' = [i \in Mirror!Images |-> made'[i]]
        /\ made'[current] = Mirror!NoImage
        /\ \A i \in Mirror!Images : i # current => made'[i] = made[i]
    BY <1>1, <1>2
  <1>4. MadeInv'
    <2>1. ASSUME NEW i \in Mirror!Images, i # current
          PROVE  /\ made'[i] = [from |-> made'[i].from, time |-> made'[i].time]
                 /\ made'[i].time \in 0..now'
                 /\ made'[i] # Mirror!NoImage /\ Published(i)' <= made'[i].time =>
                      IsCurrent(i)'
      BY <1>1, <1>3, <2>1
         DEF MirrorInv, MadeInv, IsCurrent, Published, Mirror!Current, MirrorSame
    <2>2. Mirror!NoImage = [from |-> Mirror!NoImage.from, time |-> Mirror!NoImage.time]
          /\ Mirror!NoImage.time = 0
      BY DEF Mirror!NoImage
    <2>3. now' = now
      BY <1>1 DEF MirrorSame
    <2> QED BY <1>2, <1>3, <2>1, <2>2, <2>3 DEF MadeInv
  <1>5. PlaceInv'
    BY <1>1, <1>2, <1>3 DEF MirrorInv, PlaceInv, AtImage, MirrorSame
  <1>6. TemplateInv'
    BY <1>1 DEF MirrorInv, TemplateInv
  <1>7. FirstInv'
    BY <1>1 DEF MirrorInv, FirstInv
  <1>8. SeenInv'
    <2> SUFFICES ASSUME NEW i \in come'
                 PROVE  /\ made'[i] # Mirror!NoImage => IsCurrent(i)'
                        /\ made'[i] = Mirror!NoImage => wrong' \/ (Making' /\ i = current')
      BY DEF SeenInv
    <2>1. CASE i = current
      BY <1>1, <1>3, <2>1
    <2>2. CASE i # current
      <3>1. i \in come /\ i \in Mirror!Images /\ made'[i] = made[i]
        BY <1>1, <1>3, <2>2 DEF MirrorInv, PlaceInv
      <3>2. /\ made[i] # Mirror!NoImage => IsCurrent(i)
            /\ made[i] = Mirror!NoImage => wrong
        BY <1>1, <2>2, <3>1 DEF MirrorInv, SeenInv
      <3> QED BY <1>1, <3>1, <3>2 DEF IsCurrent, Published, Mirror!Current, MirrorSame
    <2> QED BY <2>1, <2>2
  <1>9. FilesInv' /\ now' \in Nat /\ published' \in [Mirror!Files -> 0..now']
        /\ mirrored' = [f \in Mirror!Files |-> mirrored'[f]]
    BY <1>1, MirrorStays DEF MirrorSame
  <1> QED BY <1>1, <1>3, <1>4, <1>5, <1>6, <1>7, <1>8, <1>9, MirrorMasters DEF MirrorInv

\* makeImage() goes on, or the run gives up.
LEMMA MirrorMoves ==
  ASSUME MirrorUsual, MirrorInv, Making,
         UNCHANGED <<now, published, mirrored, made, listed, number, current, come>>,
         \/ step' \in {"check", "local", "download"} /\ wrong' = wrong
         \/ step' = "expire" /\ wrong' = TRUE,
         MastersInv', masters' = [i \in Mirror!Images |-> masters'[i]],
         linked' \in Mirror!Images \union {0}, TemplateInv'
  PROVE  MirrorInv'
  <1> USE MirrorFacts
  <1>1. step \in {"template", "check", "local", "download"} /\ AtImage
    BY DEF Making, AtImage
  <1>2. MadeInv'
    BY DEF MirrorInv, MadeInv, IsCurrent, Published, Mirror!Current
  <1>3. PlaceInv'
    BY <1>1 DEF MirrorInv, PlaceInv, AtImage, Making
  <1>4. FirstInv'
    BY <1>1 DEF MirrorInv, FirstInv, AtImage
  <1>5. SeenInv'
    <2>1. ASSUME NEW i \in come
          PROVE  /\ made'[i] # Mirror!NoImage => IsCurrent(i)'
                 /\ made'[i] = Mirror!NoImage => wrong \/ i = current'
      BY <1>1 DEF MirrorInv, SeenInv, IsCurrent, Published, Mirror!Current
    <2>2. CASE step' = "expire"
      BY <2>1, <2>2 DEF SeenInv
    <2>3. CASE step' \in {"check", "local", "download"} /\ wrong' = wrong
      <3>1. Making'
        BY <2>3 DEF Making, AtImage
      <3> QED BY <2>1, <2>3, <3>1 DEF SeenInv
    <2> QED BY <2>2, <2>3
  <1> QED BY <1>2, <1>3, <1>4, <1>5, MirrorStays DEF MirrorInv

\* ln -s and wget: at a file that is not compressed nothing is left over.
LEMMA MirrorTemplate ==
  ASSUME MirrorUsual, MirrorInv, Mirror!Link \/ Mirror!Fetch
  PROVE  MirrorInv'
  <1> USE MirrorFacts
  <1>1. /\ step = "template" /\ step' = "check" /\ AtImage /\ Making /\ AtImage'
        /\ UNCHANGED <<now, published, mirrored, made, listed, number, current, wrong, come>>
    BY DEF Mirror!Link, Mirror!Fetch, AtImage, Making
  <1>2. /\ current \in Mirror!Images /\ linked \in Mirror!Images \union {0}
        /\ masters = [i \in Mirror!Images |-> masters[i]]
    BY <1>1 DEF MirrorInv, PlaceInv
  <1>3. number \notin Gzipped => linked = 0 /\ own = Mirror!Nothing
    BY <1>1 DEF MirrorInv, TemplateInv
  <1>4. Mirror!Current(current)' = Mirror!Current(current)
        /\ \A i : Mirror!Current(i)' = Mirror!Current(i)
    BY <1>1 DEF Mirror!Current
  <1>5. CASE Mirror!Link
    <2>1. /\ linked' = IF Mirror!Found = Mirror!Nothing THEN current ELSE linked
          /\ own' = own /\ masters' = masters
      BY <1>5 DEF Mirror!Link
    <2>2. linked = 0 /\ own = Mirror!Nothing => Mirror!Found = Mirror!Nothing
      BY DEF Mirror!Found
    <2>3. number' \notin Gzipped => linked' = current'
      BY <1>1, <1>3, <2>1, <2>2
    <2>4. TemplateInv'
      BY <1>1, <2>3 DEF TemplateInv
    <2>5. MastersInv'
      BY <1>4, <2>1 DEF MirrorInv, MastersInv
    <2> QED BY <1>1, <1>2, <2>1, <2>4, <2>5, MirrorMoves
  <1>6. CASE Mirror!Fetch
    <2>1. /\ linked' = linked
          /\ linked = 0 => own' = Mirror!Current(current) /\ masters' = masters
          /\ linked # 0 => own' = own
               /\ masters' = [masters EXCEPT ![linked] = Mirror!Current(current)]
      BY <1>6 DEF Mirror!Fetch
    <2>2. number' \notin Gzipped => linked' = 0 /\ own' = Mirror!Current(current)'
      BY <1>1, <1>3, <1>4, <2>1
    <2>3. TemplateInv'
      BY <1>1, <2>2 DEF TemplateInv
    <2>4. masters' = [i \in Mirror!Images |-> masters'[i]]
      BY <1>2, <2>1
    <2>5. MastersInv'
      <3> SUFFICES ASSUME NEW i \in Mirror!Images, masters'[i].of = i
                   PROVE  masters'[i] = Mirror!Current(i)
        BY <1>4 DEF MastersInv
      <3>1. CASE masters'[i] = masters[i]
        BY <3>1 DEF MirrorInv, MastersInv
      <3>2. CASE masters'[i] = Mirror!Current(current)
        BY <3>2 DEF Mirror!Current, Mirror!TemplateFor
      <3> QED BY <1>2, <2>1, <3>1, <3>2
    <2> QED BY <1>1, <1>2, <2>1, <2>3, <2>4, <2>5, MirrorMoves
  <1> QED BY <1>5, <1>6

LEMMA MirrorGoesOn ==
  ASSUME MirrorUsual, MirrorInv, Mirror!Check \/ Mirror!Local \/ Mirror!MergeFails
  PROVE  MirrorInv'
  <1>1. /\ Making /\ AtImage
        /\ UNCHANGED <<now, published, mirrored, masters, made, linked, own, listed,
                       number, current, come>>
        /\ \/ step = "check" /\ step' = "local" /\ wrong' = wrong
           \/ step = "local" /\ step' = "download" /\ wrong' = wrong
           \/ step = "download" /\ step' = "expire" /\ wrong' = TRUE
    BY DEF Mirror!Check, Mirror!Local, Mirror!MergeFails, Mirror!work, Making, AtImage
  <1>2. step = "check" => Mirror!Fits
    BY DEF Mirror!Check, Mirror!Local, Mirror!MergeFails
  <1>3. step # "download" => Mirror!Found = Mirror!Current(current)
    <2>1. CASE step = "check"
      BY <1>2, <2>1, MirrorCheck
    <2>2. CASE step = "local"
      BY <1>1, <2>2 DEF MirrorInv, TemplateInv
    <2> QED BY <1>1, <2>1, <2>2
  <1>4. Mirror!Found' = Mirror!Found /\ Mirror!Current(current)' = Mirror!Current(current)
    BY <1>1 DEF Mirror!Found, Mirror!Current
  <1>5. TemplateInv'
    <2>1. CASE step = "download"
      BY <1>1, <2>1 DEF TemplateInv, AtImage
    <2>2. CASE step # "download"
      BY <1>1, <1>3, <1>4, <2>2 DEF MirrorInv, TemplateInv
    <2> QED BY <2>1, <2>2
  <1>6. MastersInv' /\ masters' = [i \in Mirror!Images |-> masters'[i]]
    BY <1>1, MirrorMasters DEF MirrorSame
  <1>7. linked' \in Mirror!Images \union {0}
    BY <1>1 DEF MirrorInv, PlaceInv
  <1> QED BY <1>1, <1>5, <1>6, <1>7, MirrorMoves

\* A set of numbers that is not empty has a least one.
LEMMA MirrorLeast ==
  ASSUME NEW S, S \subseteq Nat, S # {}
  PROVE  \E m \in S : \A k \in S : m <= k
  <1>1. PICK m \in S : \A k \in S : <<k, m>> \notin OpToRel(<, Nat)
    BY NatLessThanWellFounded, WFMin, Zenon
  <1>2. \A k \in S : ~(k < m)
    <2> SUFFICES ASSUME NEW k \in S, k < m PROVE FALSE
      OBVIOUS
    <2>1. <<k, m>> \in Nat \X Nat /\ <<k, m>>[1] < <<k, m>>[2]
      OBVIOUS
    <2>2. <<k, m>> \in OpToRel(<, Nat)
      BY <2>1, Zenon DEF OpToRel
    <2> QED BY <1>1, <2>2
  <1> QED BY <1>2

\* The file whose images are made next is unpacked or linked to, which may
\* spoil another one if "jigdo" is still a link to that.
LEMMA MirrorUnpacked ==
  ASSUME MirrorUsual, MirrorInv, Mirror!Jigdo
  PROVE  FilesInv' /\ mirrored' = [f \in Mirror!Files |-> mirrored'[f]]
  <1> USE MirrorFacts
  <1>1. step = "jigdo" /\ mirrored' = Mirror!Unpacked /\ published' = published
    BY DEF Mirror!Jigdo
  <1>2. CASE listed = 0
    BY <1>1, <1>2 DEF Mirror!Unpacked, MirrorInv, FilesInv, Intact
  <1>3. CASE listed # 0
    <2>1. listed \in Mirror!Files \ Gzipped /\ number = 1
      BY <1>1, <1>3 DEF MirrorInv, PlaceInv
    <2> DEFINE spoiled == IF 1 \in Gzipped
                          THEN Mirror!Jigdofile(mirrored[1].text, mirrored[1].version, now)
                          ELSE Mirror!Jigdofile(0, 0, now)
    <2>2. mirrored' = [mirrored EXCEPT ![listed] = spoiled]
      BY <1>1, <1>3, <2>1 DEF Mirror!Unpacked
    <2>3. \/ 1 \in Gzipped /\ spoiled.text = 1
          \/ spoiled.text = 0
      <3>1. CASE 1 \in Gzipped
        <4>1. mirrored[1].text = 1
          BY <3>1 DEF MirrorInv, FilesInv, Intact, Mirror!Jigdofile
        <4> QED BY <3>1, <4>1 DEF Mirror!Jigdofile
      <3>2. CASE 1 \notin Gzipped
        BY <3>2 DEF Mirror!Jigdofile
      <3> QED BY <3>1, <3>2
    <2> HIDE DEF spoiled
    <2>4. mirrored = [f \in Mirror!Files |-> mirrored[f]]
      BY DEF MirrorInv
    <2>5. /\ mirrored'[listed] = spoiled
          /\ \A f \in Mirror!Files : f # listed => mirrored'[f] = mirrored[f]
      BY <2>1, <2>2, <2>4
    <2>6. ASSUME NEW f \in Mirror!Files
          PROVE  \/ Intact(f)'
                 \/ f \notin Gzipped /\ mirrored'[f].text = 0
                 \/ f \notin Gzipped /\ 1 \in Gzipped /\ mirrored'[f].text = 1
      <3>1. CASE f = listed
        BY <2>1, <2>3, <2>5, <3>1
      <3>2. CASE f # listed
        BY <1>1, <2>5, <3>2 DEF MirrorInv, FilesInv, Intact
      <3> QED BY <3>1, <3>2
    <2> QED BY <2>2, <2>4, <2>6 DEF FilesInv
  <1> QED BY <1>2, <1>3

LEMMA MirrorJigdo ==
  ASSUME MirrorUsual, MirrorInv, Mirror!Jigdo
  PROVE  MirrorInv'
  <1> USE MirrorFacts
  <1> DEFINE text == mirrored'[number].text
  <1>1. /\ step = "jigdo"
        /\ UNCHANGED <<now, published, masters, made, wrong, come>>
        /\ mirrored' = Mirror!Unpacked
        /\ IF number \in Gzipped THEN UNCHANGED <<linked, own>>
                                 ELSE linked' = 0 /\ own' = Mirror!Nothing
    BY DEF Mirror!Jigdo, Mirror!NoTemplate
  <1>2. /\ number \in Mirror!Files /\ linked' \in Mirror!Images \union {0}
        /\ come \subseteq Mirror!Images
        /\ listed = 0 \/ listed \in Mirror!Files \ Gzipped
    BY <1>1 DEF MirrorInv, PlaceInv
  <1>3. 1 \in Gzipped => mirrored'[1].text = 1
    BY MirrorUnpacked DEF FilesInv, Intact, Mirror!Jigdofile
  <1>4. text = 0 \/ text \in Mirror!Files
    BY <1>2, MirrorUnpacked DEF FilesInv, Intact, Mirror!Jigdofile
  <1>5. IF text = 0 THEN Mirror!NextFile /\ UNCHANGED current
        ELSE /\ listed' = (IF number \in Gzipped THEN listed ELSE number)
             /\ current' = CHOOSE i \in Mirror!Images :
                             /\ FileOf[i] = text
                             /\ \A j \in 1..i - 1 : FileOf[j] # text
             /\ step' = "section" /\ number' = number
    BY <1>1 DEF Mirror!Jigdo
  <1> HIDE DEF text
  <1>6. ASSUME text = 0
       PROVE  PlaceInv' /\ TemplateInv' /\ FirstInv'
    <2>1. /\ listed' = 0
          /\ \/ step' = "jigdo" /\ number' = number + 1 /\ number + 1 \in Mirror!Files
             \/ step' = "expire" /\ number' = number
      <3>1. Mirror!Cardinality(Mirror!Files) = Cardinality(Mirror!Files)
        BY Zenon DEF Mirror!Cardinality, Cardinality
      <3>2. number < Cardinality(Mirror!Files) => number + 1 \in Mirror!Files
        BY <1>2
      <3> QED BY <1>5, <1>6, <3>1, <3>2 DEF Mirror!NextFile
    <2>2. PlaceInv'
      BY <1>1, <1>2, <2>1 DEF PlaceInv, AtImage, Making
    <2>3. TemplateInv'
      BY <2>1 DEF TemplateInv, AtImage
    <2>4. FirstInv'
      <3>1. 1 \in Gzipped => number # 1
        BY <1>3, <1>6 DEF text
      <3>2. 1 \in Gzipped =>
              \A i \in Mirror!Images : FileOf[i] = 1 => i \in come
        BY <1>1, <3>1 DEF MirrorInv, FirstInv
      <3> QED BY <1>1, <1>2, <2>1, <3>2 DEF FirstInv, AtImage
    <2> QED BY <2>1, <2>2, <2>3, <2>4
  <1>7. ASSUME text # 0
       PROVE  PlaceInv' /\ TemplateInv' /\ FirstInv'
    <2>1. PICK i \in Mirror!Images :
            FileOf[i] = text /\ \A j \in 1..i - 1 : FileOf[j] # text
      <3> DEFINE S == {i \in Mirror!Images : FileOf[i] = text}
      <3>1. S \subseteq Nat /\ S # {}
        BY <1>4, <1>7 DEF Mirror!Files
      <3>2. PICK m \in S : \A k \in S : m <= k
        BY <3>1, MirrorLeast
      <3> HIDE DEF S
      <3>3. ASSUME NEW j \in 1..m - 1
            PROVE  j \notin S
        <4>1. m \in Nat /\ ~(m <= j)
          BY <3>1
        <4> QED BY <3>2, <4>1
      <3>4. m \in Mirror!Images /\ FileOf[m] = text
        BY DEF S
      <3>5. \A j \in 1..m - 1 : FileOf[j] # text
        <4>1. \A j \in 1..m - 1 : j \in Mirror!Images
          BY <3>4
        <4> QED BY <3>3, <4>1 DEF S
      <3> QED BY <3>4, <3>5
    <2>2. /\ current' \in Mirror!Images /\ FileOf[current'] = text
          /\ \A j \in 1..current' - 1 : FileOf[j] # text
      BY <1>5, <1>7, <2>1
    <2>3. /\ listed' = (IF number \in Gzipped THEN listed ELSE number)
          /\ step' = "section" /\ number' = number
      BY <1>5, <1>7
    <2>4. PlaceInv'
      BY <1>1, <1>2, <2>2, <2>3 DEF PlaceInv, AtImage, Making, text
    <2>5. TemplateInv'
      BY <1>1, <2>3 DEF TemplateInv
    <2>6. FirstInv'
      <3> SUFFICES ASSUME 1 \in Gzipped, NEW j \in Mirror!Images, FileOf[j] = 1
                   PROVE  /\ number # 1 => j \in come
                          /\ number = 1 /\ j < current' => j \in come
        BY <1>1, <2>3 DEF FirstInv
      <3>1. number # 1 => j \in come
        BY <1>1 DEF MirrorInv, FirstInv
      <3>2. number = 1 => text = 1
        BY <1>3 DEF text
      <3>3. j < current' => j \in 1..current' - 1
        BY <2>2
      <3> QED BY <2>2, <3>1, <3>2, <3>3
    <2> QED BY <2>3, <2>4, <2>5, <2>6
  <1>8. PlaceInv' /\ TemplateInv' /\ FirstInv'
    BY <1>6, <1>7
  <1>9. MadeInv' /\ MastersInv'
    BY <1>1 DEF MirrorInv, MadeInv, MastersInv, IsCurrent, Published, Mirror!Current
  <1>10. SeenInv'
    BY <1>1 DEF MirrorInv, SeenInv, IsCurrent, Published, Mirror!Current, Making, AtImage
  <1> QED BY <1>1, <1>8, <1>9, <1>10, MirrorUnpacked DEF MirrorInv

\* At the end of a run, or when it is killed
LEMMA MirrorEnds ==
  ASSUME MirrorUsual, MirrorInv, Mirror!Expire \/ Mirror!Kill
  PROVE  MirrorInv'
  <1> USE MirrorFacts
  <1>1. /\ MirrorSame /\ UNCHANGED <<linked, own, listed, number, current>>
        /\ step' = "idle" /\ come' \in {come, Mirror!Images}
        /\ made' = [i \in Mirror!Images |-> made'[i]]
        /\ \A i \in Mirror!Images : made'[i] \in {made[i], Mirror!NoImage}
    <2>1. made = [i \in Mirror!Images |-> made[i]]
      BY DEF MirrorInv
    <2> QED BY <2>1 DEF Mirror!Expire, Mirror!Kill, Mirror!work, MirrorSame
  <1>2. MadeInv'
    <2>1. Mirror!NoImage = [from |-> Mirror!NoImage.from, time |-> Mirror!NoImage.time]
          /\ Mirror!NoImage.time = 0
      BY DEF Mirror!NoImage
    <2>2. ASSUME NEW i \in Mirror!Images
          PROVE  /\ made'[i] = [from |-> made'[i].from, time |-> made'[i].time]
                 /\ made'[i].time \in 0..now'
                 /\ made'[i] # Mirror!NoImage /\ Published(i)' <= made'[i].time =>
                      IsCurrent(i)'
      <3>1. CASE made'[i] = Mirror!NoImage
        BY <1>1, <2>1, <3>1 DEF MirrorInv, MirrorSame
      <3>2. CASE made'[i] = made[i]
        BY <1>1, <3>2
           DEF MirrorInv, MadeInv, IsCurrent, Published, Mirror!Current, MirrorSame
      <3> QED BY <1>1, <3>1, <3>2
    <2> QED BY <2>2 DEF MadeInv
  <1>3. ~AtImage' /\ step' = "idle"
    BY <1>1 DEF AtImage
  <1>4. PlaceInv'
    BY <1>1, <1>3 DEF MirrorInv, PlaceInv, Making
  <1>5. TemplateInv' /\ FirstInv' /\ SeenInv'
    BY <1>3 DEF TemplateInv, FirstInv, SeenInv
  <1>6. FilesInv' /\ now' \in Nat /\ published' \in [Mirror!Files -> 0..now']
        /\ mirrored' = [f \in Mirror!Files |-> mirrored'[f]]
    BY <1>1, MirrorStays DEF MirrorSame
  <1> QED BY <1>1, <1>2, <1>4, <1>5, <1>6, MirrorMasters DEF MirrorInv

LEMMA MirrorStart ==
  ASSUME MirrorUsual, MirrorInv, Mirror!Start
  PROVE  MirrorInv'
  <1> USE MirrorFacts
  <1>1. /\ MirrorSame /\ UNCHANGED <<made, linked, own, listed>>
        /\ step' = "jigdo" /\ come' = {} /\ number' = 1
    BY DEF Mirror!Start, Mirror!work, MirrorSame
  <1>2. MadeInv'
    BY <1>1 DEF MirrorInv, MadeInv, IsCurrent, Published, Mirror!Current, MirrorSame
  <1>3. ~AtImage'
    BY <1>1 DEF AtImage
  <1>4. PlaceInv'
    BY <1>1, <1>3 DEF MirrorInv, PlaceInv, Making
  <1>5. TemplateInv' /\ FirstInv' /\ SeenInv'
    BY <1>1, <1>3 DEF TemplateInv, FirstInv, SeenInv
  <1>6. FilesInv' /\ now' \in Nat /\ published' \in [Mirror!Files -> 0..now']
        /\ mirrored' = [f \in Mirror!Files |-> mirrored'[f]]
    BY <1>1, MirrorStays DEF MirrorSame
  <1>7. made' = [i \in Mirror!Images |-> made'[i]]
    BY <1>1 DEF MirrorInv
  <1> QED BY <1>2, <1>4, <1>5, <1>6, <1>7, <1>1, MirrorMasters DEF MirrorInv

\* A new version, or one that is fetched again: between two runs.
LEMMA MirrorUpdated ==
  ASSUME MirrorUsual, MirrorInv, step = "idle", NEW f \in Mirror!Files, NEW v,
         Mirror!Updated(f, v), now' \in Nat, now <= now', v \in 0..now',
         published' = [published EXCEPT ![f] = v],
         v = published[f] \/ now < v,
         UNCHANGED <<made, linked, own, listed, step, number, current, wrong, come>>
  PROVE  MirrorInv'
  <1> USE MirrorFacts
  <1>1. /\ now \in Nat /\ published \in [Mirror!Files -> 0..now]
        /\ mirrored = [g \in Mirror!Files |-> mirrored[g]]
    BY DEF MirrorInv
  <1>2. published' \in [Mirror!Files -> 0..now'] /\ published'[f] = v
        /\ \A g \in Mirror!Files : g # f => published'[g] = published[g]
    BY <1>1
  <1>3. mirrored' = [mirrored EXCEPT ![f] = Mirror!Jigdofile(f, v, v)]
    BY DEF Mirror!Updated
  <1>4. mirrored' = [g \in Mirror!Files |-> mirrored'[g]]
        /\ mirrored'[f] = Mirror!Jigdofile(f, v, v)
        /\ \A g \in Mirror!Files : g # f => mirrored'[g] = mirrored[g]
    BY <1>1, <1>3
  <1>5. FilesInv'
    <2> SUFFICES ASSUME NEW g \in Mirror!Files
                 PROVE  \/ Intact(g)'
                        \/ g \notin Gzipped /\ mirrored'[g].text = 0
                        \/ g \notin Gzipped /\ 1 \in Gzipped /\ mirrored'[g].text = 1
      BY DEF FilesInv
    <2>1. CASE g = f
      BY <1>2, <1>4, <2>1 DEF Intact
    <2>2. CASE g # f
      BY <1>2, <1>4, <2>2 DEF MirrorInv, FilesInv, Intact
    <2> QED BY <2>1, <2>2
  <1>6. masters' = [i \in Mirror!Images |-> IF FileOf[i] = f THEN Mirror!TemplateFor(i, v)
                                            ELSE masters[i]]
    BY DEF Mirror!Updated
  <1>7. MastersInv' /\ masters' = [i \in Mirror!Images |-> masters'[i]]
    <2>1. ASSUME NEW i \in Mirror!Images, masters'[i].of = i
          PROVE  masters'[i] = Mirror!Current(i)'
      <3>1. CASE FileOf[i] = f
        BY <1>2, <1>6, <3>1 DEF Mirror!Current
      <3>2. CASE FileOf[i] # f
        BY <1>2, <1>6, <2>1, <3>2 DEF MirrorInv, MastersInv, Mirror!Current
      <3> QED BY <3>1, <3>2
    <2> QED BY <1>6, <2>1 DEF MastersInv
  <1>8. MadeInv'
    <2> SUFFICES ASSUME NEW i \in Mirror!Images
                 PROVE  /\ made[i] = [from |-> made[i].from, time |-> made[i].time]
                        /\ made[i].time \in 0..now'
                        /\ made[i] # Mirror!NoImage /\ Published(i)' <= made[i].time =>
                             IsCurrent(i)'
      BY DEF MadeInv
    <2>1. /\ made[i] = [from |-> made[i].from, time |-> made[i].time]
          /\ made[i].time \in 0..now
          /\ made[i] # Mirror!NoImage /\ Published(i) <= made[i].time => IsCurrent(i)
      BY DEF MirrorInv, MadeInv
    <2>2. CASE FileOf[i] # f \/ v = published[f]
      BY <1>1, <1>2, <2>1, <2>2 DEF IsCurrent, Published, Mirror!Current
    <2>3. CASE FileOf[i] = f /\ now < v
      BY <1>1, <1>2, <2>1, <2>3 DEF Published
    <2> QED BY <1>1, <2>2, <2>3
  <1>9. ~AtImage /\ ~AtImage' /\ step' = "idle"
    BY DEF AtImage
  <1>10. PlaceInv'
    BY <1>9 DEF MirrorInv, PlaceInv, Making
  <1>11. TemplateInv' /\ FirstInv' /\ SeenInv'
    BY <1>9 DEF TemplateInv, FirstInv, SeenInv
  <1>12. made' = [i \in Mirror!Images |-> made'[i]]
    BY DEF MirrorInv
  <1> QED BY <1>2, <1>4, <1>5, <1>7, <1>8, <1>10, <1>11, <1>12 DEF MirrorInv

LEMMA MirrorNewVersion ==
  ASSUME MirrorUsual, MirrorInv, NEW f \in Mirror!Files,
         Mirror!Publish(f) \/ Mirror!Sync(f)
  PROVE  MirrorInv'
  <1>1. now \in Nat /\ published \in [Mirror!Files -> 0..now]
    BY DEF MirrorInv
  <1>2. UNCHANGED <<made, linked, own, listed, step, number, current, wrong, come>>
    BY DEF Mirror!Publish, Mirror!Sync, Mirror!work, Mirror!control
  <1>3. CASE Mirror!Publish(f)
    <2>1. /\ step = "idle" /\ Mirror!Updated(f, now') /\ now' = now + 1
          /\ published' = [published EXCEPT ![f] = now']
      BY <1>3 DEF MirrorUsual, Mirror!Publish
    <2>2. PICK v : v = now'
      OBVIOUS
    <2>3. /\ Mirror!Updated(f, v) /\ published' = [published EXCEPT ![f] = v]
          /\ v \in 0..now' /\ now' \in Nat /\ now < v /\ now <= now'
      BY <1>1, <2>1, <2>2
    <2> QED BY <1>2, <2>1, <2>3, MirrorUpdated
  <1>4. CASE Mirror!Sync(f)
    <2>1. /\ step = "idle" /\ Mirror!Updated(f, published[f]) /\ now' = now
          /\ published' = published
      BY <1>4 DEF Mirror!Sync
    <2>2. published' = [published EXCEPT ![f] = published[f]]
      BY <1>1, <2>1
    <2>3. PICK v : v = published[f]
      OBVIOUS
    <2>4. /\ Mirror!Updated(f, v) /\ published' = [published EXCEPT ![f] = v]
          /\ v \in 0..now' /\ now' \in Nat /\ now <= now'
      <3>1. v \in 0..now /\ now' = now
        BY <1>1, <2>1, <2>3
      <3>2. v \in 0..now' /\ now' \in Nat /\ now <= now'
        BY <1>1, <3>1
      <3>3. Mirror!Updated(f, v)
        BY <2>1, <2>3, Zenon
      <3>4. published' = [published EXCEPT ![f] = v]
        BY <2>2, <2>3, Zenon
      <3> QED BY <3>2, <3>3, <3>4
    <2> QED BY <1>2, <2>1, <2>3, <2>4, MirrorUpdated
  <1> QED BY <1>3, <1>4

LEMMA MirrorTick ==
  ASSUME MirrorUsual, MirrorInv, Mirror!Tick \/ UNCHANGED Mirror!vars
  PROVE  MirrorInv'
  <1>1. now \in Nat /\ now' \in {now, now + 1}
        /\ UNCHANGED <<published, mirrored, masters, made, linked, own, listed,
                       step, number, current, wrong, come>>
    BY DEF MirrorInv, Mirror!Tick, Mirror!vars, Mirror!work, Mirror!control
  <1>2. published' \in [Mirror!Files -> 0..now'] /\ now' \in Nat
    <2>1. published \in [Mirror!Files -> 0..now]
      BY DEF MirrorInv
    <2> QED BY <1>1, <2>1
  <1>3. MadeInv'
    BY <1>1 DEF MirrorInv, MadeInv, IsCurrent, Published, Mirror!Current
  <1>4. FilesInv' /\ MastersInv'
    BY <1>1 DEF MirrorInv, FilesInv, MastersInv, Intact, Mirror!Current
  <1>5. PlaceInv'
    BY <1>1 DEF MirrorInv, PlaceInv, AtImage, Making
  <1>6. TemplateInv'
    BY <1>1 DEF MirrorInv, TemplateInv, AtImage, Mirror!Current, Mirror!Found
  <1>7. FirstInv' /\ SeenInv'
    BY <1>1 DEF MirrorInv, FirstInv, SeenInv, AtImage, Making, IsCurrent, Published,
                Mirror!Current
  <1> QED BY <1>1, <1>2, <1>3, <1>4, <1>5, <1>6, <1>7 DEF MirrorInv

LEMMA MirrorBegins ==
  ASSUME MirrorUsual, Mirror!Init
  PROVE  MirrorInv
  <1> USE MirrorFacts
  <1>1. /\ now = 1 /\ published = [f \in Mirror!Files |-> 0]
        /\ mirrored = [f \in Mirror!Files |-> Mirror!Jigdofile(f, 0, 0)]
        /\ masters = [i \in Mirror!Images |-> Mirror!TemplateFor(i, 0)]
        /\ made = [i \in Mirror!Images |-> Mirror!NoImage]
        /\ linked = 0 /\ listed = 0 /\ step = "idle" /\ number = 1
        /\ come = Mirror!Images
    BY DEF Mirror!Init
  <1>2. ~AtImage /\ step = "idle"
    BY <1>1 DEF AtImage
  <1>3. TemplateInv /\ FirstInv /\ SeenInv
    BY <1>2 DEF TemplateInv, FirstInv, SeenInv
  <1>4. PlaceInv
    BY <1>1, <1>2 DEF PlaceInv, Making
  <1>5. FilesInv
    BY <1>1 DEF FilesInv, Intact
  <1>6. MastersInv
    BY <1>1 DEF MastersInv, Mirror!Current
  <1>7. MadeInv
    BY <1>1 DEF MadeInv, Mirror!NoImage
  <1> QED BY <1>1, <1>3, <1>4, <1>5, <1>6, <1>7 DEF MirrorInv

\* After a run of jigdo-mirror each image in place is that of the newest .jigdo
\* file; the others have failed, and the variable exitCode says so.  That is so
\* although a run that was killed may have left "jigdo" as a link, through which
\* the next writes into the mirror, and "template" as one that wget writes to.
THEOREM NoneIsOutdated ==
  ASSUME MirrorUsual
  PROVE  Mirror!Spec => []Mirror!NoneOutdated
  <1>1. Mirror!Init => MirrorInv
    BY MirrorBegins
  <1>2. MirrorInv /\ [Mirror!Next]_(Mirror!vars) => MirrorInv'
    <2> SUFFICES ASSUME MirrorInv, [Mirror!Next]_(Mirror!vars) PROVE MirrorInv'
      OBVIOUS
    <2>1. ASSUME NEW f \in Mirror!Files, Mirror!Publish(f) \/ Mirror!Sync(f)
          PROVE  MirrorInv'
      BY <2>1, MirrorNewVersion
    <2>2. CASE Mirror!Start
      BY <2>2, MirrorStart
    <2>3. CASE Mirror!Tick \/ UNCHANGED Mirror!vars
      BY <2>3, MirrorTick
    <2>4. CASE Mirror!Kill \/ Mirror!Expire
      BY <2>4, MirrorEnds
    <2>5. CASE \/ Mirror!NotFound \/ Mirror!FetchFails \/ Mirror!Misfit
               \/ Mirror!LocalFails \/ Mirror!Incomplete
      <3>1. Mirror!GiveUp /\ Making
        BY <2>5 DEF Mirror!NotFound, Mirror!FetchFails, Mirror!Misfit,
                    Mirror!LocalFails, Mirror!Incomplete, Making, AtImage
      <3> QED BY <3>1, MirrorGiveUp
    <2>6. CASE Mirror!Link \/ Mirror!Fetch
      BY <2>6, MirrorTemplate
    <2>7. CASE Mirror!Check \/ Mirror!Local \/ Mirror!MergeFails
      BY <2>7, MirrorGoesOn
    <2>8. CASE Mirror!Jigdo
      BY <2>8, MirrorJigdo
    <2>9. CASE Mirror!UpToDate
      BY <2>9, MirrorUpToDate
    <2>10. CASE Mirror!Outdated
      BY <2>10, MirrorOutdated
    <2>11. CASE Mirror!Complete
      BY <2>11, MirrorComplete
    <2> QED BY <2>1, <2>2, <2>3, <2>4, <2>5, <2>6, <2>7, <2>8, <2>9, <2>10, <2>11
            DEF Mirror!Next, Mirror!Script
  <1>3. MirrorInv => Mirror!NoneOutdated
    BY DEF MirrorInv, PlaceInv, SeenInv, IsCurrent, Making, AtImage, Mirror!NoneOutdated
  <1> QED BY <1>1, <1>2, <1>3, PTL DEF Mirror!Spec
=============================================================================
