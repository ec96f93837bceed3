# jigdo: specifications and proofs

jigdo distributes large images (CDs, DVDs) as a *template* that holds only
what is unique to the image, a *.jigdo file* that says where the rest is to be
found, and the files themselves. `jigdo-file make-template` splits an image,
`jigdo-file make-image` puts it together again, in as many runs as it takes to
get hold of all the files. The scripts `jigdo-lite` and `jigdo-mirror` drive it;
the program `jigdo` (GTK) downloads the files itself and is unfinished upstream.

This directory holds TLA+ models of these programs, configurations with which
TLC checks small instances of them, and proofs of the main properties, for all
instances, which TLAPS checks. Paths are relative to `src/` of the repository
unless they name a module.

    tlc -config greedy.cfg MCTemplate      # check one configuration
    tlapm MkImage_proof.tla                # check the proofs of a module

`PROJECT.json` lists components, runs, mutants, findings, hazards and theorems,
and maps each definition to the lines of code that it models.

## 1. The system

| Component | Source | State it keeps | What is hard | Module |
|---|---|---|---|---|
| Template generation | `mktemplate.*` | circular buffer, rolling checksum, pending matches, DESC entries | data leaves the buffer while a match is possible; many matches at once; end of the image | `MkTemplate` |
| Queue of partial matches | `partialmatch.*` | up to `MAX_MATCHES` (2048) entries by next event | order, overflow, which one to drop; pointers | `PartialMatchQueue`, `PartialMatchList` |
| Image creation | `mkimage.*` | the image, `<image>.tmp` with a DESC section at its end | many runs, crashes between any two writes, files that change, late write errors | `MkImage`, `ImageAssembly`, `DescFormat` |
| Files, checksum cache | `scan.*`, `cachefile.*` | sums of blocks and files; a Berkeley DB | sums of the first block only, stale entries, changed parameters, expiry | `JigdoCache`, `CacheFile` |
| File list | `recursedir.*` | stack of directories, queue of names | links, loops, errors in the middle | `RecurseDir` |
| Rolling checksums | `util/rsyncsum.*` | two sums | arithmetic modulo a word | `RsyncSum64`, `RsyncSum` |
| Digests, Base64 | `util/glibc-md5.cc`, `util/glibc-sha256.cc`, `util/md5sum.*`, `util/sha256sum.*`, `util/mimestream.hh` | buffer, counters, leftover bits | block boundaries, long messages, copied objects | `MessageDigest`, `Base64` |
| Compressed data | `zstream*` | part, lengths, codec | two formats, reads and writes of any size | `Zobstream`, `Zibstream` |
| .gz input | `util/gunzip.*` | state of the header | pieces of any size | `Gunzip` |
| .jigdo files | `util/configfile.*`, `jigdoconfig.*`, `mkjigdo.cc` | lines, ring of sections, label map | recursion, iterators into lists that change | `ConfigFile`, `JigdoConfig`, `MkJigdo` |
| URLs of parts | `job/url-mapping.*` | graph of labels and URLs | order of lines, cycles, enumeration | `UrlMap` |
| Command line | `jigdo-file*.cc` | options, files, status | defaults, errors, names | `JigdoFile`, `JigdoFileCmd` |
| Messages | `util/string-utf.cc`, `job/makeimagedl-info.cc` | | escapes, markup, UTF-8 | `Subst`, `ImageInfo` |
| Scripts | `scripts/jigdo-lite`, `scripts/jigdo-mirror` | files left by earlier runs | kills, partial downloads, leftovers | `JigdoLite`, `JigdoMirror` |
| libcurl in the main loop | `glibcurl/glibcurl.c` | mutex, counter, thread; file descriptors | two threads; what is polled | `GlibCurl`, `GlibCurlPoll` |
| Download of a URL | `net/download.*`, `job/single-url.*`, `gtk/gtk-single-url.*` | transfer, file, timer | stop inside a callback, resume with overlap | `GtkSingleUrl` |
| Files of the cache | `job/cached-url.*` | active objects, idle source | objects deleted inside the loop | `CachedUrl` |
| Tree of .jigdo files | `job/jigdo-io.*` | tree of includes | downloads in parallel that end in any order | `JigdoIO` |
| Files of an image | `job/makeimagedl.*` | children, cache directory | alternatives, restarts | `ChildDownloads` |
| Proxies | `net/proxyguess.*` | settings of other programs | age of files, syntax | `ProxyGuess` |
| Windows | `gtk/joblist.*`, `gtk/jobline.*`, `gtk/messagebox.*` | rows, timers, boxes | rows deleted in a walk, answers that come late | `JobLines`, `Dialogs` |
| Support | `util/progress.*`, `job/job.hh`, `util/ilist.hh`, `util/smartptr.hh`, `util/autonullptr.hh` | ring of samples, lists of listeners, counts | wrap-around, nested calls | `Progress`, `IOSource`, `SmartPtr` |

How they interact. `jigdo-file` is one sequential process. `make-template`
asks the *file list* and the *cache* for the files, then *scans* the image: each
byte rolls the checksum, a hit puts an entry into the *queue*, due entries ask
the cache for the sum of a block (which may read the file then), and the result
goes to the *template* as compressed data and DESC entries, and to the .jigdo
file (`MkJigdo`). `make-image` reads DESC from the template, asks the cache for
files, and copies data from the template and the files to `<image>.tmp`; the
next run reads *that* file's DESC instead. The scripts call it again and again
and act on its exit status. The graphical program runs a tree of jobs in one
event loop, connected by callbacks of `IOSource`; the files of the tree
(`JigdoIO`) arrive over `GtkSingleUrl` and `GlibCurl` or from the cache
(`CachedUrl`), `ChildDownloads` says which are needed, `UrlMap` where they are.

What the models take from each other: `MkTemplate` extends the queue, and uses
of the cache the four states a `FilePart` can be in; `MkImage` stands on the
round trip of DESC (`DescFormat`) and of the streams (`Zobstream`, `Zibstream`);
`JigdoFileCmd` takes `make-image` as steps on the sets of parts that `MkImage`
justifies, and the scripts take `jigdo-file` likewise.

## 2. Modules

A component has one module: its state, `Init`, an action for each handler or
loop, `Next`, the specification, then its properties. Names are those of the
code where there is one. Each module begins with what a state stands for and
what is abstracted. Beside a definition stands its mutated form (`XLate` after
`X`, and so on): the change a plausible bug would make. `PROJECT.json` lists one
per checked property; the others break further parts of properties that are
made of parts.

    PartialMatchQueue <- MkTemplate <- MkTemplate_proof     (EXTENDS)
    PartialMatchQueue <- PartialMatchList
    ImageAssembly <- MkImage <- MkImage_proof               (INSTANCE WITH; EXTENDS; and
                                                             the scripts by INSTANCE)
    JigdoCache <- JigdoCache_proof
    GtkSingleUrl <- GtkSingleUrl_proof                      (and CachedUrl, GlibCurlPoll,
                                                             IOSource by INSTANCE)
    GlibCurl, RsyncSum64, PartialMatchQueue, PartialMatchList   (proofs at their end)

    MCTemplate   MkTemplate*, PartialMatchList, JigdoCache, CacheFile, RecurseDir
    MCImage      MkImage*, JigdoFileCmd, JigdoFile, JigdoLite, JigdoMirror
    MCFormats    RsyncSum64*, RsyncSum, MessageDigest, Base64, DescFormat, Zobstream, Zibstream, Gunzip;
                 ConfigFile, JigdoConfig, MkJigdo, UrlMap, Subst, ImageInfo
    MCDownloads  GlibCurl*, GlibCurlPoll, GtkSingleUrl, CachedUrl, JigdoIO, ChildDownloads,
                 ProxyGuess, JobLines, Dialogs, Progress, IOSource, SmartPtr

The `MC` modules are suites. The components of a suite share no state, so one
behaviour need only be about one of them: the variable `subject` names it, is
chosen by `SuiteInit` from the constant `Subjects`, and never changes. The
component with a `*` is extended and has its own variables; the others are
instances, several of some, whose variables are the slots `v1`, `v2`, ... Slots
that a subject does not use are `"idle"`. A property of a suite is a
conjunction of `subject = "x" => X!P`, in a temporal formula with the
implication inside of the outermost operator, so that it says of each subject
what `P` says of the component; `WF` of a disjunction over subjects is `WF` for
each, since a behaviour has one subject.

### MkTemplate, PartialMatchQueue, PartialMatchList

A state of `MkTemplate` is `scanImage()` at the top of one of its loops; `pc`
names it. `out` collects `unmatchedStart`, the DESC section, the bytes given to
the compressor, and the end of the last area, as `debugRangeFailed()` keeps it.

| Action | Code |
|---|---|
| `ReadChunk` | top of the main loop: flush what the read may destroy, read |
| `Schedule` | top of the loop over the chunk |
| `RollByte`, `CheckFile` | the innermost loop; `checkRsyncSumMatch`, `checkRsyncSumMatch2` |
| `FastForward` | the same when the queue is full |
| `ReachEvent`, `EventsDone` | the event loop and what follows it |
| `Mismatch`, `NextBlock`, `IgnoreMatch`, `FileMatch` | the outcomes of `checkChecksumMatch` |
| `Finish` | `unmatchedAtEnd`, ImageInfo, writing of DESC |
| `TemplateError`, `LoseFile` | a template that cannot be written; a file that vanishes (environment) |

Checksums of blocks and files are the data they were computed of; RsyncSum is a
constant operator, and the instances use one that collides. The bytes of image
and buffer are kept exactly: which bytes are where when is what the properties
are about. Which of the two variants of the innermost loop runs is left open.

`PartialMatchList` has the two linked lists (used and free entries), the loops
over pointers one object per step. `ListStep` says that a step is what the
operators of `PartialMatchQueue` make of the queue, or leaves it alone.

### MkImage, ImageAssembly

`MkImage` has what is on disk (`tmp`, `image`) and the run that is under way
(`pc`, `task`, `toCopy`, `missing`, `written`, `next`, `result`, `exit`). A file
is the set of areas that are right in it; an area is an entry of DESC.

| Action | Code |
|---|---|
| `Refuse`, `Start` | `willOutputTo`, `readTmpFile`, choice of the task, scan of the files supplied, early exits |
| `CopyData`, `WriteZeroes`, `CopyFile`, `EndCopy` | `writeAll`, one entry at a time |
| `MergeFile`, `MergeSkip`, `EndMerge` | `writeMerge`, one entry at a time |
| `AppendDesc`, `UpdateDesc`, `EndUpdate` | DESC at the end of the temporary file; its update in place, entry by entry |
| `CloseFile`, `Truncate`, `Rename` | the end of a complete image |
| `IoError`, `MergeErrorUnseen`, `CloseLoses`, `DescLost`, `Crash` | faults of the run; the middle three are write errors the code does not look for |
| `Break`, `Repair` | an input file changes; it is replaced (environment) |

Writes reach the disk in program order. A killed process loses a suffix of what
it wrote, which is the same as dying earlier. Write errors that show only when
a buffer is flushed are what `LateErrors` permits. A loss of power that reorders
writes is not modelled: nothing in the code calls fsync().

`ImageAssembly` is the promise: parts are saved, never lost, and the image
appears when all are there. Mapping: `saved` is what DESC of the temporary file
calls written, or every part when that file is a complete image that has only
lost its DESC section; `done` says that the image exists. The exception is
`Discard`: a crash between truncation and renaming leaves a complete temporary
file that the next run cannot tell from garbage; with `--force` it starts again.

### The other modules, in a line each

* `JigdoCache`: `addFile`, `getMD5Sums*`, look-up and storing of entries, time
  going on, files changing, kills. `CacheFile`: `find`, `insert`, `expire` with the
  bytes of an entry; that a call of libdb fails and leaves the buffer as it was is
  possible (what it holds then is what the last call left, the build's choice).
* `RecurseDir`: `getName` and `getNextObjectName`, a system call's failure anywhere.
* `RsyncSum64`: `addBack`, `removeFront`, `addBackNtimes`, and the loop over many
  bytes, modulo `Width`. `RsyncSum`: the 32-bit sum in halves of a word.
* `MessageDigest`: `process_bytes`, `finish_ctx`, `md5_count`, copies of objects; the
  compression function is taken as injective. `Base64`: put and flush, and the
  decoder of labels.
* `DescFormat`: writing and reading of DESC field by field, and what damage (a
  changed byte, a file cut off) does to reading.
* `Zobstream`, `Zibstream`, `Gunzip`: framing, list of buffers, header; codecs are
  stand-ins that consume and produce in any way their interface allows.
* `ConfigFile`: lines and the ring of sections, search, `split` and `quote`.
  `JigdoConfig`: `rescan` with its recursion as a stack. `MkJigdo`: what
  make-template writes into a .jigdo file. `UrlMap`: `addServer`, `addPart`, `enumerate`.
* `JigdoFile`: `cmdOptions()`, and what `MyProgressReporter` writes to the terminal while
  the command runs. `JigdoFileCmd`, `Subst`, `ImageInfo`: see their heads.
* `JigdoLite`, `JigdoMirror`: a state is the files on disk and the place in the
  script; kills happen between any two steps. jigdo-mirror is assumed to have the
  right to write to the mirror's files, since it may follow links to them.
* `GlibCurl`: `prepare`, `check`, `dispatch` and `selectThread` with mutex,
  condition variable and request counter, step by step. The program adds and
  removes transfers whenever jigdo can: in the callback, in other callbacks of the
  main loop (between `prepare` and `dispatch`, too), and while other transfers and
  the select thread run. Two history variables record what goes wrong then:
  `overtaken`, how often `prepare` took the mutex for a new transfer while the
  select thread was there, and `skipped`, whether that thread was about to end.
* `GlibCurlPoll`: the build without thread; which descriptors are polled.
* `GtkSingleUrl`: `Download`, `SingleUrl` and the line of the list, with buttons and
  timer. `CachedUrl`, `JigdoIO`, `ChildDownloads`, `ProxyGuess`: as in section 1. In
  `CachedUrl` a listener may delete the object and start the next one in the same
  call, as `MakeImageDl::childFailed()` does; the history variable `reused` has the
  objects that the erasure which follows then takes out of the set by mistake.
* Errors are steps or outcomes of their own: data that zlib or bzip2 refuses
  (`DataError` of `Zibstream`, `PackedBad` of `Gunzip`), options of a URL that do not
  parse (`BadLines` of `UrlMap`; the line is entered all the same), cursors that libdb
  does not give (`NoCursor` of `CacheFile`), templates that are in no directory
  (`NotFound` of `JigdoMirror`), data for a stream that does not exist
  (`GtkSingleUrl`, `NoNull` in section 6); and with `DiskFaults` of `ChildDownloads`, a
  directory that cannot be made (`RunFails`), an entry of the cache that cannot be
  opened or is no file (`UsableSets`), and a failing rename.
* `JobLines`, `Dialogs`, `Progress`, `IOSource`, `SmartPtr`: likewise. `Progress` is
  shown to follow the window of the newest samples (`WindowFollowed`).

## 3. Runs

| Run | Subjects | What it shows |
|---|---|---|
| `greedy` | the scan | tiling, order of the queue, needed data is buffered, template rebuilds the image, every occurrence is covered, DESC sums up, decisions are final, the scan ends |
| `templates` | scans with losses, `--no-greedy-matching`, full queue; list; cache, `--no-check-files`; database, with errors; tree | success still means a right template; list = queue; sums are not stale; entries live as long as they are used; each file once; walks end |
| `assemble` | make-image | image, temporary file, exit status, refinement of `ImageAssembly`, liveness |
| `commands` | make-image with late errors; three of jigdo-file; options; progress line | honesty of the temporary file, truth of what commands say, legal lengths, distinct names, lines on the terminal |
| `scripts` | jigdo-lite (three), jigdo-mirror (two) | nothing lost, nothing of unknown content used, all images made |
| `formats` | window, area, digests, Base64, DESC, streams; lines, words, servers, merges, URLs, messages, info | sums and digests are those of the definition, what is packed is unpacked, damage is detected; searches, quoting, expansion of labels, merged files, URLs once and best first, text and markup; calls return, recursion ends |
| `downloads` | threads, polling, downloads, cache, trees, children, proxies | exclusion, requests counted, when a transfer can be forgotten, resumes, first `[Image]`, contents of the cache; everything ends |
| `gui` | lists, boxes, progress, listeners, pointers | counters, walks, pointers, samples, calls, life of objects |
| `failcause`, `twice`, `smallfile`, `leftover` | | one claim each, violated: section 6 |

Bounds, and why they are enough:

* Scan: `BlockLength` 2, `CsumBlockLength` 3, `ReadAmount` 3 and `Slack` 1 make a
  buffer of 7 bytes. Images have up to 10, so they wrap around it; one of the
  files is longer than the buffer, so that a mismatch in its last block forces a
  re-read. All binary images are tried, hence all ways in which files can
  follow, overlap and almost match each other. Three slots let two matches wait
  around a third; subject `full` has two, so that entries are dropped at both
  sector lengths. One lost file takes every path. `Word` (2^64) exceeds any offset.
* make-image: the template `<<data, a, data, b>>` has data before, between and after
  parts, and two parts that can be present, missing, bad or good on their own.
  `MaxFaults` 3 lets a crash, an I/O error and a file that goes bad fall into one
  history, at any step of any of an unbounded number of runs.
* Cache: two contents of one size, and two of different sizes, two parameters
  that differ in each field; times up to 2 or 3 pass the expiry of 1.
* Tree: four directories, hard and soft links, a loop, a link out of the tree, a
  list of names; two errors at any calls.
* Streams: words of 2 to 8 values, blocks of 4 bytes, buffers of 2 or 3, messages
  longer than a word can count; .gz files with each optional part of the header.
* Configuration: all files of up to three of the lines that matter, and typical
  longer ones; URL maps of up to four lines.
* Threads: two transfers, three additions. Polling: three transfers. Downloads: an
  object of four blocks, files of any size before it, three clicks. Trees: four
  files with `[Image]` at each place, or with errors. Cache files: three objects at
  two or three addresses, so that an address is used again. Scripts: two images
  that share parts, URLs that fail now and then, three runs.
* Windows: three lines, three boxes, a ring of three samples; three listeners
  with calls nested three deep; three objects, pointers in and out of them.

Deadlock is checked in `greedy`, `assemble`, `templates`, `failcause`,
`twice` and `smallfile`, where a finished program stutters explicitly or can be started
again. The other suites contain programs that stop, and say so
(`CHECK_DEADLOCK FALSE`).

## 4. Fairness

* `MCTemplate`: the loops of a sequential program go on (`ScanStep`,
  `List!Loops`, `Tree!Step`). The environment is never obliged to act.
* `MCImage`, `ImageSpec`: a run that is under way goes on; a file that went bad is
  replaced in the end; and strong fairness of a start with each single file and
  `--force`, the protocol of the scripts. Faults are bounded in number.
  `ScriptsSpec`: the script goes on and is run again, the user presses Return; what
  is fetched again and again, from a server that works now and then, is got in
  the end (strong fairness), and so for the steps of jigdo-mirror.
* `MCFormats`: a call of `read()`, `inject()` or `rescan()` that has begun goes on;
  whoever wants the URLs of a part asks again.
* `MCDownloads`: the main loop runs, transfers get to an end or an error, timers
  and idle sources are called; the select thread goes on; and a thread that
  waits for the mutex again and again gets it (strong fairness): the mutex is
  released between two rounds, and GMutex is not promised to be fair, but a
  thread that is scheduled while it is free takes it. What ends in the subject
  `threads` ends unless one of two things has happened: a request is left over
  (`LeftOver`: `ThreadAnswered`, `ThreadEnds`, `TransferEnds`), which is what the run
  `leftover` shows without the condition, or `prepare` met a thread that was about to
  end (`skipped`: `TransferEnds`). The clean-up ends if the thread has got to its
  first line when it begins (`CleanupEnds`).

## 5. What is proved

Proofs hold for all values of the constants that satisfy the assumptions named
in the modules (`QueueAssumption`, `ScanAssumption`, `ImageAssumption`, ...).

`PartialMatchQueue` ends with lemmas about insertion and removal: what is where
afterwards, and that the position at which an entry is inserted exists.
`MkTemplate_proof` adds that each operator of the queue keeps its type, its bound
and its set of entries, and that `LowestStartOffset` is a minimum. Then:

* `TypeCorrect`: `TypeOK`, with the bounds of buffer offsets and of the queue.
* `AreasContiguous`: `RangesContiguous`. The invariant says that the end of the
  last area equals `out.start`, and that pending matches never start before it;
  the second half is what each action could break, and is why `FileMatch` must
  abandon every match that starts before the new end.
* `DescSumsUp`: `DescCoversImage`.

On these rests a chain of invariants, each inductive together with those before
it (`Inv` is that of the list above):

* `QueueInv`: the queue is sorted by next event, each event lies ahead of the
  window (or at it, while events are handled), and the files still to be looked
  at exist. From it `QueueSorted` (`QueueConsistent`).
* `BufferInv`: which slot of the circular buffer holds which byte of the image
  (`Held`), where `data`, `off` and `rsumBack` point (`Placed`), that the blocks
  of a pending match end where its next event is (`BlockOK`), and that what is
  not written yet either belongs to a pending match or fits in the buffer
  (`FlushOK`). From it `NeededIsBuffered` (`NeededDataBuffered`): the case
  distinctions are the wrap-around of the buffer, and a flush that comes just
  before the slots are overwritten.
* `ProgressInv`: end of file is noticed at the end of the image only, and what
  has been disposed of ends before the window or with a match.
* `CoverInv`: each occurrence of a file is still ahead of the window, or being
  compared, or covered by a recorded match. From it `OccurrencesAreCovered`
  (`EveryOccurrenceCovered`). It needs that an aligned window is never skipped,
  for which see `AlignedWindows`, an action property, and that the rolling checksum
  of equal bytes is equal.
* `PrefixInv`: what was compared of a pending match is equal to its file.
* `TemplateInv`: what has been disposed of is described by the DESC entries and
  the template data written so far: there are positions `at` in the image and
  `pos` in the template data, one per entry, that follow from the sizes, and
  each entry gives the bytes between two of them (`Layout`, `Describes`). An area
  is taken from the buffer (`FlushLaid`), re-read from the image (`RereadLaid`) or
  recorded as a match (`MatchLaid`); an unmatched entry can grow (`LayoutGrow`).

`ImageIsDescribed` says what `TemplateInv` means for a scan that succeeded.
`TemplateRebuilds` (`TemplateRebuildsImage`) then states the promise of make-template
itself: carried out entry by entry, DESC gives back the image. `Rebuild` is a
recursive function, so the proof shows that the function is what any function is
that follows its definition (`RebuildUnique`, with a least place at which two of
them differ) and that the positions of the layout give one (`LayoutRebuilt`).
`DecisionsAreFinal` (`DecisionsFinal`) is an action property. All hold for every image,
set of files, block length, read size, buffer slack and queue limit.
The model compares bytes where the code compares MD5 sums; that two different
blocks have different MD5 sums is assumed by that.

`PartialMatchList`, for any number of objects (`ListAssumption` says that the
heads and the null pointer are not objects, and offsets are natural numbers):

* `ListInvariance`: the inductive invariant `ListInv`. `Lists` says that the pointers
  form two sequences, the queue and the free list, with each object on exactly
  one of them or in the hand of `setNextEvent()`; a predicate per loop says how far
  it has come. The hard one is `Scanned`, for `eraseStartOffsetLess()`, which takes
  objects out of the list that it walks along: what lies behind it is the result
  of `EraseStartOffsetLess` for the entries it has seen, what is ahead is as before.
* `QueueImplemented` (`Implements`): the refinement. While a loop is under way the
  queue is what it was before the call (`before`, a history variable); the step
  that ends the method changes it at once, as the operators of `PartialMatchQueue`
  say, on which `MkTemplate` and its proofs rest. `Chain`, which follows pointers by
  recursion, is shown to be that sequence by the uniqueness of the recursive
  function (`Walks`, with a least place at which two of them differ).
* `ObjectsKept` (`NoneLost`) and `KeptSorted` (`Sorted`) follow from `ListInv`.

`MkImage_proof`: `TypeCorrect` needs no assumption. Two theorems are under `Checked`:
no file is needed twice, `--check-files` is on (the default). The others are under
`Careful`: besides, no write error stays hidden. `twice` and `ExitZero` in section 6
show that neither the first nor the last can be left out; without `--check-files`
a file that has changed is copied unnoticed, which is what that option is for.
The inductive invariant `Inv` (of `Careful`) has these parts:

* `DiskOK`: the image is right, and the DESC section on disk is honest;
* `ControlOK`: which places of the program go with which task and file;
* `QueueOK`: what is in the queue lies ahead of the loop;
* `PartsOK`: each part is written, queued, missing or failed, the first three
  exclude each other, and what is called written in memory is right on disk;
* `CopyOK`, `MergeOK`: how far `writeAll` and `writeMerge` have come; in a merge
  the DESC section on disk never claims more than the one in memory;
* `DoneOK`: the file is closed, truncated and renamed only when complete;
* `ExitOK`: the exit status.

From it follow `ImageIsRight`, `ZeroIsSuccess`, `OneIsMissing`, `TwoIsRecoverable`.
`ThreeIsTrouble` adds an invariant (`Settled`:
while no fault has happened, a temporary file that nobody writes has a DESC
section) and the assumption that the template is not of the old format.
`WorkIsKept` proves that `MkImage` implements `ImageAssembly`, that is `KeepsWork`,
for every template and any number of faults.

When a write error shows only in close(), whose result nobody looks at, the
program believes more than what is on disk: the image and the exit status may be
wrong. The DESC section stays honest all the same. `LateInv` is what is left of the
invariant: what a DESC section will claim is right before it is written
(`GoodOK`), and what a late error can still spoil, an area in the queue or the one
written last, is claimed by none that is on disk (`LastOK`). From it follow
`TmpIsHonest` (`HonestTmp`), which run `commands` checks as `LateIsHonest`, and
`QueueIsUsedUp`.

The same module proves what jigdo-lite does with make-image (an instance `Lite`
of `JigdoLite`), for any images, parts in common, URLs, servers that work, work
sometimes or never, local and relative files, with and without batch mode, any
number of runs and Ctrl-C at any place. `LiteUsable` is the assumption of
`JigdoLite` (finitely many URLs, at least one file per call of wget), and that the
.jigdo file lists an image. `LiteInv` says that a valid image.tmp is not empty
(make-image leaves no other), that the template of the image at
hand was checked on the way to each place where it is used, and, the point of it,
that when the downloads are about to be deleted, the image or image.tmp has them.
From it follow `TemplateIsChecked` (`TemplateChecked`), `DownloadsAreKept` (`FilesKept`) and
`ImageWorkIsKept` (`WorkKept`). `TriedInv` follows the passes: before a pass, the URLs of
all earlier ones were tried; during it, each URL of this pass was tried or is
still to come, or its part is there already. It gives `UrlsAreTried` (`AllTried`),
for finitely many parts.
`ScriptsRight` and `NothingLost` check these as subjects `lite` and `litebatch`.

It goes on with jigdo-mirror (an instance `Mirror` of `JigdoMirror`), for any list of
images in any number of .jigdo files, any number of runs, and kills at any step if
`Kills`. `OnlyOwnTemplates` (`OwnTemplate`) asks only that .jigdo files have the sums of
their templates. `NoneIsOutdated` (`NoneOutdated`) is under `MirrorUsual`: besides, the
names of files are ascending numbers, as the images refer to them, and a new version
is mirrored before the next run (not `Delayed`). `MirrorInv` says

* `MadeInv`: an image in place that is not older than its .jigdo file is of it;
* `FilesInv`: a file of the mirror is as published, unless "jigdo" was left as a link
  to it by a run that was killed; then the next run has written through the link,
  and the file is empty or has the text of the first one, whose images have been
  looked at by then (`FirstInv`);
* `MastersInv`, `PlaceInv`, `TemplateInv`: what the templates and the variables of the
  script hold at each place of it;
* `SeenInv`: of the images dealt with so far, each is current or has failed.

`ScriptsRight` checks both as subject `mirror`.

`JigdoCache_proof`, for all files, contents, sizes, block lengths, read sizes and
expiry times, without bounds on the number of runs and of changes to files, and
with a kill or a read error at any step. `ParamsChange` is off, since jigdo-file
calls `setParams()` before it adds files; section 6 says what happens otherwise.
The inductive invariant `Inv` (`Invariance`) has these parts:

* `WorldInv`: what is in a file is what was written last, under that time.
* `EntryInv`: an entry has the size of the content its mtime stands for, and the
  access time is that of the last use. It need not hold the sums of that content:
  a file that changes between the listing and the read leaves sums of the new
  content under the old mtime. That this is harmless is the point of the
  invariant: it happens only if the file has a later mtime by then (`Superseded`),
  so that the entry is not found for any file listed afterwards; and while a file
  is listed with the mtime of its entry, that entry is good, because entries are
  written at the end of a run only.
* `PartInv`: the sums of a `FilePart` are all of one content that the file had when
  it was listed or later, either those of its head or all. The difficult step is
  `ChecksumsRead`: an entry that was loaded, of the head or of everything, in any
  combination with what the part has, and then a read that ends somewhere.
* `AnswerInv`: what was returned is the sum of such a content.

From it follow `TypeCorrect`, `PartialSumsAreRight` and `SumsAreRight` (`SumIsRight`),
`EntriesAreRight` (`EntriesRight`), `PartsAsPermitted` (`PartStates`) and `UsedAreKept`
(`UsedIsKept`), which `CacheRight` and `CacheKept` check as subject `cache`. Only for the
sum of a whole file do these need `LargeFiles`, no file of one block only; run
`smallfile` shows that it cannot be left out.

`GtkSingleUrl_proof`, for all sizes of the object and of the overlap of a resume, all
destinations, numbers of tries, files that were there before, servers (with or
without ranges, sizes announced or not, chunks of any length, errors at any
point), full disks, and any set of buttons clicked as often as one likes.
`GtkSingleUrlAssumption` asks only that the object and the overlap are not empty and
that there is at least one try. `Invariance` has these parts:

* `FileOK`: the file holds the beginning of the object, up to the end of the
  destination, or still is what it was before.
* `SetUp`: which of the line, the timer and the transfer can be there before which
  other has been set up.
* `Flow`, the hard one: while data may still arrive, the line and the `Download`
  are running, the stream is open, and `Download` and libcurl agree on the
  position. Once nothing is left to compare (`resumeLeft` is 0), the file is the
  beginning of the object and the position is within it: that at least one byte
  was compared before (`RESUME_SIZE` is not 0) is what tells an unrelated old file
  from the object.
* `TriesOK`: the count of tries, as long as the user has not clicked.
* `Resumes`: position and overlap add up to the length of the file, and the timer
  goes on from there. This one needs that the user does not start a line whose
  timer waits (`Early`); the other parts do not.

The worlds are records, so that each operation of the code is a function from a
world to a world, and has one lemma. From the invariant follow `NeverMixedAtAll`
(`NeverMixed`), `NoneBehind` (`NoTransferBehind`), `ResumesAreBounded`
(`AutoResumesBounded`), `NothingBeyondDestination` (`WithinDestination`, for old files
that are not longer than the destination; the program passes on what it finds)
and `ResumedWhereFileEnds` (`ResumeWhereFileEnds`, without `Early`), which
`DownloadsRight` checks as subjects `download` and `destination`.

The same module ends with three components beside it, as instances; `DownloadsRight`
checks what is proved here.

* `CachedUrl`, for any addresses, priorities and sizes. `CachedInv`: the active
  objects are those whose state is RUNNING, and there is an idle source while there
  is one. From it `ActiveAreRunning` (`ActiveRuns`) and `ReadWhileActive`
  (`SourceWhileActive`). Listeners may do what `MakeImageDl` does, delete the object
  and start another in the same call. That one can get the same address, and is
  then erased from the set although it runs: `reused` has exactly these objects,
  and the invariant says that nothing else is missing in the set, and that nothing
  in it does not run. `SpeedStaysPositive`
  (`SpeedPositive`) needs speeds that can be doubled in an unsigned int.
* `GlibCurlPoll`: `PolledAsWanted` (`PolledAreWanted`), for any number of transfers.
* `IOSource`, for any number of listeners, loops and calls. `SourceAssumption` leaves
  out that a method both deletes its listener and sends again, which breaks
  `NoStaleCall` (section 6), and that it deletes the source, which may break it too;
  subject `sourcedies` checks what is left of the list then. `SourceInv` consists of `LinksInv`, the two links of the
  members that exist are inverse functions; `OrderInv`, they follow the
  registrations; and `LoopsInv`: each loop under way, at any depth, points to a member
  that exists and is not the one called, has called whoever is due and newer than
  that, and nobody else. From it `NobodyStaleIsCalled` (`NoStaleCall`),
  `AllAreCalled` (`EachIsCalled`), `NewestIsFirst` (`NewestFirst`) and `LinksAreRight`.

`RsyncSum64`: `TypeCorrect`; `RollingCorrect` (`SumOfWindow`): for every width and
all data, whatever is added and removed, the sums are those of the window;
`LoopCorrect`: the same in the loop over many bytes. `Sum1` and `Sum2`, the sums of
prefixes, are constants with their recursion as the assumption.

`GlibCurl`: `TypeCorrect`; `Exclusion` (`NeverBothInside`): whatever the program
does, curl_multi_perform() and the callback never overlap curl_multi_fdset() and
select() of the other thread. The invariant says who holds the mutex at which
place of each thread (`MutexRight`). The other two are for any program as well,
one that adds and removes transfers in callbacks and while others run:
`RequestsAreCounted` (`RequestsCounted`), how many requests can be left over, and
`ForgottenOnlyIfSkipped` (`NotForgotten`), the only way in which a transfer is left
to nobody. Their invariant `HandshakeInv` adds where requests and answers are
(`RequestsRight`), that a transfer lets `prepare` overtake the select thread once
(`OvertakenRight`), and when that thread goes on (`RunningRight`). That is as much
as the code keeps: section 6 has what it means for transfers.

## 6. Findings

Each is a run that TLC finds violated; `PROJECT.json` quotes the lines.

* `failcause`: `unmatchedAtEnd()` computes `off - bufferLength` in unsigned
  arithmetic. For an image shorter than the buffer (at least 1 MB with default
  options) the difference wraps around, a pending match is re-read for almost
  2^64 bytes, and make-template fails on intact input.
* `twice`: when a file is needed at two places and failed at the second one only,
  the next run copies it to the first place again and calls the image, with
  zeroes in it, complete.
* `smallfile`: for a file of one checksum block the cache gives out the sum of
  the whole file before it was computed.
* `leftover`: a transfer is added while the select thread has asked the GTK thread
  to block. `prepare()` takes the mutex for the new transfer, and the request stays
  in the counter. After the next one the counter is 2; `prepare()`, which compares
  with 1, does not see it, and the select thread waits for ever with all transfers.

Further disagreements between the code and its comments or documents were met
while modelling. They are stated in the modules, from the claim quoted there,
and TLC refutes them on small instances; no run is kept for them:

* `MkTemplate`: `NeverCrashes` (mktemplate.cc:584, null pointer when a one-block file
  vanishes before its match); `SmallMatchIgnored` (mktemplate.cc:545, of two matches
  with one start `--no-greedy-matching` keeps the shorter).
* `MkImage` with `LateErrors`: `ExitZero` (mkimage.cc:948, the result of close() is not
  looked at). With a template of the old format: `ExitThree` (mkimage.cc:659).
* `JigdoCache`: `SkipsEmpty` (scan.cc:557), `CacheIsUsed` (scan.cc:112), `CountIsRight`
  (scan.hh:441); with `ParamsChange`, `SumIsRight` (scan.cc:500).
* `CacheFile`: with `DbErrors`, `FoundIsStored` (cachefile.cc:104); `InsertedIsFound`
  (cachefile.cc:113, files from before 1970), `NamedIsFound`, `NoNullCall` (scan.hh:472).
* `UrlMap`: `Acyclic` with several lines for a label (job/url-mapping.cc:187),
  `AllUrlsReturned` with a text that ends in a colon (job/url-mapping.cc:165).
* `JigdoIO`: `NoSpuriousError` (job/jigdo-io.cc:336), `NotDangling` (job/jigdo-io.cc:245),
  `ToldOnce` (job/makeimagedl.cc:459), `FirstImage` with a file included twice
  (job/makeimagedl.cc:359), `IncludesLimited` (job/jigdo-io.cc:472).
* `GlibCurl`: `NotForgotten` and `TransferEnds` without `skipped` (glibcurl.c:279, the
  thread has been told to end, a transfer is added, and prepare() finds
  selectThread set); `CleanupEnds` for a thread that has not yet started
  (glibcurl.c:182). `GlibCurlPoll`: `RegularIntervals` (glibcurl.c:517).
* `ChildDownloads`: `RunEnded` with a partial entry (job/makeimagedl.cc:359),
  `RightIsRecognised` (job/makeimagedl.hh:509), `NoEmptyFile` (job/makeimagedl.cc:425),
  with `DiskFaults`, `QuietAfterFailure` (job/makeimagedl.cc:445).
* `GtkSingleUrl`: `OneVerdict` (net/download.cc:250), `NoDataAfterVerdict`
  (net/download.cc:231), `DeletedOutside` (job/makeimagedl.cc:433), `TriesInRange`
  (job/single-url.cc:90), `RestartWorks`, `TimerMeetsClosedFile`, `NoNull`
  (gtk/gtk-single-url.cc:135, 187, 419); without `ReAdd`, `Ended` (net/download.cc:161, 194).
* `CachedUrl`: `OneSource` (job/cached-url.cc:86), `NoDivisionByZero` (job/cached-url.cc:184);
  with `Retries`, `ActiveRuns` without `reused` (job/cached-url.cc:168); with fast reads, `Delivered`
  (job/cached-url.cc:187).
* `Zobstream`: `AllWritten` after single characters with bzip2 (zstream-bz.cc:197),
  `NothingForNothing` (zstream.cc:44). `Zibstream`: `CloseWorks` (zstream.cc:164). `Gunzip`:
  `Unmodified` (util/gunzip.cc:109).
* `ConfigFile`: `AssertionsHold`, `ErrorsReported`, `SpacesAllowed`, `AnyIsOneWord`
  (util/configfile.cc:90, 123, 111, 404). `JigdoConfig`: `LoopsOmitted`, `LoopsHarmless`
  (jigdoconfig.cc:193, 205). `MkJigdo`: `LabelsDistinct` with a label added late or
  without `[Servers]` (mkjigdo.cc:266, 287), `LastLabelCounts` (scan.hh:522).
* `JigdoFileCmd`: `NoSilentOverwrite` when another program creates the file meanwhile,
  `ZeroMeansWritten` with an error of the last flush, `NeverDies`, `NotFoundIsTwo`,
  `GivenUriOverrides` (jigdo-file-cmd.cc:272, 274, 548, 72, 198). `JigdoFile`:
  `LengthsLegal` from 4 GB on (jigdo-file.cc:664), `ReadsSomething` (jigdo-file.cc:598),
  `PrefixAligned` (jigdo-file.cc:137).
* `Progress`: with `SetBack`, `SpeedIsKnown` (util/progress.cc:178); `LeftIsKnown`
  (util/progress.cc:208). `Dialogs`: `NothingLost`, `RunningIsReal`, `DeviceUntouched`,
  `QuestionApplies`, `StopHasStream` (gtk/gtk-single-url.cc:380, 747, 684, 624, 630).
* `DescFormat`: `WrittenIsReadable` for an empty image with MD5 (mkimage.cc:127).
  `MessageDigest` with `CopyReused`: `DigestCorrect` (util/md5sum.cc:44).
* `ProxyGuess`: with `SameAge`, `FoundIfAny` (net/proxyguess.cc:218); `ProxyIsNamed` with
  indented lines, `Cleared`, `AllSources` (net/proxyguess.cc:335, 472, 481).
* `IOSource`: `NoStaleCall` when a listener unregisters, or deletes the source, in a
  nested call (job/job.hh:86, 85). `SmartPtr`: `PointsToLife` (util/smartptr.hh:134, p = p->next).
* `Subst`: `AlwaysUtf8` (job/jigdo-io.cc:596). `ImageInfo`: `TextIsKept` with
  `KeepsEntities` off, `BrIsEmpty`, `TagsAreKnown` (job/makeimagedl-info.cc:101, 94, 58).
* `JigdoLite`: `NotAbortedWhenComplete`, `UrlKnown`, `HappensNot`, `Ends` with `--noask`
  (jigdo-lite:602, 621, 298, 670). `JigdoMirror`: `ExitTold`, `AllAttempted`, `SaidRight`,
  `TemplatesKept`, `JigdosKept`, and `OwnTemplate` without a checksum of the template
  (jigdo-mirror:342, 273, 290, 131, 346, 127).

The passing runs keep the constants that switch most of this behaviour on
(`ParamsChange`, `CopyReused`, `SameAge`, ...) at the value that leaves it out, and
say by that under which conditions the property holds. Where the program itself
does such a thing (transfers that are added at any time, `Retries`, `DiskFaults`),
it is on, and the property says what remains true.

## 7. What is only model-checked

* Liveness (`ScanEnds`, `ImageMade`, `DownloadsEnd`, ...) and whatever needs
  ENABLED.
* What is computed by recursion over data: the expansions of `JigdoConfig`, the
  enumeration of `UrlMap`, trees and reachability (`RecurseDir`, `JigdoIO`,
  `SmartPtr`). They would need induction over data, or are in modules with
  RECURSIVE operators.
* Of `PartialMatchList`: `FoundAsDefined`, since sector lengths are powers of two and
  the provers know nothing of `2^k`; `Returns`, which is liveness.
* Of `GtkSingleUrl`: `Whole`, what is reported as a success is complete, and that a
  download ends.
* Of `IOSource`: `ListIsRight` and `FreeAfterSource`, whose `Chain` follows the links by
  recursion, and a source that is deleted in a call. Versions
  of a .jigdo file that reach the mirror late (`Delayed`) are in no run either.
* `JobLines`, whose loops over the rows would need induction over data, `Dialogs`, and
  the other components without a theorem.
* make-image with a file that is needed twice, or without `--check-files`.

## 8. What is not modelled

* Two processes that write the same temporary file: nothing in the code excludes
  it, and nothing in the documentation permits it.
* Vendored and generated code: getopt, libwww (`net/libwww-*`), `gtk/interface.cc`,
  `gtk/support.cc`; `job/jigdodownload.*` and `job/makeimage.*`, which are drafts that
  other classes replaced. The variants for Windows, except the select thread.
* Codecs (zlib, bzip2) and the compression functions of MD5 and SHA256: stand-ins.
* `ConfigFile`: the last character of a line is read also if the line is empty
  (util/configfile.cc:163), which is before its first one.
* Output of `list-template`, reports and messages, number formatting, `log.cc`,
  `bstream`, `compat`, `serialize.hh`, build files, `debian-mirrors` and other small
  scripts. The list of objects with automatic ticks, and the joining of relative
  URLs (`net/uri.cc`).
* Of jigdo-lite: questions for mirrors and directories, mounting, settings; of
  jigdo-mirror: `$include` and `$exclude`. Of the download of a URL: pause (its button
  is switched off) and the child mode, which only displays.
* `torture.cc` and the `*-test.cc` files were read as what the authors expect.

## 9. Plan

1. Composition of `JigdoCache` with `MkTemplate` (`fpState` as a refinement).
2. Proofs about `IOSource` with a source that is deleted in a call, and about
   `Dialogs`.
