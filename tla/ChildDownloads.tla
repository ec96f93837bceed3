--------------------------- MODULE ChildDownloads ---------------------------
(***************************************************************************)
(* The downloads of MakeImageDl (src/job/makeimagedl.cc) and its directory *)
(* of cache entries: the .jigdo file, then the template, which has a       *)
(* checksum and alternative URLs.  The program may be killed and started   *)
(* again with the same values.                                             *)
(*                                                                         *)
(* Entries of the cache: "c-" (by content), "u-" (complete, by URL), "u~"  *)
(* (partial, by URL).  Handlers are functions from a world w to the next.  *)
(***************************************************************************)
EXTENDS Naturals, Sequences, SequencesExt

CONSTANTS
  Jigdo,            \* URL of the .jigdo file
  Mirrors,          \* URLs of the template, in the order of enumerate()
  MaxRuns,          \* bound: how often the program is started
  MayKill,
  DiskFaults        \* do calls of the file system fail at times, and are there
                    \* cache entries that are not files?

ChildDownloadsAssumption ==
  /\ Mirrors # << >> /\ IsInjective(Mirrors) /\ Jigdo \notin ToSet(Mirrors)
  /\ MaxRuns \in Nat /\ MayKill \in BOOLEAN /\ DiskFaults \in BOOLEAN

Urls == {Jigdo} \union ToSet(Mirrors)

VARIABLES
  web,              \* what the servers hold: url -> "right", "wrong"
  disk,             \* the cache directory
  state,            \* stateVal; "off": no process
  child,            \* the Child and its source
  tried,            \* the template URLs that enumerate() has returned
  told,             \* how often the listeners were sent job_failed
  ready,            \* have the data of the template been delivered?
  runs

vars == <<web, disk, state, child, tried, told, ready, runs>>

\* source: "SingleUrl", "CachedUrl", or "none" if there is no Child; mdCheck:
\* what the running checksum has seen, "nothing", "part" of the download, or
\* "other" data before.
NoChild == [url |-> Jigdo, source |-> "none", mdCheck |-> "nothing"]

EmptyDisk ==
  [c |-> "none", u |-> [url \in Urls |-> "none"],
   part |-> [url \in Urls |-> "none"]]

Init ==
  /\ web \in [Urls -> {"right", "wrong"}]
  /\ disk = EmptyDisk /\ state = "off" /\ child = NoChild
  /\ tried = << >> /\ told = 0 /\ ready = FALSE /\ runs = 0

World == [disk |-> disk, state |-> state, child |-> child, tried |-> tried,
          told |-> told, ready |-> ready]

Becomes(w) ==
  /\ disk' = w.disk /\ state' = w.state /\ child' = w.child
  /\ tried' = w.tried /\ told' = w.told /\ ready' = w.ready
  /\ UNCHANGED web

-----------------------------------------------------------------------------
(* childFor() *)

\* generateError()
GenerateError(w) ==
  IF w.state = "error" THEN w ELSE [w EXCEPT !.state = "error", !.told = @ + 1]

\* Child::init(), for a Child that is used again: mdCheck is not touched.
Reused(mdCheck) == IF mdCheck = "nothing" THEN "nothing" ELSE "other"

WithSource(w, url, source) ==
  [w EXCEPT !.child = [url |-> url, source |-> source,
                       mdCheck |-> Reused(w.child.mdCheck)]]

\* Mutant of Cached: a partial entry is taken for a complete one.
CachedPartly(w, url, check) ==
  (check /\ w.disk.c # "none") \/ w.disk.u[url] # "none" \/ w.disk.part[url] # "none"

Cached(w, url, check) == (check /\ w.disk.c # "none") \/ w.disk.u[url] # "none"

\* childFor(), when the entries of the URLs `usable' are files or can be created;
\* for a partial entry childForSemiCompleted() returns null.
ChildFor(w, url, check, usable) ==
  CASE url \notin usable -> GenerateError(w)
    [] url \in usable /\ Cached(w, url, check) -> WithSource(w, url, "CachedUrl")
    [] url \in usable /\ ~Cached(w, url, check) /\ w.disk.part[url] # "none" -> w
    [] OTHER ->
         [WithSource(w, url, "SingleUrl") EXCEPT !.disk.part[url] = "empty"]

\* PartUrlMapping::enumerate().  Mutant of NextUrl: lastUrl is not kept.
NextUrlFirst(w) == Mirrors[1]
NextUrl(w) == Mirrors[Len(w.tried) + 1]
Enumerated(w) == [w EXCEPT !.tried = Append(@, NextUrl(w))]

\* Mutant of Alternatives: the Child does not get the list of URLs.
AlternativesNever(w) == FALSE

\* Are there URLs left to be tried?
Alternatives(w) == w.state # "jigdo" /\ Len(w.tried) < Len(Mirrors)

\* The loop in childFailed(): the first alternative that can be started.
RECURSIVE TryAlternatives(_, _)
TryAlternatives(w, usable) ==
  LET none == [w EXCEPT !.child.source = "none"]
  IN IF ~Alternatives(w) THEN none
     ELSE LET next == ChildFor(Enumerated(none), NextUrl(w), TRUE, usable)
          IN IF next.child.source # "none" THEN next
             ELSE TryAlternatives(next, usable)

\* Mutant of Told: only the Child is deleted.
ToldNot(w) == w

Told(w) == [w EXCEPT !.told = @ + 1]

\* childFailed(): the file is not removed, for a Child is never a SingleUrl.
ChildFailed(w, usable) ==
  LET next == TryAlternatives(w, usable)
  IN IF next.child.source # "none" THEN next
     ELSE [Told(next) EXCEPT !.child = NoChild]

-----------------------------------------------------------------------------
(* What a run does *)

\* The URLs whose cache entries are files or can be created.
UsableSets == IF DiskFaults THEN SUBSET Urls ELSE {Urls}

\* May a call of mkdir() or rename() fail?
MayFail == IF DiskFaults THEN BOOLEAN ELSE {FALSE}

Started == [World EXCEPT !.state = "jigdo"]

\* run(), createJigdoDownload()
Run ==
  /\ state = "off" /\ runs < MaxRuns /\ runs' = runs + 1
  /\ \E usable \in UsableSets : Becomes(ChildFor(Started, Jigdo, FALSE, usable))

\* run(): mkdir() fails, and not since the directory is there.
RunFails ==
  /\ DiskFaults /\ disk = EmptyDisk
  /\ state = "off" /\ runs < MaxRuns /\ runs' = runs + 1
  /\ Becomes(GenerateError(Started))

\* Data of the current download
Data ==
  /\ child.source = "SingleUrl" /\ disk.part[child.url] = "empty"
  /\ disk' = [disk EXCEPT !.part[child.url] = "part"]
  /\ child' = [child EXCEPT !.mdCheck =
                 IF state # "jigdo" /\ @ = "nothing" THEN "part" ELSE @]
  /\ UNCHANGED <<web, state, tried, told, ready, runs>>

\* Mutant of ChecksumOK: the checksums are not compared.
ChecksumUnseen(w) == w.state # "jigdo"

\* Is the checksum to be compared, and the right one?
ChecksumOK(w) ==
  /\ w.state # "jigdo" /\ w.child.mdCheck = "part"
  /\ web[w.child.url] = "right"

\* singleUrlFinished(); does rename() fail?
SingleUrlFinished(w, renameFails) ==
  LET url == w.child.url
      moved == [w EXCEPT !.disk.part[url] = "none"]
  IN CASE renameFails -> GenerateError(w)
       [] ~renameFails /\ ChecksumOK(w) -> [moved EXCEPT !.disk.c = web[url]]
       [] OTHER -> [moved EXCEPT !.disk.u[url] = web[url]]

\* Child::job_succeeded(), templateFinished()
Succeeded(w, renameFails) ==
  LET done == IF w.child.source = "SingleUrl" THEN SingleUrlFinished(w, renameFails)
              ELSE w
  IN [done EXCEPT !.child.source = "none", !.ready = done.state = "template"]

Success ==
  /\ child.source = "SingleUrl" => disk.part[child.url] = "part"
  /\ child.source # "none"
  /\ \E renameFails \in MayFail : Becomes(Succeeded(World, renameFails))
  /\ UNCHANGED runs

\* Child::job_failed()
Failure ==
  /\ child.source # "none"
  /\ \E usable \in UsableSets : Becomes(ChildFailed(World, usable))
  /\ UNCHANGED runs

\* jigdoFinished2(), once all .jigdo files are there
JigdoFinished ==
  /\ state = "jigdo" /\ child.source = "none" /\ disk.u[Jigdo] # "none"
  /\ told = 0
  /\ \E usable \in UsableSets :
       LET w == [World EXCEPT !.state = "template", !.child = NoChild]
       IN Becomes(ChildFor(Enumerated(w), NextUrl(w), TRUE, usable))
  /\ UNCHANGED runs

\* The program is killed, or ended by the user: the cache stays as it is.
Quit ==
  /\ state # "off" /\ (MayKill \/ ready \/ told > 0)
  /\ state' = "off" /\ child' = NoChild /\ tried' = << >> /\ told' = 0
  /\ ready' = FALSE /\ UNCHANGED <<web, disk, runs>>

\* Without a download the main loop waits for the user.
Ended == child.source = "none" /\ UNCHANGED vars

Job == Run \/ RunFails \/ Data \/ Success \/ Failure \/ JigdoFinished

Next == Job \/ Quit \/ Ended

Spec == Init /\ [][Next]_vars

\* Downloads get to an end.
FairSpec == Spec /\ WF_vars(Job)

-----------------------------------------------------------------------------
(* Properties *)

TypeOK ==
  /\ web \in [Urls -> {"right", "wrong"}]
  /\ disk.c \in {"none", "right", "wrong"}
  /\ disk.u \in [Urls -> {"none", "right", "wrong"}]
  /\ disk.part \in [Urls -> {"none", "empty", "part"}]
  /\ state \in {"off", "jigdo", "template", "error"}
  /\ child.url \in Urls /\ child.source \in {"none", "SingleUrl", "CachedUrl"}
  /\ child.mdCheck \in {"nothing", "part", "other"}
  /\ IsPrefix(tried, Mirrors) /\ told \in 0..2 /\ ready \in BOOLEAN
  /\ runs \in 0..MaxRuns

\* An entry "c-" has the content it is named after: nobody checks it again.
ContentRight == disk.c \in {"none", "right"}

\* No file is written under the name of a partial entry while the same data
\* exist as a complete entry, and no partial entry is delivered as complete.
PartialOrComplete ==
  /\ \A url \in Urls : disk.part[url] = "none" \/ disk.u[url] = "none"
  /\ child.source = "CachedUrl" =>
       disk.u[child.url] # "none" \/ (state # "jigdo" /\ disk.c # "none")

\* "The Child will only fail after all of them have been tried
\* unsuccessfully."
AllTried == state = "template" /\ told > 0 => tried = Mirrors

\* A run comes to an end: the data are there, or the listeners are told.
\* "If the jigdo application was stopped and you want it to resume this
\* download, simply enter again the same values you used the first time."
RunEnded == ready \/ told > 0 \/ state = "off"

\* "(Re)initialize data members": the right template is recognised, whatever
\* was tried before.
RightIsRecognised ==
  \A url \in ToSet(Mirrors) : disk.u[url] # "right"

\* "Delete partial output file if it is empty"
NoEmptyFile ==
  told > 0 => \A url \in Urls : disk.part[url] # "empty"

\* "The only remaining action after getting this is to delete the job
\* object": no download goes on after job_failed.
QuietAfterFailure == told > 0 => child.source = "none"
=============================================================================
