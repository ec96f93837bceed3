------------------------- MODULE GtkSingleUrl_proof -------------------------
(***************************************************************************)
(* Proofs about module GtkSingleUrl and, at the end, about CachedUrl,      *)
(* GlibCurlPoll and IOSource: the two kinds of download that jigdo knows,  *)
(* from a server and from the cache, the main loop below them, and who is  *)
(* told of their progress.                                                 *)
(***************************************************************************)
EXTENDS GtkSingleUrl, TLAPS, SequenceTheorems, FiniteSetTheorems, Integers

-----------------------------------------------------------------------------
(* The inductive invariant, part by part, of a world *)

Lines ==
  [state : {"CREATED", "RUNNING", "STOPPED", "ERROR", "SUCCEEDED"},
   stream : {"none", "open", "bad"},
   tick : {"none", "showProgress", "startResume"},
   listed : BOOLEAN, job : BOOLEAN]

Singles ==
  [dest : BOOLEAN, resumeLeft : Nat, tries : Nat, current : Nat, size : Nat]

Downloads ==
  [state : Final \union {"CREATED", "RUNNING"}, handle : BOOLEAN,
   stopLater : BOOLEAN, inside : BOOLEAN, offset : Nat, current : Nat]

Transfers == [on : {"none", "active", "done"}, pos : Nat, sized : BOOLEAN]

Worlds ==
  [file : Seq(Nat), line : Lines, single : Singles, download : Downloads,
   net : Transfers, told : {"nothing", "failed", "succeeded", "both"},
   late : BOOLEAN,
   crashed : {"no", "null", "listed twice", "stream open", "deleted inside"}]

\* The beginning of the object, or none of it
Good(f) == \A i \in 1..Len(f) : f[i] = i
Old(f) == \A i \in 1..Len(f) : f[i] = 0

\* The object does not go beyond its end; something else is as it was.
FileOK(f) ==
  \/ Good(f) /\ (DestEnd > 0 => Len(f) <= DestEnd)
  \/ Old(f) /\ Len(f) \in OldFiles

\* Are data of the transfer going to be processed?
Live(w) == w.crashed = "no" /\ w.net.on = "active" /\ ~w.download.stopLater

\* Who has been set up for a transfer, and is never taken down
SetUp(w) ==
  /\ ~w.download.inside /\ w.line.job = w.line.listed
  /\ w.net.on # "none" => w.download.handle /\ w.line.listed
  /\ w.line.tick = "startResume" => w.line.listed
  /\ w.line.listed => w.single.current > 0 \/ Good(w.file)

\* A transfer continues the file, or is about to be compared with it.
Flow(w) ==
  Live(w) =>
    /\ w.download.state = "RUNNING"
    /\ w.line.state = "RUNNING" /\ w.line.stream = "open" /\ w.single.dest
    /\ w.download.current = w.net.pos
    /\ w.single.resumeLeft = 0 =>
         Good(w.file) /\ w.download.current <= Len(w.file)

WorldInv(w) == w \in Worlds /\ FileOK(w.file) /\ SetUp(w) /\ Flow(w)

\* What is known of the progress is the length of the file.
Resumes(w) ==
  /\ w.download.state \notin Final /\ w.line.listed =>
       w.single.current = Len(w.file)
  /\ Live(w) => w.download.current + w.single.resumeLeft = Len(w.file)
  /\ w.line.tick = "startResume" =>
       w.single.current = Len(w.file) /\ w.net.on # "active"

\* The number of tries, while the user has clicked n times
TriesOK(w, n) ==
  /\ w.line.state = "CREATED" => w.single.tries = 0 /\ ~w.line.listed
  /\ n = 0 => /\ w.single.tries <= MAX_TRIES
              /\ w.line.tick = "startResume" => w.single.tries < MAX_TRIES

\* Resumes holds as long as the user does not overtake the timer.
AllInv(w, n) ==
  /\ WorldInv(w) /\ TriesOK(w, n) /\ n \in Nat
  /\ "Early" \notin Buttons \/ n = 0 => Resumes(w)

Inv == AllInv(World, clicks)

-----------------------------------------------------------------------------
(* Worlds in which one thing is changed *)

LEMMA WithFile ==
  ASSUME NEW w \in Worlds, NEW x \in Seq(Nat), NEW v, v = [w EXCEPT !.file = x]
  PROVE  /\ v \in Worlds /\ v.file = x
         /\ v.line = w.line /\ v.single = w.single /\ v.download = w.download /\ v.net = w.net
         /\ v.told = w.told /\ v.late = w.late /\ v.crashed = w.crashed
BY DEF Worlds

LEMMA WithLine ==
  ASSUME NEW w \in Worlds, NEW x \in Lines, NEW v, v = [w EXCEPT !.line = x]
  PROVE  /\ v \in Worlds /\ v.line = x
         /\ v.file = w.file /\ v.single = w.single /\ v.download = w.download /\ v.net = w.net
         /\ v.told = w.told /\ v.late = w.late /\ v.crashed = w.crashed
BY DEF Worlds

LEMMA WithSingle ==
  ASSUME NEW w \in Worlds, NEW x \in Singles, NEW v, v = [w EXCEPT !.single = x]
  PROVE  /\ v \in Worlds /\ v.single = x
         /\ v.file = w.file /\ v.line = w.line /\ v.download = w.download /\ v.net = w.net
         /\ v.told = w.told /\ v.late = w.late /\ v.crashed = w.crashed
BY DEF Worlds

LEMMA WithDownload ==
  ASSUME NEW w \in Worlds, NEW x \in Downloads, NEW v, v = [w EXCEPT !.download = x]
  PROVE  /\ v \in Worlds /\ v.download = x
         /\ v.file = w.file /\ v.line = w.line /\ v.single = w.single /\ v.net = w.net
         /\ v.told = w.told /\ v.late = w.late /\ v.crashed = w.crashed
BY DEF Worlds

LEMMA WithNet ==
  ASSUME NEW w \in Worlds, NEW x \in Transfers, NEW v, v = [w EXCEPT !.net = x]
  PROVE  /\ v \in Worlds /\ v.net = x
         /\ v.file = w.file /\ v.line = w.line /\ v.single = w.single /\ v.download = w.download
         /\ v.told = w.told /\ v.late = w.late /\ v.crashed = w.crashed
BY DEF Worlds

LEMMA WithLate ==
  ASSUME NEW w \in Worlds, NEW x \in BOOLEAN, NEW v, v = [w EXCEPT !.late = x]
  PROVE  /\ v \in Worlds /\ v.late = x
         /\ v.file = w.file /\ v.line = w.line /\ v.single = w.single /\ v.download = w.download
         /\ v.net = w.net /\ v.told = w.told /\ v.crashed = w.crashed
BY DEF Worlds

-----------------------------------------------------------------------------
(* What the functions of worlds do *)

\* Worlds that differ in download and net only
Beside(w, v) ==
  /\ v.file = w.file /\ v.line = w.line /\ v.single = w.single
  /\ v.told = w.told /\ v.late = w.late /\ v.crashed = w.crashed

LEMMA AddedFacts ==
  ASSUME NEW w \in Worlds, NEW sized \in BOOLEAN, NEW v, v = Added(w, sized)
  PROVE  /\ v \in Worlds /\ Beside(w, v) /\ v.download = w.download
         /\ \/ /\ w.net.on # "active" /\ v.net.on = "active"
               /\ v.net.pos = w.download.offset
            \/ v.net = w.net /\ w.net.on # "none"
<1>1. CASE w.net.on = "none" \/ (w.net.on = "done" /\ ReAdd)
  <2> DEFINE x == [on |-> "active", pos |-> w.download.offset, sized |-> sized]
  <2>1. v = [w EXCEPT !.net = x]
    BY <1>1 DEF Added
  <2>2. x \in Transfers /\ x.on = "active" /\ x.pos = w.download.offset
    BY DEF Worlds, Downloads, Transfers
  <2> HIDE DEF x
  <2> QED
    BY <1>1, <2>1, <2>2, WithNet DEF Beside
<1>2. CASE ~(w.net.on = "none" \/ (w.net.on = "done" /\ ReAdd))
  BY <1>2 DEF Added, Worlds, Beside
<1> QED
  BY <1>1, <1>2

LEMMA DownloadRunFacts ==
  ASSUME NEW w \in Worlds, NEW sized \in BOOLEAN,
         NEW v, v = DownloadRun(w, sized)
  PROVE  /\ v \in Worlds /\ Beside(w, v)
         /\ v.download.handle /\ v.download.state = "RUNNING"
         /\ v.download.current = w.download.offset
         /\ v.download.stopLater = w.download.stopLater
         /\ v.download.inside = w.download.inside
         /\ \/ /\ w.net.on # "active" /\ v.net.on = "active"
               /\ v.net.pos = w.download.offset
            \/ v.net = w.net /\ w.net.on # "none"
<1> DEFINE a == Added(w, sized)
<1>1. /\ a \in Worlds /\ Beside(w, a) /\ a.download = w.download
      /\ \/ /\ w.net.on # "active" /\ a.net.on = "active"
            /\ a.net.pos = w.download.offset
         \/ a.net = w.net /\ w.net.on # "none"
  BY AddedFacts
<1> DEFINE x == [a.download EXCEPT !.handle = TRUE, !.state = "RUNNING",
                                   !.current = w.download.offset]
<1>2. v = [a EXCEPT !.download = x]
  BY <1>1 DEF DownloadRun, Worlds
<1> HIDE DEF a
<1>3. /\ x \in Downloads /\ x.handle /\ x.state = "RUNNING"
      /\ x.current = w.download.offset
      /\ x.stopLater = w.download.stopLater /\ x.inside = w.download.inside
  <2>1. w.download \in Downloads /\ a.download = w.download
    BY <1>1 DEF Worlds
  <2> QED
    BY <2>1 DEF Downloads
<1> HIDE DEF x
<1> QED
  BY <1>1, <1>2, <1>3, WithDownload DEF Beside

LEMMA RemovedFacts ==
  ASSUME NEW w \in Worlds, NEW v, v = Removed(w)
  PROVE  /\ v \in Worlds /\ Beside(w, v) /\ v.net.on = "none"
         /\ v.download = [w.download EXCEPT !.handle = FALSE]
<1> DEFINE x == [w.download EXCEPT !.handle = FALSE]
           a == [w EXCEPT !.net = NoTransfer]
<1>1. v = [a EXCEPT !.download = x]
  BY DEF Removed, Worlds
<1>2. NoTransfer \in Transfers /\ NoTransfer.on = "none"
  BY DEF NoTransfer, Transfers
<1>3. x \in Downloads
  BY DEF Worlds, Downloads
<1>4. /\ a \in Worlds /\ Beside(w, a) /\ a.net = NoTransfer
  BY <1>2, WithNet DEF Beside
<1> HIDE DEF a, x
<1>5. v \in Worlds /\ Beside(a, v) /\ v.net = a.net /\ v.download = x
  BY <1>1, <1>3, <1>4, WithDownload DEF Beside
<1> QED
  BY <1>2, <1>4, <1>5 DEF Beside, x

LEMMA DownloadStopFacts ==
  ASSUME NEW w \in Worlds, NEW v, v = DownloadStop(w)
  PROVE  /\ v \in Worlds /\ Beside(w, v)
         /\ v.download.inside = w.download.inside
         /\ v.download.current = w.download.current
         /\ \/ v = w /\ (~w.download.handle \/ w.download.state \in Final)
            \/ /\ v.download.state = "INTERRUPTED" /\ w.download.inside
               /\ v.download.stopLater /\ v.net = w.net
               /\ v.download.handle = w.download.handle
            \/ /\ v.download.state = "INTERRUPTED" /\ ~w.download.inside
               /\ v.net.on = "none"
<1>1. CASE ~w.download.handle \/ w.download.state \in Final
  BY <1>1 DEF DownloadStop, Beside
<1>2. CASE ~(~w.download.handle \/ w.download.state \in Final)
  <2> DEFINE x == [w.download EXCEPT !.state = "INTERRUPTED"]
             a == [w EXCEPT !.download = x]
             y == [x EXCEPT !.stopLater = TRUE]
             z == [x EXCEPT !.handle = FALSE]
  <2>1. /\ x \in Downloads /\ x.state = "INTERRUPTED"
        /\ x.inside = w.download.inside /\ x.current = w.download.current
        /\ x.handle = w.download.handle
    BY DEF Worlds, Downloads, Final
  <2>2. a \in Worlds /\ Beside(w, a) /\ a.net = w.net /\ a.download = x
    BY <2>1, WithDownload DEF Beside
  <2>3. v = IF a.download.inside
            THEN [a EXCEPT !.download.stopLater = TRUE] ELSE Removed(a)
    <3> DEFINE b == [w EXCEPT !.download.state = "INTERRUPTED"]
    <3>1. b = a
      OBVIOUS
    <3>2. v = IF w.download.inside
              THEN [b EXCEPT !.download.stopLater = TRUE] ELSE Removed(b)
      BY <1>2, Zenon DEF DownloadStop
    <3> HIDE DEF b, a
    <3> QED
      BY <2>1, <2>2, <3>1, <3>2
  <2> HIDE DEF a
  <2>4. CASE x.inside
    <3>1. /\ y \in Downloads /\ y.stopLater /\ y.state = x.state
          /\ y.inside = x.inside /\ y.current = x.current /\ y.handle = x.handle
      BY <2>1 DEF Downloads
    <3>3. v = [a EXCEPT !.download = y]
      BY <2>2, <2>3, <2>4
    <3> HIDE DEF x, y
    <3>2. v \in Worlds /\ Beside(a, v) /\ v.net = a.net /\ v.download = y
      BY <2>2, <3>3, <2>4, <3>1, WithDownload DEF Beside
    <3> QED
      BY <2>1, <2>2, <2>4, <3>1, <3>2 DEF Beside
  <2>5. CASE ~x.inside
    <3>3. v = Removed(a)
      BY <2>2, <2>3, <2>5
    <3> HIDE DEF x
    <3>1. /\ v \in Worlds /\ Beside(a, v) /\ v.net.on = "none"
          /\ v.download = z
      BY <2>2, <3>3, RemovedFacts
    <3>2. /\ z.state = x.state /\ z.inside = x.inside /\ z.current = x.current
      BY <2>1 DEF Downloads
    <3> HIDE DEF z
    <3> QED
      BY <2>1, <2>2, <2>5, <3>1, <3>2 DEF Beside
  <2> QED
    BY <2>4, <2>5
<1> QED
  BY <1>1, <1>2

LEMMA StopLaterFacts ==
  ASSUME NEW w \in Worlds, NEW v, v = StopLater(w)
  PROVE  /\ v \in Worlds /\ Beside(w, v)
         /\ v.download.inside = w.download.inside
         /\ v.download.state = w.download.state
         /\ v.download.current = w.download.current
         /\ (v.net = w.net /\ ~w.download.handle) \/ v.net.on = "none"
<1> DEFINE a == IF w.download.handle THEN Removed(w) ELSE w
<1>1. /\ a \in Worlds /\ Beside(w, a)
      /\ a.download.inside = w.download.inside
      /\ a.download.state = w.download.state
      /\ a.download.current = w.download.current
      /\ (a.net = w.net /\ ~w.download.handle) \/ a.net.on = "none"
  <2>1. CASE w.download.handle
    <3> DEFINE x == [w.download EXCEPT !.handle = FALSE]
    <3>1. /\ a \in Worlds /\ Beside(w, a) /\ a.net.on = "none"
          /\ a.download = x
      BY <2>1, RemovedFacts
    <3>2. /\ x.state = w.download.state /\ x.inside = w.download.inside
          /\ x.current = w.download.current
      BY DEF Worlds, Downloads
    <3> QED
      BY <3>1, <3>2
  <2>2. CASE ~w.download.handle
    BY <2>2 DEF Beside
  <2> QED
    BY <2>1, <2>2
<1> DEFINE y == [a.download EXCEPT !.stopLater = FALSE]
<1>2. v = [a EXCEPT !.download = y]
  BY <1>1 DEF StopLater, Worlds
<1> HIDE DEF a
<1>3. /\ y \in Downloads /\ y.state = a.download.state
      /\ y.inside = a.download.inside /\ y.current = a.download.current
  BY <1>1 DEF Worlds, Downloads
<1> HIDE DEF y
<1> QED
  BY <1>1, <1>2, <1>3, WithDownload DEF Beside

-----------------------------------------------------------------------------
(* The listener *)

\* Worlds that differ in what the listener keeps: line, told, single.dest
Listening(w, v) ==
  /\ v \in Worlds /\ v.file = w.file
  /\ v.line.listed = w.line.listed /\ v.line.job = w.line.job
  /\ v.single.resumeLeft = w.single.resumeLeft
  /\ v.single.tries = w.single.tries /\ v.single.current = w.single.current
  /\ v.single.size = w.single.size

LEMMA ToldFacts ==
  ASSUME NEW w \in Worlds, NEW what \in {"failed", "succeeded"},
         NEW v, v = Told(w, what)
  PROVE  /\ v \in Worlds /\ v.file = w.file /\ v.line = w.line
         /\ v.single = w.single /\ v.download = w.download /\ v.net = w.net
         /\ v.late = w.late /\ v.crashed = w.crashed
<1> DEFINE x == IF w.told \in {"nothing", what} THEN what ELSE "both"
<1>1. x \in {"nothing", "failed", "succeeded", "both"}
  OBVIOUS
<1>2. v = [w EXCEPT !.told = x]
  BY DEF Told
<1> HIDE DEF x
<1> QED
  BY <1>1, <1>2 DEF Worlds

LEMMA CrashFacts ==
  ASSUME NEW w \in Worlds,
         NEW why \in {"null", "listed twice", "stream open", "deleted inside"},
         NEW v, v = Crash(w, why)
  PROVE  /\ v \in Worlds /\ v.file = w.file /\ v.line = w.line
         /\ v.single = w.single /\ v.download = w.download /\ v.net = w.net
         /\ v.crashed # "no"
<1>1. CASE w.crashed = "no"
  <2>1. v = [w EXCEPT !.crashed = why]
    BY <1>1 DEF Crash
  <2> QED
    BY <2>1 DEF Worlds
<1>2. CASE w.crashed # "no"
  BY <1>2 DEF Crash
<1> QED
  BY <1>1, <1>2

LEMMA ClosedFacts ==
  ASSUME NEW w \in Worlds, NEW v, v = Closed(w)
  PROVE  /\ v \in Worlds /\ v.file = w.file /\ v.download = w.download
         /\ v.net = w.net /\ v.told = w.told /\ v.late = w.late
         /\ v.crashed = w.crashed
         /\ v.line = [w.line EXCEPT !.stream = "none"] /\ v.line \in Lines
         /\ v.single = [w.single EXCEPT !.dest = FALSE]
<1> DEFINE x == [w.line EXCEPT !.stream = "none"]
           y == [w.single EXCEPT !.dest = FALSE]
           a == [w EXCEPT !.single = y]
<1>1. v = [a EXCEPT !.line = x]
  BY DEF Closed, NoDestination, Worlds
<1>2. x \in Lines /\ y \in Singles
  BY DEF Worlds, Lines, Singles
<1> HIDE DEF x, y
<1>3. /\ a \in Worlds /\ a.file = w.file /\ a.download = w.download
      /\ a.net = w.net /\ a.told = w.told /\ a.late = w.late
      /\ a.crashed = w.crashed /\ a.single = y
  BY <1>2, WithSingle
<1> HIDE DEF a
<1>4. /\ v \in Worlds /\ v.file = a.file /\ v.download = a.download
      /\ v.net = a.net /\ v.told = a.told /\ v.late = a.late
      /\ v.crashed = a.crashed /\ v.single = a.single /\ v.line = x
  BY <1>1, <1>2, <1>3, WithLine
<1> QED
  BY <1>2, <1>3, <1>4 DEF x, y

LEMMA ClosedListens ==
  ASSUME NEW w \in Worlds, NEW v, v = Closed(w)
  PROVE  /\ Listening(w, v) /\ ~v.single.dest /\ v.line.stream = "none"
         /\ v.line.tick = w.line.tick /\ v.line.state = w.line.state
<1>1. w.line \in Lines /\ w.single \in Singles
  BY DEF Worlds
<1>2. /\ v.line = [w.line EXCEPT !.stream = "none"]
      /\ v.single = [w.single EXCEPT !.dest = FALSE]
      /\ v \in Worlds /\ v.file = w.file
  BY ClosedFacts
<1> QED
  BY <1>1, <1>2 DEF Listening, Lines, Singles

LEMMA LineFailedFacts ==
  ASSUME NEW w \in Worlds, NEW v, v = LineFailed(w)
  PROVE  /\ Listening(w, v) /\ v.net = w.net /\ v.download = w.download
         /\ v.crashed = w.crashed /\ ~v.single.dest
         /\ v.line.state # "CREATED"
         /\ \/ v.line.tick = w.line.tick
            \/ /\ w.download.state = "INTERRUPTED"
               /\ w.single.tries < MAX_TRIES
<1> DEFINE w1 == Closed(w)
           s == IF w1.line.state = "STOPPED" THEN w1.line.state ELSE "ERROR"
           x == [w1.line EXCEPT !.state = s]
           w2 == [w1 EXCEPT !.line = x]
           y == [x EXCEPT !.tick = "startResume"]
<1>1. /\ Listening(w, w1) /\ ~w1.single.dest /\ w1.line \in Lines
      /\ w1.line.tick = w.line.tick
      /\ w1.net = w.net /\ w1.download = w.download /\ w1.crashed = w.crashed
  BY ClosedFacts, ClosedListens
<1>2. v = IF w2.line.state = "ERROR" /\ ResumePossible(w2)
          THEN [w2 EXCEPT !.line.tick = "startResume"] ELSE w2
  BY DEF LineFailed
<1> HIDE DEF w1
<1>3. s \in {"STOPPED", "ERROR"}
  OBVIOUS
<1> HIDE DEF s
<1>4. /\ x \in Lines /\ x.state = s /\ x.tick = w1.line.tick
      /\ x.listed = w1.line.listed /\ x.job = w1.line.job
  BY <1>1, <1>3 DEF Lines
<1> HIDE DEF x
<1>5. /\ w2 \in Worlds /\ w2.line = x /\ w2.file = w1.file
      /\ w2.single = w1.single /\ w2.download = w1.download
      /\ w2.net = w1.net /\ w2.crashed = w1.crashed
  BY <1>1, <1>4, WithLine DEF Listening
<1> HIDE DEF w2
<1>6. CASE v = w2
  BY <1>1, <1>3, <1>4, <1>5, <1>6 DEF Listening
<1>7. CASE ResumePossible(w2) /\ v = [w2 EXCEPT !.line = y]
  <2>1. /\ y \in Lines /\ y.state = x.state /\ y.listed = x.listed
        /\ y.job = x.job
    BY <1>4 DEF Lines
  <2> HIDE DEF y
  <2>2. /\ v \in Worlds /\ v.line = y /\ v.file = w2.file
        /\ v.single = w2.single /\ v.download = w2.download
        /\ v.net = w2.net /\ v.crashed = w2.crashed
    BY <1>5, <1>7, <2>1, WithLine
  <2>3. w2.download.state = "INTERRUPTED" /\ w2.single.tries < MAX_TRIES
    BY <1>7 DEF ResumePossible
  <2> QED
    BY <1>1, <1>3, <1>4, <1>5, <2>1, <2>2, <2>3 DEF Listening
<1> QED
  BY <1>2, <1>5, <1>6, <1>7

LEMMA ChildFailedFacts ==
  ASSUME NEW w \in Worlds, NEW v, v = ChildFailed(w)
  PROVE  /\ Listening(w, v) /\ v.line.tick = w.line.tick
         /\ v.line.state \in {"ERROR", w.line.state}
         /\ v.download.inside = w.download.inside
         /\ v.download.state = w.download.state
         /\ v.download.current = w.download.current
         /\ \/ /\ w.download.inside /\ v.crashed # "no" /\ v.net = w.net
               /\ v.download = w.download /\ v.single = w.single
            \/ ~w.download.inside /\ v.net.on = "none"
<1>1. CASE w.download.inside
  BY <1>1, CrashFacts DEF ChildFailed, Listening
<1>2. CASE ~w.download.inside
  <2> DEFINE a == Removed(w)
             b == Closed(a)
             x == [b.line EXCEPT !.state = "ERROR"]
             d == [w.download EXCEPT !.handle = FALSE]
  <2>1. /\ a \in Worlds /\ Beside(w, a) /\ a.net.on = "none"
        /\ a.download = d
    BY RemovedFacts
  <2>2. /\ d.inside = w.download.inside /\ d.state = w.download.state
        /\ d.current = w.download.current
    BY DEF Worlds, Downloads
  <2> HIDE DEF a, d
  <2>3. /\ Listening(a, b) /\ b.net = a.net /\ b.download = a.download
        /\ b.crashed = a.crashed /\ b.line \in Lines
        /\ b.line.tick = a.line.tick
    BY <2>1, ClosedFacts, ClosedListens
  <2>4. v = [b EXCEPT !.line = x]
    BY <1>2 DEF ChildFailed, a
  <2> HIDE DEF b
  <2>5. /\ x \in Lines /\ x.state = "ERROR" /\ x.tick = b.line.tick
        /\ x.listed = b.line.listed /\ x.job = b.line.job
    BY <2>3 DEF Lines
  <2> HIDE DEF x
  <2>6. /\ v \in Worlds /\ v.line = x /\ v.file = b.file
        /\ v.single = b.single /\ v.download = b.download
        /\ v.net = b.net /\ v.crashed = b.crashed
    BY <2>3, <2>4, <2>5, WithLine DEF Listening
  <2> QED
    BY <1>2, <2>1, <2>2, <2>3, <2>5, <2>6 DEF Listening, Beside
<1> QED
  BY <1>1, <1>2

LEMMA JobFailedFacts ==
  ASSUME NEW w \in Worlds, NEW v, v = JobFailed(w)
  PROVE  /\ Listening(w, v)
         /\ v.download.inside = w.download.inside
         /\ v.download.state = w.download.state
         /\ v.download.current = w.download.current
         /\ w.line.state # "CREATED" => v.line.state # "CREATED"
         /\ \/ v.line.tick = w.line.tick
            \/ /\ w.download.state = "INTERRUPTED" /\ Owner # "Child"
               /\ w.single.tries < MAX_TRIES
         /\ \/ /\ v.net = w.net /\ v.download = w.download
               /\ \/ v.crashed # "no" /\ w.download.inside /\ Owner = "Child"
                  \/ v.crashed = w.crashed /\ ~v.single.dest
            \/ ~w.download.inside /\ v.net.on = "none"
<1> DEFINE a == Told(w, "failed")
<1>1. /\ a \in Worlds /\ a.file = w.file /\ a.line = w.line
      /\ a.single = w.single /\ a.download = w.download /\ a.net = w.net
      /\ a.late = w.late /\ a.crashed = w.crashed
  BY ToldFacts
<1>2. v = IF Owner = "Child" THEN ChildFailed(a) ELSE LineFailed(a)
  BY DEF JobFailed
<1> HIDE DEF a
<1>3. CASE Owner = "Child"
  BY <1>1, <1>2, <1>3, ChildFailedFacts DEF Listening
<1>4. CASE Owner # "Child"
  BY <1>1, <1>2, <1>4, LineFailedFacts DEF Listening
<1> QED
  BY <1>3, <1>4

LEMMA JobSucceededFacts ==
  ASSUME NEW w \in Worlds, NEW v, v = JobSucceeded(w)
  PROVE  /\ Listening(w, v) /\ v.net = w.net /\ v.download = w.download
         /\ v.crashed = w.crashed /\ v.line.tick = "none"
         /\ v.line.state # "CREATED"
<1> DEFINE a == Told(w, "succeeded")
           b == Closed(a)
           s == IF b.line.state = "STOPPED" THEN b.line.state ELSE "SUCCEEDED"
           x == [b.line EXCEPT !.tick = "none", !.state = s]
<1>1. /\ a \in Worlds /\ a.file = w.file /\ a.line = w.line
      /\ a.single = w.single /\ a.download = w.download /\ a.net = w.net
      /\ a.late = w.late /\ a.crashed = w.crashed
  BY ToldFacts
<1>2. v = [b EXCEPT !.line = x]
  BY DEF JobSucceeded
<1> HIDE DEF a
<1>3. /\ Listening(a, b) /\ b.net = a.net /\ b.download = a.download
      /\ b.crashed = a.crashed /\ b.line \in Lines
  BY <1>1, ClosedFacts, ClosedListens
<1> HIDE DEF b
<1>4. /\ x \in Lines /\ x.state # "CREATED" /\ x.tick = "none"
      /\ x.listed = b.line.listed /\ x.job = b.line.job
  BY <1>3 DEF Lines
<1> HIDE DEF x
<1>5. /\ v \in Worlds /\ v.line = x /\ v.file = b.file
      /\ v.single = b.single /\ v.download = b.download
      /\ v.net = b.net /\ v.crashed = b.crashed
  BY <1>2, <1>3, <1>4, WithLine DEF Listening
<1> QED
  BY <1>1, <1>3, <1>4, <1>5 DEF Listening

LEMMA DataSourceDataFacts ==
  ASSUME NEW w \in Worlds, NEW v, v = DataSourceData(w)
  PROVE  /\ v \in Worlds /\ v.file = w.file /\ v.single = w.single
         /\ v.download = w.download /\ v.net = w.net
         /\ \/ v.crashed = w.crashed
            \/ v.crashed # "no" /\ Owner # "Child" /\ w.line.stream = "none"
         /\ v.line.state = w.line.state /\ v.line.stream = w.line.stream
         /\ v.line.listed = w.line.listed /\ v.line.job = w.line.job
         /\ v.line.tick = "startResume" => w.line.tick = "startResume"
<1> DEFINE t == IF w.line.tick = "none" THEN "showProgress" ELSE w.line.tick
           x == [w.line EXCEPT !.tick = t]
           l == w.late \/ w.told # "nothing"
           a == [w EXCEPT !.line = x]
           b == [a EXCEPT !.late = l]
<1>1. v = IF Owner # "Child" /\ w.line.stream = "none" THEN Crash(b, "null") ELSE b
  BY DEF DataSourceData, Worlds
<1>2. /\ x \in Lines /\ x.state = w.line.state /\ x.stream = w.line.stream
      /\ x.listed = w.line.listed /\ x.job = w.line.job
      /\ x.tick = "startResume" => w.line.tick = "startResume"
  BY DEF Worlds, Lines
<1>3. l \in BOOLEAN
  BY DEF Worlds
<1> HIDE DEF x, l
<1>4. /\ a \in Worlds /\ a.line = x /\ a.file = w.file
      /\ a.single = w.single /\ a.download = w.download
      /\ a.net = w.net /\ a.crashed = w.crashed
  BY <1>2, WithLine
<1> HIDE DEF a
<1>5. /\ b \in Worlds /\ b.line = a.line /\ b.file = a.file
      /\ b.single = a.single /\ b.download = a.download
      /\ b.net = a.net /\ b.crashed = a.crashed
  BY <1>3, <1>4, WithLate
<1> HIDE DEF b
<1>6. CASE Owner # "Child" /\ w.line.stream = "none"
  <2>1. v = Crash(b, "null")
    BY <1>1, <1>6
  <2>2. /\ v \in Worlds /\ v.file = b.file /\ v.line = b.line
        /\ v.single = b.single /\ v.download = b.download /\ v.net = b.net
        /\ v.crashed # "no"
    BY <1>5, <2>1, CrashFacts
  <2> QED
    BY <1>2, <1>4, <1>5, <1>6, <2>2
<1>7. CASE ~(Owner # "Child" /\ w.line.stream = "none")
  <2>1. v = b
    BY <1>1, <1>7
  <2> QED
    BY <1>2, <1>4, <1>5, <2>1
<1> QED
  BY <1>6, <1>7

-----------------------------------------------------------------------------
(* Data that come in *)

\* The download is in the callback of libcurl; without a destination it has
\* been stopped, or the program has aborted.
Receiving(w) ==
  /\ w \in Worlds /\ w.download.inside /\ w.download.handle
  /\ w.download.state \in Final => w.crashed # "no" \/ w.download.stopLater
  /\ w.single.dest => w.download.state \notin Final \/ Owner = "Child"
  /\ ~w.single.dest => w.download.state \in Final
  /\ w.single.dest => w.line.stream # "none" \/ Owner = "Child"

\* Nothing more is going to be processed.
Halted(w) ==
  w.download.state \in Final /\ (w.crashed # "no" \/ w.download.stopLater)

\* What no data change, and what they change only by ending the transfer
After(w, v) ==
  /\ Receiving(v) /\ v.net = w.net
  /\ v.download.current = w.download.current
  /\ v.line.listed = w.line.listed /\ v.line.job = w.line.job
  /\ w.line.state # "CREATED" => v.line.state # "CREATED"
  /\ v.line.tick = "startResume" => w.line.tick = "startResume"
  /\ v.single.tries \in {w.single.tries, MAX_TRIES}
  /\ \/ Halted(v)
     \/ /\ v.download = w.download /\ v.single.dest = w.single.dest
        /\ v.line.state = w.line.state /\ v.line.stream = w.line.stream
        /\ v.crashed = w.crashed

LEMMA AfterTrans ==
  ASSUME NEW w, NEW v, NEW u, After(w, v), After(v, u)
  PROVE  After(w, u)
<1>1. CASE Halted(u)
  BY <1>1 DEF After
<1>2. CASE ~Halted(u)
  <2>1. /\ u.download = v.download /\ u.single.dest = v.single.dest
        /\ u.line.state = v.line.state /\ u.line.stream = v.line.stream
        /\ u.crashed = v.crashed
    BY <1>2 DEF After
  <2>2. ~Halted(v)
    BY <1>2, <2>1 DEF Halted
  <2> QED
    BY <2>1, <2>2 DEF After
<1> QED
  BY <1>1, <1>2

\* The job fails in the callback, and the transfer is stopped.
LEMMA StopFacts ==
  ASSUME NEW w, Receiving(w), NEW v, v = DownloadStop(JobFailed(w)),
         \/ w.download.state \notin Final \/ Owner = "Child"
         \/ w.single.tries >= MAX_TRIES, MAX_TRIES \in Nat
  PROVE  /\ After(w, v) /\ Halted(v) /\ v.file = w.file
         /\ v.single.current = w.single.current
         /\ v.single.resumeLeft = w.single.resumeLeft
<1> DEFINE a == JobFailed(w)
<1>1. w \in Worlds /\ w.single.tries \in Nat
  BY DEF Receiving, Worlds, Singles
<1>2. /\ Listening(w, a) /\ a.download = w.download /\ a.net = w.net
      /\ w.line.state # "CREATED" => a.line.state # "CREATED"
      /\ \/ a.crashed # "no" /\ Owner = "Child"
         \/ a.crashed = w.crashed /\ ~a.single.dest
      /\ \/ a.line.tick = w.line.tick
         \/ /\ w.download.state = "INTERRUPTED" /\ Owner # "Child"
            /\ w.single.tries < MAX_TRIES
  BY <1>1, JobFailedFacts DEF Receiving
<1>3. a.line.tick = w.line.tick
  BY <1>1, <1>2 DEF Final
<1> HIDE DEF a
<1>4. /\ v \in Worlds /\ Beside(a, v) /\ v.download.inside
      /\ v.download.current = w.download.current
      /\ v.download.handle /\ v.net = w.net /\ v.download.state \in Final
      /\ v.download.stopLater \/ v.download = w.download
  <2>1. a \in Worlds /\ a.download.inside /\ a.download.handle
    BY <1>2 DEF Listening, Receiving
  <2>2. v = DownloadStop(a)
    BY DEF a
  <2> QED
    BY <1>2, <2>1, <2>2, DownloadStopFacts DEF Final, Beside
<1>5. Halted(v)
  BY <1>2, <1>4 DEF Halted, Receiving, Beside
<1>6. Receiving(v)
  BY <1>2, <1>4, <1>5 DEF Receiving, Beside, Halted
<1> QED
  BY <1>2, <1>3, <1>4, <1>5, <1>6 DEF After, Beside, Listening

LEMMA ResumeFailedFacts ==
  ASSUME GtkSingleUrlAssumption, NEW w, Receiving(w), NEW v, v = ResumeFailed(w)
  PROVE  /\ After(w, v) /\ Halted(v) /\ v.file = w.file
         /\ v.single.current = w.single.current
         /\ v.single.resumeLeft = w.single.resumeLeft
<1> DEFINE x == [w.single EXCEPT !.tries = MAX_TRIES]
           a == [w EXCEPT !.single = x]
<1>1. MAX_TRIES \in Nat /\ w \in Worlds
  BY DEF GtkSingleUrlAssumption, Receiving
<1>2. /\ x \in Singles /\ x.tries = MAX_TRIES /\ x.dest = w.single.dest
      /\ x.current = w.single.current /\ x.resumeLeft = w.single.resumeLeft
  BY <1>1 DEF Worlds, Singles
<1>3. v = DownloadStop(JobFailed(a))
  BY DEF ResumeFailed, SetNoResumePossible
<1> HIDE DEF x
<1>4. /\ a \in Worlds /\ a.single = x /\ a.file = w.file /\ a.line = w.line
      /\ a.download = w.download /\ a.net = w.net /\ a.crashed = w.crashed
  BY <1>1, <1>2, WithSingle
<1> HIDE DEF a
<1>5. Receiving(a)
  BY <1>2, <1>4 DEF Receiving
<1>6. /\ After(a, v) /\ Halted(v) /\ v.file = a.file
      /\ v.single.current = a.single.current
      /\ v.single.resumeLeft = a.single.resumeLeft
  BY <1>1, <1>2, <1>3, <1>4, <1>5, StopFacts
<1> QED
  BY <1>2, <1>4, <1>6 DEF After

LEMMA DataSizeFacts ==
  ASSUME GtkSingleUrlAssumption, NEW w, Receiving(w), NEW n \in Nat,
         NEW v, v = DataSize(w, n)
  PROVE  /\ After(w, v) /\ v.file = w.file
         /\ v.single.current = w.single.current
         /\ v.single.resumeLeft = w.single.resumeLeft
<1>1. CASE w.single.size = 0
  <2> DEFINE x == [w.single EXCEPT !.size = n]
  <2>1. v = [w EXCEPT !.single = x]
    BY <1>1 DEF DataSize
  <2>2. w \in Worlds
    BY DEF Receiving
  <2>3. /\ x \in Singles /\ x.tries = w.single.tries
        /\ x.dest = w.single.dest /\ x.current = w.single.current
        /\ x.resumeLeft = w.single.resumeLeft
    BY <2>2 DEF Worlds, Singles
  <2> HIDE DEF x
  <2>4. /\ v \in Worlds /\ v.single = x /\ v.file = w.file /\ v.line = w.line
        /\ v.download = w.download /\ v.net = w.net /\ v.crashed = w.crashed
    BY <2>1, <2>2, <2>3, WithSingle
  <2> QED
    BY <2>3, <2>4 DEF After, Receiving
<1>2. CASE w.single.size # 0 /\ n # w.single.size
  BY <1>2, ResumeFailedFacts DEF DataSize
<1>3. CASE w.single.size # 0 /\ n = w.single.size
  BY <1>3 DEF DataSize, After
<1> QED
  BY <1>1, <1>2, <1>3

\* Blocks of the object that are written where they belong
LEMMA WrittenFacts ==
  ASSUME NEW f \in Seq(Nat), NEW at \in Nat, NEW room \in Nat,
         Good(f), at <= Len(f), NEW g, g = Written(f, at, at, room)
  PROVE  /\ g \in Seq(Nat) /\ Good(g)
         /\ Len(g) = IF at + room > Len(f) THEN at + room ELSE Len(f)
<1> DEFINE n == IF at + room > Len(f) THEN at + room ELSE Len(f)
<1>1. n \in Nat
  OBVIOUS
<1>2. g = [i \in 1..n |-> IF at < i /\ i <= at + room THEN at + i - at
                          ELSE IF i <= Len(f) THEN f[i] ELSE 0]
  BY DEF Written
<1>3. \A i \in 1..n : g[i] = i
  <2> SUFFICES ASSUME NEW i \in 1..n PROVE g[i] = i
    OBVIOUS
  <2>1. i \in Nat /\ i >= 1
    BY <1>1
  <2>2. CASE at < i /\ i <= at + room
    BY <1>2, <2>1, <2>2
  <2>3. CASE ~(at < i /\ i <= at + room)
    <3>1. i <= Len(f)
      BY <2>1, <2>3
    <3>2. g[i] = f[i]
      BY <1>2, <2>3, <3>1
    <3> QED
      BY <2>1, <3>1, <3>2 DEF Good
  <2> QED
    BY <2>2, <2>3
<1>4. \A i \in 1..n : g[i] \in Nat
  BY <1>1, <1>3
<1>5. g \in [1..n -> Nat]
  BY <1>2, <1>4
<1>6. g \in Seq(Nat) /\ Len(g) = n
  BY <1>1, <1>5
<1> QED
  BY <1>3, <1>6 DEF Good

\* A file that is good ends within the destination.
LEMMA FileFacts ==
  ASSUME GtkSingleUrlAssumption, NEW f \in Seq(Nat), FileOK(f)
  PROVE  Good(f) => (DestEnd > 0 => Len(f) <= DestEnd)
<1> SUFFICES ASSUME Good(f), Old(f), Len(f) # 0 PROVE FALSE
  BY DEF FileOK, GtkSingleUrlAssumption
<1>1. Len(f) \in Nat /\ 1 \in 1..Len(f)
  OBVIOUS
<1> QED
  BY <1>1 DEF Good, Old

LEMMA WriteFacts ==
  ASSUME GtkSingleUrlAssumption, NEW w, Receiving(w), FileOK(w.file),
         NEW at \in Nat, NEW k \in Nat \ {0}, NEW canWrite \in BOOLEAN,
         w.single.dest => Good(w.file) /\ at <= Len(w.file),
         NEW v, v = WriteToDestStream(w, at, at, k, canWrite)
  PROVE  /\ After(w, v) /\ FileOK(v.file)
         /\ v.file = w.file \/ Good(v.file)
         /\ v.single.current = w.single.current
         /\ v.single.resumeLeft = w.single.resumeLeft
         /\ v.single.dest /\ ~Halted(v) =>
              /\ Good(v.file) /\ at + k <= Len(v.file)
              /\ at = Len(w.file) => at + k = Len(v.file)
<1>0. w \in Worlds /\ w.file \in Seq(Nat)
  BY DEF Receiving, Worlds
<1>1. w \in Worlds /\ w.file \in Seq(Nat) /\ Len(w.file) \in Nat
  BY <1>0, LenProperties
<1>2. CASE ~w.single.dest
  <2>1. v = DataSourceData(w)
    BY <1>2 DEF WriteToDestStream
  <2>2. /\ v \in Worlds /\ v.file = w.file /\ v.single = w.single
        /\ v.download = w.download /\ v.net = w.net
        /\ v.crashed = w.crashed \/ v.crashed # "no"
        /\ v.line.state = w.line.state /\ v.line.stream = w.line.stream
        /\ v.line.listed = w.line.listed /\ v.line.job = w.line.job
        /\ v.line.tick = "startResume" => w.line.tick = "startResume"
    BY <1>1, <2>1, DataSourceDataFacts
  <2> QED
    BY <1>2, <2>2 DEF After, Receiving, Halted
<1>3. CASE w.single.dest
  <2> DEFINE room == Fits(at, k)
             g == Written(w.file, at, at, room)
             a == IF canWrite THEN [w EXCEPT !.file = g] ELSE w
  <2>1. DestEnd \in Nat /\ MAX_TRIES \in Nat
    BY DEF GtkSingleUrlAssumption
  <2>2. Good(w.file) /\ at <= Len(w.file)
        /\ (DestEnd > 0 => Len(w.file) <= DestEnd)
    BY <1>1, <1>3, FileFacts
  <2>3. /\ room \in Nat /\ room <= k
        /\ DestEnd > 0 => at + room <= DestEnd
    BY <1>1, <2>1, <2>2 DEF Fits
  <2>4. v = IF canWrite /\ room = k THEN DataSourceData(a)
            ELSE DownloadStop(JobFailed(a))
    BY <1>3 DEF WriteToDestStream
  <2> HIDE DEF room
  <2>5. /\ g \in Seq(Nat) /\ Good(g)
        /\ Len(g) = IF at + room > Len(w.file) THEN at + room ELSE Len(w.file)
    BY <1>1, <2>2, <2>3, WrittenFacts
  <2>6. FileOK(g)
    BY <1>1, <2>1, <2>2, <2>3, <2>5 DEF FileOK
  <2> HIDE DEF g
  <2>7. /\ a \in Worlds /\ a.single = w.single /\ a.line = w.line
        /\ a.download = w.download /\ a.net = w.net /\ a.crashed = w.crashed
        /\ a.file = IF canWrite THEN g ELSE w.file
    BY <1>1, <2>5, WithFile
  <2> HIDE DEF a
  <2>8. Receiving(a)
    BY <2>7 DEF Receiving
  <2>9. CASE canWrite /\ room = k
    <3>1. v = DataSourceData(a)
      BY <2>4, <2>9
    <3>2. /\ v \in Worlds /\ v.file = a.file /\ v.single = a.single
          /\ v.download = a.download /\ v.net = a.net /\ v.crashed = a.crashed
          /\ v.line.state = a.line.state /\ v.line.stream = a.line.stream
          /\ v.line.listed = a.line.listed /\ v.line.job = a.line.job
          /\ v.line.tick = "startResume" => a.line.tick = "startResume"
      BY <1>3, <2>7, <3>1, DataSourceDataFacts DEF Receiving
    <3>3. After(w, v)
      BY <2>7, <2>8, <3>2 DEF After, Receiving
    <3>4. v.file = g
      BY <2>7, <2>9, <3>2
    <3>5. at + k <= Len(g) /\ (at = Len(w.file) => at + k = Len(g))
      BY <1>1, <2>5, <2>9
    <3> QED
      BY <2>5, <2>6, <2>7, <3>2, <3>3, <3>4, <3>5
  <2>10. CASE ~(canWrite /\ room = k)
    <3>1. v = DownloadStop(JobFailed(a))
      BY <2>4, <2>10
    <3>2. a.download.state \notin Final \/ Owner = "Child"
      BY <1>3, <2>7 DEF Receiving
    <3>3. /\ After(a, v) /\ Halted(v) /\ v.file = a.file
          /\ v.single.current = a.single.current
          /\ v.single.resumeLeft = a.single.resumeLeft
      BY <2>1, <2>8, <3>1, <3>2, StopFacts
    <3>4. After(w, v)
      BY <2>7, <3>3 DEF After
    <3> QED
      BY <2>5, <2>6, <2>7, <3>3, <3>4
  <2> QED
    BY <2>9, <2>10
<1> QED
  BY <1>2, <1>3

\* An overlap that is equal is the object's.
LEMMA DifferFacts ==
  ASSUME NEW w, Receiving(w), FileOK(w.file),
         NEW first \in Nat, NEW k \in Nat \ {0}, w.single.resumeLeft > 0,
         w.download.current = first + k, Differ(w, first, k) = {}
  PROVE  /\ Good(w.file)
         /\ first + Smaller(w.single.resumeLeft, k) <= Len(w.file)
<1> DEFINE r == w.single.resumeLeft
           n == Smaller(r, k)
           f == w.file
<1>0. w.single \in Singles /\ f \in Seq(Nat)
  BY DEF Receiving, Worlds
<1>1. r \in Nat /\ n \in Nat \ {0} /\ f \in Seq(Nat)
  <2>1. r \in Nat
    BY <1>0 DEF Singles
  <2> QED
    BY <1>0, <2>1 DEF Smaller
<1>2. Len(f) \in Nat
  BY <1>1, LenProperties
<1>3. Differ(w, first, k) =
        {i \in 1..n : first + i > Len(f) \/ f[first + i] # first + i}
  BY DEF Differ
<1> HIDE DEF r, n, f
<1>4. \A i \in 1..n : ~(first + i > Len(f)) /\ f[first + i] = first + i
  BY <1>3
<1>5. 1 \in 1..n /\ n \in 1..n
  BY <1>1
<1>6. first + n <= Len(f)
  BY <1>1, <1>2, <1>4, <1>5
<1>7. first + 1 \in 1..Len(f) /\ f[first + 1] # 0
  BY <1>1, <1>2, <1>4, <1>5, <1>6
<1>8. ~Old(f)
  BY <1>7 DEF Old
<1> QED
  BY <1>6, <1>8 DEF FileOK, f, n, r

LEMMA DataFacts ==
  ASSUME GtkSingleUrlAssumption, NEW w, Receiving(w), FileOK(w.file),
         NEW first \in Nat, NEW k \in Nat \ {0}, NEW canWrite \in BOOLEAN,
         w.download.current = first + k,
         w.single.dest /\ w.single.resumeLeft = 0 =>
           Good(w.file) /\ first <= Len(w.file),
         NEW v, v = Data(w, first, k, canWrite)
  PROVE  /\ After(w, v) /\ FileOK(v.file)
         /\ v.file = w.file \/ Good(v.file)
         /\ v.single.current \in {w.single.current, first + k}
         /\ v.single.dest /\ ~Halted(v) =>
              /\ v.single.resumeLeft = 0 =>
                   Good(v.file) /\ first + k <= Len(v.file)
              /\ /\ w.single.current = Len(w.file)
                 /\ first + w.single.resumeLeft = Len(w.file)
                 => /\ v.single.current = Len(v.file)
                    /\ first + k + v.single.resumeLeft = Len(v.file)
<1> DEFINE left == w.single.resumeLeft
           cur == w.download.current
           compared == Smaller(left, k)
           x == [w.single EXCEPT !.resumeLeft = left - compared]
           after == [w EXCEPT !.single = x]
<1>0. w \in Worlds /\ w.single \in Singles /\ w.file \in Seq(Nat)
  BY DEF Receiving, Worlds
<1>1. left \in Nat /\ Len(w.file) \in Nat
  BY <1>0, LenProperties DEF Singles
<1>2. CASE left = 0
  <2> DEFINE y == [w.single EXCEPT !.current = cur]
             a == [w EXCEPT !.single = y]
  <2>1. v = WriteToDestStream(a, cur - k, first, k, canWrite)
    BY <1>2 DEF Data
  <2>0. cur \in Nat /\ cur = first + k
    OBVIOUS
  <2>11. /\ y \in Singles /\ y.current = cur /\ y.dest = w.single.dest
         /\ y.tries = w.single.tries /\ y.resumeLeft = left
    <3> HIDE DEF cur
    <3> QED
      BY <1>0, <2>0 DEF Singles
  <2>2. /\ y \in Singles /\ y.current = first + k /\ y.dest = w.single.dest
        /\ y.tries = w.single.tries /\ y.resumeLeft = left
    BY <2>0, <2>11
  <2> HIDE DEF y
  <2>3. /\ a \in Worlds /\ a.single = y /\ a.file = w.file /\ a.line = w.line
        /\ a.download = w.download /\ a.net = w.net /\ a.crashed = w.crashed
    BY <1>0, <2>2, WithSingle
  <2> HIDE DEF a
  <2>4. cur - k = first
    OBVIOUS
  <2>5. Receiving(a) /\ After(w, a)
    BY <2>2, <2>3 DEF Receiving, After
  <2>6. v = WriteToDestStream(a, first, first, k, canWrite)
    BY <2>1, <2>4
  <2>7. a.single.dest => Good(a.file) /\ first <= Len(a.file)
    BY <1>2, <2>2, <2>3
  <2>8. FileOK(a.file)
    BY <2>3
  <2>9. /\ After(a, v) /\ FileOK(v.file)
        /\ v.file = a.file \/ Good(v.file)
        /\ v.single.current = a.single.current
        /\ v.single.resumeLeft = a.single.resumeLeft
        /\ v.single.dest /\ ~Halted(v) =>
              /\ Good(v.file) /\ first + k <= Len(v.file)
              /\ first = Len(a.file) => first + k = Len(v.file)
    BY <2>5, <2>6, <2>7, <2>8, WriteFacts
  <2>10. After(w, v)
    BY <2>5, <2>9, AfterTrans
  <2> QED
    BY <1>1, <1>2, <2>2, <2>3, <2>9, <2>10
<1>3. CASE left > 0 /\ ~w.single.dest
  <2>1. v = Crash(w, "null")
    BY <1>3 DEF Data
  <2>2. /\ v \in Worlds /\ v.file = w.file /\ v.line = w.line
        /\ v.single = w.single /\ v.download = w.download /\ v.net = w.net
        /\ v.crashed # "no"
    BY <1>0, <2>1, CrashFacts
  <2> QED
    BY <1>3, <2>2 DEF After, Receiving, Halted
<1>4. CASE left > 0 /\ w.single.dest /\ Differ(w, first, k) # {}
  <2>1. v = ResumeFailed(w)
    BY <1>4 DEF Data
  <2> QED
    BY <2>1, ResumeFailedFacts
<1>5. CASE left > 0 /\ w.single.dest /\ Differ(w, first, k) = {}
  <2>1. Good(w.file) /\ first + compared <= Len(w.file)
    BY <1>5, DifferFacts
  <2>2. /\ compared \in Nat /\ compared <= left /\ compared <= k
        /\ compared = left \/ compared = k
    BY <1>1 DEF Smaller
  <2> HIDE DEF compared
  <2>3. /\ x \in Singles /\ x.resumeLeft = left - compared
        /\ x.current = w.single.current /\ x.dest = w.single.dest
        /\ x.tries = w.single.tries
    <3> DEFINE d == left - compared
    <3>1. d \in Nat /\ x = [w.single EXCEPT !.resumeLeft = d]
      BY <1>1, <2>2
    <3> HIDE DEF d, x
    <3>2. /\ x \in Singles /\ x.resumeLeft = d
          /\ x.current = w.single.current /\ x.dest = w.single.dest
          /\ x.tries = w.single.tries
      BY <1>0, <3>1 DEF Singles
    <3> QED
      BY <3>2 DEF d
  <2>4. v = IF after.single.resumeLeft > 0 \/ compared = k THEN after
            ELSE WriteToDestStream([after EXCEPT !.single.current = cur],
                                   cur - (k - compared), first + compared,
                                   k - compared, canWrite)
    BY <1>5 DEF Data, compared
  <2> HIDE DEF x
  <2>5. /\ after \in Worlds /\ after.single = x /\ after.file = w.file
        /\ after.line = w.line /\ after.download = w.download
        /\ after.net = w.net /\ after.crashed = w.crashed
    BY <1>0, <2>3, WithSingle
  <2> HIDE DEF after
  <2>6. CASE after.single.resumeLeft > 0 \/ compared = k
    <3>1. v = after
      BY <2>4, <2>6
    <3>2. compared = k
      BY <1>1, <2>2, <2>3, <2>5, <2>6
    <3>3. After(w, v)
      BY <2>3, <2>5, <3>1 DEF After, Receiving
    <3>4. /\ v.single.current = w.single.current /\ v.file = w.file
          /\ v.single.resumeLeft = left - k
      BY <2>3, <2>5, <3>1, <3>2
    <3> QED
      BY <1>1, <2>1, <3>2, <3>3, <3>4
  <2>7. CASE ~(after.single.resumeLeft > 0 \/ compared = k)
    <3> DEFINE y == [after.single EXCEPT !.current = cur]
               a == [after EXCEPT !.single = y]
               at == first + compared
               m == k - compared
    <3>1. compared = left /\ m \in Nat \ {0} /\ cur - m = at /\ at \in Nat
          /\ at + m = first + k
      BY <1>1, <2>2, <2>3, <2>5, <2>7
    <3>2. v = WriteToDestStream(a, cur - m, at, m, canWrite)
      BY <2>4, <2>7
    <3> HIDE DEF at, m
    <3>3. v = WriteToDestStream(a, at, at, m, canWrite)
      BY <3>1, <3>2
    <3>12. cur \in Nat /\ cur = first + k
      OBVIOUS
    <3>4. /\ y \in Singles /\ y.current = first + k /\ y.dest = w.single.dest
          /\ y.tries = w.single.tries /\ y.resumeLeft = left - compared
      <4> HIDE DEF cur
      <4> QED
        BY <2>3, <2>5, <3>12 DEF Singles
    <3> HIDE DEF y
    <3>5. /\ a \in Worlds /\ a.single = y /\ a.file = w.file /\ a.line = w.line
          /\ a.download = w.download /\ a.net = w.net /\ a.crashed = w.crashed
      BY <2>5, <3>4, WithSingle
    <3> HIDE DEF a
    <3>6. Receiving(a) /\ After(w, a)
      BY <3>4, <3>5 DEF Receiving, After
    <3>7. FileOK(a.file) /\ Good(a.file) /\ at <= Len(a.file)
      BY <2>1, <3>5 DEF at
    <3>8. /\ After(a, v) /\ FileOK(v.file)
          /\ v.file = a.file \/ Good(v.file)
          /\ v.single.current = a.single.current
          /\ v.single.resumeLeft = a.single.resumeLeft
          /\ v.single.dest /\ ~Halted(v) =>
                /\ Good(v.file) /\ at + m <= Len(v.file)
                /\ at = Len(a.file) => at + m = Len(v.file)
      BY <3>1, <3>3, <3>6, <3>7, WriteFacts
    <3>9. After(w, v)
      BY <3>6, <3>8, AfterTrans
    <3>10. v.single.resumeLeft = 0 /\ v.single.current = first + k
      BY <1>1, <3>1, <3>4, <3>5, <3>8
    <3>11. at = first + left
      BY <3>1 DEF at
    <3> QED
      BY <1>1, <3>1, <3>5, <3>8, <3>9, <3>10, <3>11
  <2> QED
    BY <2>6, <2>7
<1> QED
  BY <1>1, <1>2, <1>3, <1>4, <1>5

\* A chunk of data keeps the invariant, and changes nothing behind the back of
\* whoever is waiting for the timer.
LEMMA CurlWriterFacts ==
  ASSUME GtkSingleUrlAssumption, NEW w, WorldInv(w),
         w.crashed = "no", w.net.on = "active",
         NEW k \in Nat \ {0}, NEW canWrite \in BOOLEAN,
         NEW v, v = CurlWriter(w, k, canWrite)
  PROVE  /\ WorldInv(v) /\ (Resumes(w) => Resumes(v))
         /\ w.line.state # "CREATED" => v.line.state # "CREATED"
         /\ v.line.tick = "startResume" => w.line.tick = "startResume"
         /\ v.single.tries \in {w.single.tries, MAX_TRIES}
<1> DEFINE first == w.net.pos
           p == first + k
           n == [w.net EXCEPT !.pos = p]
           sent == [w EXCEPT !.net = n]
           x == [sent.download EXCEPT !.inside = TRUE]
           inside == [sent EXCEPT !.download = x]
           sized == IF w.net.sized THEN DataSize(inside, N) ELSE inside
           y == [sized.download EXCEPT !.current = sized.download.current + k]
           c == [sized EXCEPT !.download = y]
           d == Data(c, first, k, canWrite)
           z == [d.download EXCEPT !.inside = FALSE]
<1>0. /\ w \in Worlds /\ FileOK(w.file) /\ SetUp(w) /\ Flow(w)
      /\ w.net \in Transfers /\ w.download \in Downloads
  BY DEF WorldInv, Worlds
<1>1. first \in Nat /\ p \in Nat /\ p > 0 /\ N \in Nat
  BY <1>0 DEF Transfers, GtkSingleUrlAssumption
<1>2. v = IF w.download.stopLater THEN sent ELSE [d EXCEPT !.download = z]
  BY DEF CurlWriter
<1>3. n \in Transfers /\ n.on = w.net.on /\ n.pos = p /\ n.sized = w.net.sized
  <2> HIDE DEF p
  <2> QED
    BY <1>0, <1>1 DEF Transfers
<1> HIDE DEF n
<1>4. /\ sent \in Worlds /\ sent.net = n /\ sent.file = w.file
      /\ sent.line = w.line /\ sent.single = w.single
      /\ sent.download = w.download /\ sent.crashed = w.crashed
  BY <1>0, <1>3, WithNet
<1>5. CASE w.download.stopLater
  <2>1. v = sent
    BY <1>2, <1>5
  <2> HIDE DEF sent
  <2>2. WorldInv(v)
    BY <1>0, <1>3, <1>4, <1>5, <2>1 DEF WorldInv, SetUp, Flow, Live
  <2>3. Resumes(w) => Resumes(v)
    BY <1>3, <1>4, <1>5, <2>1 DEF Resumes, Live
  <2> QED
    BY <1>4, <2>1, <2>2, <2>3
<1>6. CASE ~w.download.stopLater
  <2>0. /\ w.download.state = "RUNNING" /\ w.line.state = "RUNNING"
        /\ w.line.stream = "open" /\ w.single.dest
        /\ w.download.current = first
        /\ w.single.resumeLeft = 0 => Good(w.file) /\ first <= Len(w.file)
        /\ w.download.handle /\ w.line.listed /\ w.line.job = w.line.listed
    BY <1>0, <1>6 DEF Flow, Live, SetUp
  <2>1. v = [d EXCEPT !.download = z]
    BY <1>2, <1>6
  <2> HIDE DEF sent
  <2>2. /\ x \in Downloads /\ x.inside /\ x.handle /\ x.state = "RUNNING"
        /\ ~x.stopLater /\ x.current = first
    BY <1>0, <1>4, <1>6, <2>0 DEF Downloads
  <2> HIDE DEF x
  <2>3. /\ inside \in Worlds /\ inside.download = x /\ inside.net = n
        /\ inside.file = w.file /\ inside.line = w.line
        /\ inside.single = w.single /\ inside.crashed = w.crashed
    BY <1>4, <2>2, WithDownload
  <2> HIDE DEF inside
  <2>4. Receiving(inside)
    BY <2>0, <2>2, <2>3 DEF Receiving, Final
  <2>5. /\ After(inside, sized) /\ sized.file = inside.file
        /\ sized.single.current = inside.single.current
        /\ sized.single.resumeLeft = inside.single.resumeLeft
    <3>1. CASE w.net.sized
      BY <1>1, <2>4, <3>1, DataSizeFacts
    <3>2. CASE ~w.net.sized
      BY <2>4, <3>2 DEF After
    <3> QED
      BY <3>1, <3>2
  <2> HIDE DEF sized
  <2>6. sized \in Worlds /\ sized.download \in Downloads
        /\ sized.download.current = first
    BY <2>2, <2>3, <2>5 DEF After, Receiving, Worlds
  <2>7. /\ y \in Downloads /\ y.current = p /\ y.inside = sized.download.inside
        /\ y.handle = sized.download.handle /\ y.state = sized.download.state
        /\ y.stopLater = sized.download.stopLater
    <3>1. y = [sized.download EXCEPT !.current = p]
      BY <2>6
    <3> HIDE DEF y, p
    <3> QED
      BY <1>1, <2>6, <3>1 DEF Downloads
  <2> HIDE DEF y
  <2>8. /\ c \in Worlds /\ c.download = y /\ c.net = sized.net
        /\ c.file = sized.file /\ c.line = sized.line
        /\ c.single = sized.single /\ c.crashed = sized.crashed
    BY <2>6, <2>7, WithDownload
  <2> HIDE DEF c
  <2>9. /\ Receiving(c) /\ FileOK(c.file) /\ c.download.current = first + k
        /\ c.single.dest /\ c.single.resumeLeft = 0 =>
             Good(c.file) /\ first <= Len(c.file)
    <3>1. Receiving(sized)
      BY <2>5 DEF After
    <3>2. Receiving(c)
      BY <2>7, <2>8, <3>1 DEF Receiving
    <3>3. c.file = w.file /\ c.single.resumeLeft = w.single.resumeLeft
      BY <2>3, <2>5, <2>8
    <3> QED
      BY <1>0, <2>0, <2>7, <2>8, <3>2, <3>3
  <2>10. /\ After(c, d) /\ FileOK(d.file)
         /\ d.file = c.file \/ Good(d.file)
         /\ d.single.current \in {c.single.current, p}
         /\ d.single.dest /\ ~Halted(d) =>
              /\ d.single.resumeLeft = 0 =>
                   Good(d.file) /\ p <= Len(d.file)
              /\ /\ c.single.current = Len(c.file)
                 /\ first + c.single.resumeLeft = Len(c.file)
                 => /\ d.single.current = Len(d.file)
                    /\ p + d.single.resumeLeft = Len(d.file)
    <3>1. p = first + k /\ d = Data(c, first, k, canWrite)
      OBVIOUS
    <3> HIDE DEF p, d, first
    <3> QED
      BY <1>1, <2>9, <3>1, DataFacts
  <2> HIDE DEF d
  <2>11. d \in Worlds /\ d.download \in Downloads
    BY <2>10 DEF After, Receiving, Worlds
  <2>12. /\ z \in Downloads /\ ~z.inside /\ z.handle = d.download.handle
         /\ z.state = d.download.state /\ z.stopLater = d.download.stopLater
         /\ z.current = d.download.current
    BY <2>11 DEF Downloads
  <2> HIDE DEF z
  <2>13. /\ v \in Worlds /\ v.download = z /\ v.net = d.net
         /\ v.file = d.file /\ v.line = d.line
         /\ v.single = d.single /\ v.crashed = d.crashed
    BY <2>1, <2>11, <2>12, WithDownload
  <2>14. /\ v.net = n /\ v.line.listed /\ v.line.job = v.line.listed
         /\ v.download.handle /\ v.download.current = p
         /\ v.line.state # "CREATED"
         /\ v.line.tick = "startResume" => w.line.tick = "startResume"
         /\ v.single.tries \in {w.single.tries, MAX_TRIES}
    <3> HIDE DEF p, first
    <3>1. After(inside, sized) /\ After(c, d)
      BY <2>5, <2>10
    <3>2. d.net = n /\ d.download.current = p /\ d.download.handle
      BY <2>3, <2>7, <2>8, <3>1 DEF After, Receiving
    <3>3. /\ d.line.listed = w.line.listed /\ d.line.job = w.line.job
          /\ w.line.state # "CREATED" => d.line.state # "CREATED"
          /\ d.line.tick = "startResume" => w.line.tick = "startResume"
          /\ d.single.tries \in {w.single.tries, MAX_TRIES}
      BY <2>3, <2>8, <3>1 DEF After
    <3> QED
      BY <2>0, <2>12, <2>13, <3>2, <3>3
  <2>15. ASSUME ~Halted(d)
         PROVE  /\ v.download.state = "RUNNING" /\ v.single.dest
                /\ v.line.state = "RUNNING" /\ v.line.stream = "open"
    <3>1. /\ d.download = c.download /\ d.single.dest = c.single.dest
          /\ d.line.state = c.line.state /\ d.line.stream = c.line.stream
          /\ d.crashed = c.crashed
      BY <2>10, <2>15 DEF After
    <3>2. ~Halted(sized)
      BY <2>7, <2>8, <2>15, <3>1 DEF Halted
    <3>3. /\ sized.download = x /\ sized.single.dest = w.single.dest
          /\ sized.line.state = w.line.state
          /\ sized.line.stream = w.line.stream
      BY <2>3, <2>5, <3>2 DEF After
    <3> QED
      BY <2>0, <2>2, <2>7, <2>8, <2>12, <2>13, <3>1, <3>3
  <2>16. Flow(v)
    <3> SUFFICES ASSUME Live(v) PROVE Flow(v)
      BY DEF Flow
    <3>1. ~Halted(d)
      BY <2>12, <2>13 DEF Live, Halted
    <3> QED
      BY <1>3, <2>10, <2>13, <2>14, <2>15, <3>1 DEF Flow
  <2>17. SetUp(v)
    <3>1. v.line.tick = "startResume" => v.line.listed
      BY <2>14
    <3>2. v.single.current > 0 \/ Good(v.file)
      BY <1>0, <1>1, <2>0, <2>3, <2>5, <2>8, <2>10, <2>13 DEF SetUp
    <3> QED
      BY <2>12, <2>13, <2>14, <3>1, <3>2 DEF SetUp
  <2>18. Resumes(w) => Resumes(v)
    <3> SUFFICES ASSUME Resumes(w) PROVE Resumes(v)
      OBVIOUS
    <3>1. /\ w.single.current = Len(w.file)
          /\ first + w.single.resumeLeft = Len(w.file)
          /\ w.line.tick # "startResume"
      BY <1>6, <2>0 DEF Resumes, Live, Final
    <3>2. /\ c.single.current = Len(c.file)
          /\ first + c.single.resumeLeft = Len(c.file)
      BY <2>3, <2>5, <2>8, <3>1
    <3>3. Live(v) \/ v.download.state \notin Final => ~Halted(d)
      BY <2>12, <2>13 DEF Live, Halted, Final
    <3>4. ~Halted(d) => /\ v.single.current = Len(v.file)
                        /\ p + v.single.resumeLeft = Len(v.file)
      BY <2>10, <2>13, <2>15, <3>2
    <3> QED
      BY <2>14, <3>1, <3>3, <3>4 DEF Resumes
  <2> QED
    BY <2>0, <2>10, <2>13, <2>14, <2>16, <2>17, <2>18 DEF WorldInv
<1> QED
  BY <1>5, <1>6

-----------------------------------------------------------------------------
(* The end of a transfer, and the beginning of one *)

\* What is common to the three results of a transfer, which the download has
\* noticed in a
LEMMA VerdictFacts ==
  ASSUME NEW a \in Worlds, a.net.on = "done", a.download.state \in Final,
         a.download.handle, ~a.download.inside, NEW v,
         v = JobFailed(a) \/ v = JobSucceeded(a)
  PROVE  /\ Listening(a, v) /\ v.download.state \in Final
         /\ ~v.download.inside
         /\ a.line.state # "CREATED" => v.line.state # "CREATED"
         /\ \/ v.line.tick \in {a.line.tick, "none"}
            \/ v = JobFailed(a) /\ a.single.tries < MAX_TRIES
         /\ v.net.on = "none" \/ (v.net.on = "done" /\ v.download.handle)
<1>4. CASE v = JobFailed(a)
  <2>1. /\ Listening(a, v)
        /\ v.download.inside = a.download.inside
        /\ v.download.state = a.download.state
        /\ a.line.state # "CREATED" => v.line.state # "CREATED"
        /\ v.line.tick = a.line.tick \/ a.single.tries < MAX_TRIES
        /\ (v.net = a.net /\ v.download = a.download) \/ v.net.on = "none"
    BY <1>4, JobFailedFacts
  <2> QED
    BY <1>4, <2>1
<1>5. CASE v = JobSucceeded(a)
  <2>1. /\ Listening(a, v) /\ v.net = a.net /\ v.download = a.download
        /\ v.line.tick = "none" /\ v.line.state # "CREATED"
    BY <1>5, JobSucceededFacts
  <2> QED
    BY <2>1
<1> QED
  BY <1>4, <1>5

\* What the world is when libcurl is done, and when the download knows it
Drained(w) == [w EXCEPT !.net.on = "done"]

Finished(u, result) ==
  CASE result = "OK" -> JobSucceeded([u EXCEPT !.download.state = "SUCCEEDED"])
    [] result = "PARTIAL_FILE" -> GenerateError(u, "INTERRUPTED")
    [] OTHER -> GenerateError(u, "ERROR")

LEMMA DoneFacts ==
  ASSUME NEW w, WorldInv(w), w.net.on = "active",
         NEW result \in {"OK", "PARTIAL_FILE", "error"}, NEW u, NEW v,
         u = Drained(w), v = Finished(u, result)
  PROVE  /\ WorldInv(v) /\ (Resumes(w) => Resumes(v))
         /\ w.line.state # "CREATED" => v.line.state # "CREATED"
         /\ v.line.tick = "startResume" =>
              w.line.tick = "startResume" \/ w.single.tries < MAX_TRIES
         /\ v.single.tries = w.single.tries
<1> DEFINE n == [w.net EXCEPT !.on = "done"]
<1>0. /\ w \in Worlds /\ FileOK(w.file) /\ SetUp(w)
      /\ w.net \in Transfers /\ w.download \in Downloads
  BY DEF WorldInv, Worlds
<1>1. n \in Transfers /\ n.on = "done"
  BY <1>0 DEF Transfers
<1>2. u = [w EXCEPT !.net = n]
  BY DEF Drained
<1> HIDE DEF n
<1>3. /\ u \in Worlds /\ u.net = n /\ u.file = w.file /\ u.line = w.line
      /\ u.single = w.single /\ u.download = w.download
      /\ u.crashed = w.crashed
  BY <1>0, <1>1, <1>2, WithNet
<1>4. u.net.on = "done" /\ u.download.handle /\ ~u.download.inside
  BY <1>0, <1>1, <1>3 DEF SetUp
<1>5. \/ v = u /\ w.download.state \in Final
      \/ /\ Listening(w, v) /\ v.download.state \in Final
         /\ ~v.download.inside
         /\ w.line.state # "CREATED" => v.line.state # "CREATED"
         /\ \/ v.line.tick \in {w.line.tick, "none"}
            \/ w.download.state \notin Final /\ w.single.tries < MAX_TRIES
         /\ v.net.on = "none" \/ (v.net.on = "done" /\ v.download.handle)
  <2> DEFINE State(s) == [u.download EXCEPT !.state = s]
             Marked(s) == [u EXCEPT !.download = State(s)]
  <2>0. ASSUME NEW s \in Final
        PROVE  /\ State(s) \in Downloads /\ State(s).state \in Final
               /\ State(s).handle /\ ~State(s).inside
    BY <1>0, <1>3, <1>4 DEF Downloads
  <2>1. \/ v = JobSucceeded(Marked("SUCCEEDED"))
        \/ v = u /\ w.download.state \in Final
        \/ /\ w.download.state \notin Final
           /\ \E s \in {"INTERRUPTED", "ERROR"} : v = JobFailed(Marked(s))
    <3>1. CASE result = "OK"
      BY <3>1 DEF Finished
    <3>2. CASE result = "PARTIAL_FILE"
      BY <1>3, <3>2 DEF Finished, GenerateError
    <3>3. CASE result = "error"
      BY <1>3, <3>3 DEF Finished, GenerateError
    <3> QED
      BY <3>1, <3>2, <3>3
  <2> HIDE DEF State
  <2>2. CASE v = JobSucceeded(Marked("SUCCEEDED"))
    <3> DEFINE x == State("SUCCEEDED")
               a == Marked("SUCCEEDED")
    <3>0. x \in Downloads /\ x.state \in Final /\ x.handle /\ ~x.inside
      BY <2>0 DEF Final
    <3>1. a = [u EXCEPT !.download = x] /\ v = JobSucceeded(a)
      BY <2>2
    <3> HIDE DEF x, a
    <3>4. /\ a \in Worlds /\ a.download = x /\ a.file = u.file
          /\ a.line = u.line /\ a.single = u.single /\ a.net = u.net
      <4>1. u \in Worlds /\ x \in Downloads /\ a = [u EXCEPT !.download = x]
        BY <1>3, <3>0, <3>1
      <4> QED
        BY <4>1 DEF Worlds
    <3>2. v.line.tick = "none"
      BY <3>1, <3>4, JobSucceededFacts
    <3>3. /\ Listening(a, v) /\ v.download.state \in Final
          /\ ~v.download.inside
          /\ a.line.state # "CREATED" => v.line.state # "CREATED"
          /\ v.net.on = "none" \/ (v.net.on = "done" /\ v.download.handle)
      <4>1. a.net.on = "done" /\ a.download.state \in Final
        BY <1>4, <3>0, <3>4
      <4>2. a.download.handle /\ ~a.download.inside
        BY <3>0, <3>4
      <4>3. a \in Worlds /\ (v = JobFailed(a) \/ v = JobSucceeded(a))
        BY <3>1, <3>4
      <4> QED
        BY <4>1, <4>2, <4>3, VerdictFacts
    <3> QED
      BY <1>3, <3>2, <3>3, <3>4 DEF Listening
  <2>3. ASSUME NEW s \in {"INTERRUPTED", "ERROR"}, v = JobFailed(Marked(s)),
               w.download.state \notin Final
        PROVE  <1>5!2
    <3> DEFINE x == State(s)
               a == Marked(s)
    <3>0. x \in Downloads /\ x.state \in Final /\ x.handle /\ ~x.inside
      BY <2>0 DEF Final
    <3>1. a = [u EXCEPT !.download = x] /\ v = JobFailed(a)
      BY <2>3
    <3> HIDE DEF x, a
    <3>4. /\ a \in Worlds /\ a.download = x /\ a.file = u.file
          /\ a.line = u.line /\ a.single = u.single /\ a.net = u.net
      <4>1. u \in Worlds /\ x \in Downloads /\ a = [u EXCEPT !.download = x]
        BY <1>3, <3>0, <3>1
      <4> QED
        BY <4>1 DEF Worlds
    <3>2. /\ Listening(a, v) /\ v.download.state \in Final
          /\ ~v.download.inside
          /\ a.line.state # "CREATED" => v.line.state # "CREATED"
          /\ \/ v.line.tick \in {a.line.tick, "none"}
             \/ a.single.tries < MAX_TRIES
          /\ v.net.on = "none" \/ (v.net.on = "done" /\ v.download.handle)
      <4>1. a.net.on = "done" /\ a.download.state \in Final
        BY <1>4, <3>0, <3>4
      <4>2. a.download.handle /\ ~a.download.inside
        BY <3>0, <3>4
      <4>3. a \in Worlds /\ (v = JobFailed(a) \/ v = JobSucceeded(a))
        BY <3>1, <3>4
      <4> QED
        BY <4>1, <4>2, <4>3, VerdictFacts
    <3> QED
      BY <1>3, <2>3, <3>2, <3>4 DEF Listening
  <2> QED
    BY <2>1, <2>2, <2>3
<1>6. CASE v = u /\ w.download.state \in Final
  BY <1>0, <1>1, <1>3, <1>6 DEF WorldInv, SetUp, Flow, Live, Resumes
<1>7. CASE v # u
  <2>1. WorldInv(v)
    BY <1>0, <1>5, <1>7 DEF WorldInv, SetUp, Flow, Live, Listening
  <2>2. Resumes(w) => Resumes(v)
    BY <1>0, <1>5, <1>7 DEF SetUp, Live, Listening, Resumes
  <2> QED
    BY <1>5, <1>7, <2>1, <2>2 DEF Listening
<1>8. v = u => w.download.state \in Final
  BY <1>3, <1>5
<1> QED
  BY <1>6, <1>7, <1>8

LEMMA SingleUrlRunFacts ==
  ASSUME GtkSingleUrlAssumption, NEW w \in Worlds, NEW offset \in Nat,
         NEW sized \in BOOLEAN, NEW v, v = SingleUrlRun(w, offset, sized)
  PROVE  /\ v \in Worlds /\ v.file = w.file /\ v.line = w.line
         /\ v.crashed = w.crashed
         /\ v.single.dest /\ v.single.current = offset
         /\ v.single.tries = w.single.tries + 1
         /\ v.single.resumeLeft = Smaller(offset, RESUME_SIZE)
         /\ v.download.handle /\ v.download.state = "RUNNING"
         /\ v.download.current = offset - v.single.resumeLeft
         /\ v.download.stopLater = w.download.stopLater
         /\ v.download.inside = w.download.inside
         /\ \/ /\ w.net.on # "active" /\ v.net.on = "active"
               /\ v.net.pos = v.download.current
            \/ v.net = w.net /\ w.net.on # "none"
<1> DEFINE left == Smaller(offset, RESUME_SIZE)
           from == offset - left
           tries == w.single.tries + 1
           y == [w.single EXCEPT !.resumeLeft = left, !.current = offset,
                                 !.dest = TRUE, !.size = DestEnd,
                                 !.tries = tries]
           x == [w.download EXCEPT !.offset = from]
           a == [w EXCEPT !.single = y]
           b == [a EXCEPT !.download = x]
<1>1. w.single \in Singles /\ w.download \in Downloads
  BY DEF Worlds
<1>2. /\ left \in Nat /\ from \in Nat /\ tries \in Nat /\ DestEnd \in Nat
  BY <1>1 DEF Smaller, GtkSingleUrlAssumption, Singles
<1>3. v = DownloadRun(b, sized)
  <2> DEFINE s == [w EXCEPT !.single = [w.single EXCEPT !.resumeLeft = left,
                                                        !.current = offset],
                            !.download = x]
             t == [s EXCEPT !.single = [s.single EXCEPT !.dest = TRUE,
                              !.size = DestEnd, !.tries = s.single.tries + 1]]
  <2>1. SetResumeOffset(w, offset) = s
    BY DEF SetResumeOffset
  <2>2. v = DownloadRun(t, sized)
    BY <2>1 DEF SingleUrlRun
  <2>3. t = b
    <3> HIDE DEF left, from, x
    <3>1. s.single = [w.single EXCEPT !.resumeLeft = left, !.current = offset]
      BY DEF Worlds
    <3>2. s.single.tries = w.single.tries
      BY <1>1, <3>1 DEF Singles
    <3>3. [s.single EXCEPT !.dest = TRUE, !.size = DestEnd, !.tries = tries] = y
      BY <1>1, <3>1 DEF Singles
    <3>4. t = [s EXCEPT !.single = y]
      BY <3>2, <3>3
    <3> HIDE DEF y
    <3> QED
      BY <3>4 DEF Worlds
  <2> QED
    BY <2>2, <2>3
<1> HIDE DEF left, from, tries
<1>4. /\ y \in Singles /\ y.resumeLeft = left /\ y.current = offset
      /\ y.dest /\ y.tries = tries
  BY <1>1, <1>2 DEF Singles
<1>5. /\ x \in Downloads /\ x.offset = from
      /\ x.stopLater = w.download.stopLater /\ x.inside = w.download.inside
  BY <1>1, <1>2 DEF Downloads
<1> HIDE DEF x, y
<1>6. /\ a \in Worlds /\ a.single = y /\ a.file = w.file /\ a.line = w.line
      /\ a.download = w.download /\ a.net = w.net /\ a.crashed = w.crashed
  BY <1>4, WithSingle
<1> HIDE DEF a
<1>7. /\ b \in Worlds /\ b.download = x /\ b.file = a.file /\ b.line = a.line
      /\ b.single = a.single /\ b.net = a.net /\ b.crashed = a.crashed
  BY <1>5, <1>6, WithDownload
<1> HIDE DEF b
<1>8. /\ v \in Worlds /\ Beside(b, v)
      /\ v.download.handle /\ v.download.state = "RUNNING"
      /\ v.download.current = b.download.offset
      /\ v.download.stopLater = b.download.stopLater
      /\ v.download.inside = b.download.inside
      /\ \/ /\ b.net.on # "active" /\ v.net.on = "active"
            /\ v.net.pos = b.download.offset
         \/ v.net = b.net /\ b.net.on # "none"
  BY <1>3, <1>7, DownloadRunFacts
<1>9. from = offset - left /\ tries = w.single.tries + 1
  BY DEF from, tries
<1> QED
  BY <1>4, <1>5, <1>6, <1>7, <1>8, <1>9 DEF Beside, left

-----------------------------------------------------------------------------
(* The destination is opened *)

\* The fields of a line, one or several of them changed
Opened(x) ==
  [x EXCEPT !.stream = "open", !.state = "RUNNING", !.job = TRUE,
            !.listed = TRUE]

LEMMA NewTryFacts ==
  ASSUME NEW w \in Worlds, NEW v, v = NewTry(w)
  PROVE  /\ v \in Worlds /\ v.file = w.file /\ v.line = w.line
         /\ v.single = w.single /\ v.download = w.download /\ v.net = w.net
         /\ v.crashed = w.crashed
<1>1. v = [w EXCEPT !.told = "nothing", !.late = FALSE]
  BY DEF NewTry
<1> QED
  BY <1>1 DEF Worlds

LEMMA OpenedFacts ==
  ASSUME NEW x \in Lines, NEW y, y = Opened(x)
  PROVE  /\ y \in Lines /\ y.stream = "open" /\ y.state = "RUNNING"
         /\ y.job /\ y.listed /\ y.tick = x.tick
BY DEF Opened, Lines

\* A world that is right as soon as the line runs
Nearly(w) ==
  /\ w \in Worlds /\ FileOK(w.file) /\ SetUp(w)
  /\ Live(w) =>
       /\ w.download.state = "RUNNING"
       /\ w.line.stream = "open" /\ w.single.dest
       /\ w.download.current = w.net.pos
       /\ w.single.resumeLeft = 0 =>
            Good(w.file) /\ w.download.current <= Len(w.file)

LEMMA NearlyFacts ==
  ASSUME NEW w
  PROVE  /\ WorldInv(w) => Nearly(w)
         /\ Nearly(w) /\ (w.line.state = "RUNNING" \/ ~Live(w)) => WorldInv(w)
BY DEF WorldInv, Flow, Nearly

LEMMA RunsFacts ==
  ASSUME NEW w, Nearly(w), NEW v, v = [w EXCEPT !.line.state = "RUNNING"]
  PROVE  /\ WorldInv(v) /\ (Resumes(w) => Resumes(v))
         /\ v.line.tick = w.line.tick /\ v.line.state = "RUNNING"
         /\ v.single = w.single
<1> DEFINE x == [w.line EXCEPT !.state = "RUNNING"]
<1>1. w \in Worlds /\ w.line \in Lines
  BY DEF Nearly, Worlds
<1>2. v = [w EXCEPT !.line = x]
  BY <1>1 DEF Worlds
<1>3. /\ x \in Lines /\ x.state = "RUNNING" /\ x.stream = w.line.stream
      /\ x.tick = w.line.tick /\ x.listed = w.line.listed
      /\ x.job = w.line.job
  BY <1>1 DEF Lines
<1> HIDE DEF x
<1>9. w \in Worlds /\ x \in Lines
  BY <1>1, <1>3
<1>4. /\ v \in Worlds /\ v.line = x /\ v.file = w.file
      /\ v.single = w.single /\ v.download = w.download /\ v.net = w.net
      /\ v.crashed = w.crashed
  BY <1>2, <1>9 DEF Worlds
<1>5. FileOK(v.file) /\ SetUp(v)
  BY <1>3, <1>4 DEF Nearly, SetUp
<1>6. Live(v) = Live(w)
  BY <1>4 DEF Live
<1>7. Flow(v)
  BY <1>3, <1>4, <1>6 DEF Nearly, Flow
<1>8. Resumes(w) => Resumes(v)
  BY <1>3, <1>4, <1>6 DEF Resumes
<1> QED
  BY <1>3, <1>4, <1>5, <1>7, <1>8 DEF WorldInv

\* A transfer is set up, and none is going on.
LEMMA StartFacts ==
  ASSUME GtkSingleUrlAssumption, NEW w \in Worlds, FileOK(w.file),
         ~w.download.inside, ~Live(w), NEW offset \in Nat,
         offset > 0 \/ Good(w.file), NEW sized \in BOOLEAN,
         w.line.stream = "open", w.line.job, w.line.listed,
         NEW v, v = SingleUrlRun(w, offset, sized)
  PROVE  /\ Nearly(v) /\ v.line = w.line
         /\ v.single.tries = w.single.tries + 1
         /\ w.line.tick # "startResume" /\ offset = Len(w.file) => Resumes(v)
<1>1. /\ v \in Worlds /\ v.file = w.file /\ v.line = w.line
      /\ v.crashed = w.crashed
      /\ v.single.dest /\ v.single.current = offset
      /\ v.single.tries = w.single.tries + 1
      /\ v.single.resumeLeft = Smaller(offset, RESUME_SIZE)
      /\ v.download.handle /\ v.download.state = "RUNNING"
      /\ v.download.current = offset - v.single.resumeLeft
      /\ v.download.stopLater = w.download.stopLater
      /\ v.download.inside = w.download.inside
      /\ \/ /\ w.net.on # "active" /\ v.net.on = "active"
            /\ v.net.pos = v.download.current
         \/ v.net = w.net /\ w.net.on # "none"
  BY SingleUrlRunFacts
<1>2. Len(w.file) \in Nat
  BY LenProperties DEF Worlds
<1>3. /\ v.single.resumeLeft \in Nat
      /\ v.single.resumeLeft = 0 => offset = 0
      /\ v.download.current + v.single.resumeLeft = offset
  BY <1>1 DEF GtkSingleUrlAssumption, Smaller
<1>4. SetUp(v)
  <2>1. v.line.job = TRUE /\ v.line.listed = TRUE
    BY <1>1 DEF Worlds, Lines
  <2>2. ~v.download.inside
    BY <1>1
  <2>3. v.single.current > 0 \/ Good(v.file)
    BY <1>1
  <2>4. v.download.handle
    BY <1>1
  <2> QED
    BY <2>1, <2>2, <2>3, <2>4 DEF SetUp
<1>5. Live(v) => v.net.pos = v.download.current
  BY <1>1 DEF Live
<1>6. Nearly(v)
  <2>1. v \in Worlds /\ FileOK(v.file)
    BY <1>1
  <2>2. /\ v.download.state = "RUNNING"
        /\ v.line.stream = "open" /\ v.single.dest
    BY <1>1
  <2>3. v.single.resumeLeft = 0 =>
          Good(v.file) /\ v.download.current <= Len(v.file)
    BY <1>1, <1>2, <1>3
  <2> QED
    BY <1>4, <1>5, <2>1, <2>2, <2>3 DEF Nearly
<1>7. ASSUME w.line.tick # "startResume", offset = Len(w.file)
      PROVE  Resumes(v)
  BY <1>1, <1>3, <1>7 DEF Resumes
<1> QED
  BY <1>1, <1>6, <1>7

\* Only the line is another one, and no transfer goes on.
LEMMA QuietFacts ==
  ASSUME NEW w \in Worlds, FileOK(w.file), SetUp(w), ~Live(w),
         NEW v, Listening(w, v), v.download = w.download, v.net = w.net,
         v.crashed = w.crashed \/ v.crashed # "no",
         v.line.tick = w.line.tick
  PROVE  WorldInv(v) /\ ~Live(v) /\ (Resumes(w) => Resumes(v))
<1>1. ~Live(v)
  BY DEF Live
<1>2. SetUp(v)
  BY DEF SetUp, Listening
<1>3. Resumes(w) => Resumes(v)
  BY <1>1 DEF Resumes, Listening
<1> QED
  BY <1>1, <1>2, <1>3 DEF WorldInv, Flow, Listening

\* What the JobLine knows after it has opened the destination, or failed to
Restarted(w, v) ==
  /\ Nearly(v) /\ (w.line.state = "RUNNING" => WorldInv(v))
  /\ v.line.tick = w.line.tick
  /\ v.line.state = "CREATED" => w.line.state = "CREATED"
  /\ v.single.tries = w.single.tries \/ v.single.tries = w.single.tries + 1

LEMMA CrashRestarts ==
  ASSUME NEW w \in Worlds, FileOK(w.file), SetUp(w), ~Live(w),
         NEW why \in {"null", "listed twice"}, NEW v, v = Crash(w, why)
  PROVE  Restarted(w, v) /\ ~Live(v) /\ (Resumes(w) => Resumes(v))
<1>1. /\ v \in Worlds /\ v.file = w.file /\ v.line = w.line
      /\ v.single = w.single /\ v.download = w.download /\ v.net = w.net
      /\ v.crashed # "no"
  BY CrashFacts
<1>2. WorldInv(v) /\ (Resumes(w) => Resumes(v))
  BY <1>1, QuietFacts DEF Listening
<1>3. Nearly(v)
  BY <1>2, NearlyFacts
<1> QED
  BY <1>1, <1>2, <1>3 DEF Restarted, Live

LEMMA ResumeFromFacts ==
  ASSUME GtkSingleUrlAssumption, NEW w \in Worlds, FileOK(w.file), SetUp(w),
         ~Live(w), NEW offset \in Nat, offset > 0 \/ Good(w.file),
         NEW canOpen \in BOOLEAN, NEW sized \in BOOLEAN,
         NEW v, v = ResumeFrom(w, offset, canOpen, sized)
  PROVE  /\ Restarted(w, v) /\ WorldInv(v)
         /\ (/\ Resumes(w) /\ offset = Len(w.file)
             /\ w.line.tick # "startResume") => Resumes(v)
<1>1. CASE ~canOpen /\ ~w.line.job
  <2>1. v = Crash(w, "null")
    BY <1>1 DEF ResumeFrom, FailedPermanently
  <2>2. Restarted(w, v) /\ ~Live(v) /\ (Resumes(w) => Resumes(v))
    BY <2>1, CrashRestarts
  <2> QED
    BY <2>2, NearlyFacts DEF Restarted
<1>2. CASE ~canOpen /\ w.line.job
  <2> DEFINE a == Closed(w)
             x == [a.line EXCEPT !.state = "ERROR"]
  <2>1. v = [a EXCEPT !.line = x]
    BY <1>2 DEF ResumeFrom, FailedPermanently
  <2>2. /\ Listening(w, a) /\ a.line.tick = w.line.tick
        /\ a.download = w.download /\ a.net = w.net /\ a.crashed = w.crashed
        /\ a.line \in Lines
    BY ClosedFacts, ClosedListens
  <2> HIDE DEF a
  <2>3. /\ x \in Lines /\ x.state = "ERROR" /\ x.tick = a.line.tick
        /\ x.listed = a.line.listed /\ x.job = a.line.job
    BY <2>2 DEF Lines
  <2> HIDE DEF x
  <2>4. /\ v \in Worlds /\ v.line = x /\ v.file = a.file
        /\ v.single = a.single /\ v.download = a.download /\ v.net = a.net
        /\ v.crashed = a.crashed
    BY <2>1, <2>2, <2>3, WithLine DEF Listening
  <2>5. Listening(w, v)
    BY <2>2, <2>3, <2>4 DEF Listening
  <2>6. WorldInv(v) /\ (Resumes(w) => Resumes(v))
    BY <2>2, <2>3, <2>4, <2>5, QuietFacts
  <2> QED
    BY <2>2, <2>3, <2>4, <2>5, <2>6, NearlyFacts DEF Restarted, Listening
<1>3. CASE canOpen
  <2> DEFINE a == NewTry(w)
             x == Opened(a.line)
             b == [a EXCEPT !.line = x]
  <2>1. v = SingleUrlRun(b, offset, sized)
    BY <1>3 DEF ResumeFrom, Opened
  <2>2. /\ a \in Worlds /\ a.file = w.file /\ a.line = w.line
        /\ a.single = w.single /\ a.download = w.download /\ a.net = w.net
        /\ a.crashed = w.crashed /\ a.line \in Lines
    BY NewTryFacts DEF Worlds
  <2> HIDE DEF a
  <2>3. /\ x \in Lines /\ x.stream = "open" /\ x.state = "RUNNING"
        /\ x.job /\ x.listed /\ x.tick = w.line.tick
    BY <2>2, OpenedFacts
  <2> HIDE DEF x
  <2>4. /\ b \in Worlds /\ b.line = x /\ b.file = w.file
        /\ b.single = w.single /\ b.download = w.download /\ b.net = w.net
        /\ b.crashed = w.crashed
    BY <2>2, <2>3, WithLine
  <2> HIDE DEF b
  <2>5. /\ FileOK(b.file) /\ ~b.download.inside /\ ~Live(b)
        /\ offset > 0 \/ Good(b.file)
    BY <2>4 DEF SetUp, Live
  <2>6. b.line.stream = "open" /\ b.line.job /\ b.line.listed
    BY <2>3, <2>4
  <2>7. /\ Nearly(v) /\ v.line = b.line
        /\ v.single.tries = b.single.tries + 1
        /\ b.line.tick # "startResume" /\ offset = Len(b.file) => Resumes(v)
    BY <2>1, <2>4, <2>5, <2>6, StartFacts
  <2> QED
    BY <2>3, <2>4, <2>7, NearlyFacts DEF Restarted
<1> QED
  BY <1>1, <1>2, <1>3

LEMMA OpenOutputAndRunFacts ==
  ASSUME GtkSingleUrlAssumption, NEW w \in Worlds, FileOK(w.file), SetUp(w),
         ~Live(w), NEW canOpen \in BOOLEAN, NEW sized \in BOOLEAN,
         NEW v, v = OpenOutputAndRun(w, canOpen, sized)
  PROVE  Restarted(w, v) /\ (Resumes(w) => Resumes(v))
<1>1. CASE ~canOpen
  <2> DEFINE x == [w.line EXCEPT !.stream = "bad", !.state = "ERROR"]
  <2>1. v = [w EXCEPT !.line = x]
    BY <1>1 DEF OpenOutputAndRun, Worlds
  <2>2. /\ x \in Lines /\ x.state = "ERROR" /\ x.tick = w.line.tick
        /\ x.listed = w.line.listed /\ x.job = w.line.job
    BY DEF Lines, Worlds
  <2> HIDE DEF x
  <2>3. /\ v \in Worlds /\ v.line = x /\ v.file = w.file
        /\ v.single = w.single /\ v.download = w.download /\ v.net = w.net
        /\ v.crashed = w.crashed
    BY <2>1, <2>2, WithLine
  <2>4. WorldInv(v) /\ (Resumes(w) => Resumes(v))
    BY <2>2, <2>3, QuietFacts DEF Listening
  <2> QED
    BY <2>2, <2>3, <2>4, NearlyFacts DEF Restarted
<1>2. CASE canOpen /\ w.line.listed
  <2>1. v = Crash(w, "listed twice")
    BY <1>2 DEF OpenOutputAndRun
  <2> QED
    BY <2>1, CrashRestarts
<1>3. CASE canOpen /\ ~w.line.listed
  <2> DEFINE a == NewTry(w)
             x == [a.line EXCEPT !.stream = "open", !.job = TRUE,
                                 !.listed = TRUE]
             e == [a EXCEPT !.file = << >>]
             b == [e EXCEPT !.line = x]
  <2>0. /\ a \in Worlds /\ a.line = w.line
        /\ a.single = w.single /\ a.download = w.download /\ a.net = w.net
        /\ a.crashed = w.crashed /\ a.line \in Lines
    BY NewTryFacts DEF Worlds
  <2>1. v = SingleUrlRun(b, 0, sized)
    <3> DEFINE f == [a EXCEPT !.file = << >>, !.line.stream = "open",
                              !.line.job = TRUE, !.line.listed = TRUE]
    <3>1. v = SingleUrlRun(f, 0, sized)
      BY <1>3 DEF OpenOutputAndRun
    <3> HIDE DEF a
    <3>2. f = b
      BY <2>0 DEF Worlds
    <3> QED
      BY <3>1, <3>2
  <2> HIDE DEF a
  <2>2. /\ x \in Lines /\ x.stream = "open" /\ x.job /\ x.listed
        /\ x.tick = w.line.tick /\ x.state = w.line.state
    BY <2>0 DEF Lines
  <2> HIDE DEF x
  <2>3. << >> \in Seq(Nat) /\ Len(<< >>) = 0
    OBVIOUS
  <2>4. /\ e \in Worlds /\ e.file = << >> /\ e.line = a.line
        /\ e.single = w.single /\ e.download = w.download /\ e.net = w.net
        /\ e.crashed = w.crashed
    BY <2>0, <2>3 DEF Worlds
  <2> HIDE DEF e
  <2>5. /\ b \in Worlds /\ b.line = x /\ b.file = << >>
        /\ b.single = w.single /\ b.download = w.download /\ b.net = w.net
        /\ b.crashed = w.crashed
    BY <2>2, <2>4, WithLine
  <2> HIDE DEF b
  <2>6. Good(b.file) /\ FileOK(b.file)
    <3>1. Good(b.file)
      BY <2>3, <2>5 DEF Good
    <3>2. DestEnd \in Nat /\ Len(b.file) = 0
      BY <2>3, <2>5 DEF GtkSingleUrlAssumption
    <3> QED
      BY <3>1, <3>2 DEF FileOK
  <2>7. ~b.download.inside /\ ~Live(b)
    BY <2>5 DEF SetUp, Live
  <2>8. b.line.stream = "open" /\ b.line.job /\ b.line.listed
    BY <2>2, <2>5
  <2>9. /\ Nearly(v) /\ v.line = b.line
        /\ v.single.tries = b.single.tries + 1
        /\ b.line.tick # "startResume" /\ 0 = Len(b.file) => Resumes(v)
    BY <2>1, <2>5, <2>6, <2>7, <2>8, StartFacts
  <2>10. w.line.tick # "startResume"
    BY <1>3 DEF SetUp
  <2> QED
    BY <2>2, <2>3, <2>5, <2>9, <2>10, NearlyFacts DEF Restarted
<1> QED
  BY <1>1, <1>2, <1>3
-----------------------------------------------------------------------------
(* The steps *)

LEMMA BecomesFacts ==
  ASSUME NEW v \in Worlds, Becomes(v)
  PROVE  World' = v
BY DEF Becomes, World, Worlds

LEMMA InvFacts ==
  ASSUME Inv
  PROVE  /\ World \in Worlds /\ FileOK(file) /\ SetUp(World) /\ Flow(World)
         /\ World.file = file /\ World.line = line /\ World.single = single
         /\ World.download = download /\ World.net = net
         /\ World.crashed = crashed
         /\ clicks \in Nat /\ TriesOK(World, clicks) /\ WorldInv(World)
         /\ "Early" \notin Buttons \/ clicks = 0 => Resumes(World)
         /\ line \in Lines /\ single \in Singles /\ download \in Downloads
         /\ net \in Transfers /\ file \in Seq(Nat) /\ Len(file) \in Nat
<1>1. World \in Worlds /\ FileOK(World.file) /\ SetUp(World) /\ Flow(World)
  BY DEF Inv, AllInv, WorldInv
<1>2. /\ World.file = file /\ World.line = line /\ World.single = single
      /\ World.download = download /\ World.net = net
      /\ World.crashed = crashed
  BY DEF World
<1>3. /\ World.line \in Lines /\ World.single \in Singles
      /\ World.download \in Downloads /\ World.net \in Transfers
      /\ World.file \in Seq(Nat)
  BY <1>1 DEF Worlds
<1>4. Len(file) \in Nat
  BY <1>2, <1>3, LenProperties
<1>5. /\ clicks \in Nat /\ TriesOK(World, clicks) /\ WorldInv(World)
      /\ "Early" \notin Buttons \/ clicks = 0 => Resumes(World)
  BY DEF Inv, AllInv
<1> QED
  BY <1>1, <1>2, <1>3, <1>4, <1>5

LEMMA InitInv ==
  ASSUME GtkSingleUrlAssumption, Init
  PROVE  Inv
<1>1. file \in Seq(Nat) /\ FileOK(file)
  <2>1. CASE file = << >>
    <3>1. << >> \in Seq(Nat) /\ Len(<< >>) = 0
      OBVIOUS
    <3> QED
      BY <2>1, <3>1 DEF FileOK, Good, GtkSingleUrlAssumption
  <2>2. ASSUME NEW n \in OldFiles, file = [i \in 1..n |-> 0]
        PROVE  file \in Seq(Nat) /\ FileOK(file)
    <3>1. n \in Nat
      BY DEF GtkSingleUrlAssumption
    <3>2. file \in Seq(Nat)
      BY <2>2, <3>1
    <3>3. Len(file) = n /\ \A i \in 1..n : file[i] = 0
      BY <2>2, <3>1
    <3> QED
      BY <3>2, <3>3 DEF FileOK, Old
  <2> QED
    BY <2>1, <2>2 DEF Init
<1>2. /\ line \in Lines /\ single \in Singles /\ download \in Downloads
      /\ net \in Transfers
  BY DEF Init, Lines, Singles, Downloads, Transfers, NoSingleUrl, NoDownload,
         NoTransfer, Final
<1>3. World \in Worlds
  BY <1>1, <1>2 DEF Init, World, Worlds
<1>4. /\ World.file = file /\ World.line = line /\ World.single = single
      /\ World.download = download /\ World.net = net
  BY DEF World
<1>5. SetUp(World)
  BY <1>4 DEF SetUp, Init, NoDownload, NoTransfer
<1>6. ~Live(World)
  BY <1>4 DEF Live, Init, NoTransfer
<1>7. WorldInv(World)
  BY <1>1, <1>3, <1>4, <1>5, <1>6 DEF WorldInv, Flow
<1>8. Resumes(World)
  BY <1>4, <1>6 DEF Resumes, Init
<1>9. TriesOK(World, clicks) /\ clicks \in Nat
  BY <1>4 DEF TriesOK, Init, NoSingleUrl, GtkSingleUrlAssumption
<1> QED
  BY <1>7, <1>8, <1>9 DEF Inv, AllInv

LEMMA ChunkInv ==
  ASSUME GtkSingleUrlAssumption, Inv, NEW k \in 1..N, Chunk(k)
  PROVE  Inv'
<1>1. PICK canWrite \in BOOLEAN : Becomes(CurlWriter(World, k, canWrite))
  BY DEF Chunk
<1> DEFINE v == CurlWriter(World, k, canWrite)
<1>2. World.crashed = "no" /\ World.net.on = "active" /\ clicks' = clicks
  BY InvFacts DEF Chunk
<1>3. k \in Nat \ {0} /\ WorldInv(World)
  BY InvFacts DEF GtkSingleUrlAssumption
<1>4. /\ WorldInv(v) /\ (Resumes(World) => Resumes(v))
      /\ World.line.state # "CREATED" => v.line.state # "CREATED"
      /\ v.line.tick = "startResume" => World.line.tick = "startResume"
      /\ v.single.tries \in {World.single.tries, MAX_TRIES}
  BY <1>2, <1>3, CurlWriterFacts
<1>5. World' = v
  <2>1. v \in Worlds
    BY <1>4 DEF WorldInv
  <2> HIDE DEF v
  <2>2. Becomes(v)
    BY <1>1 DEF v
  <2> QED
    BY <2>1, <2>2, BecomesFacts
<1> HIDE DEF v
<1>6. World.line.state # "CREATED"
  BY <1>2, InvFacts DEF SetUp, TriesOK
<1>7. clicks = 0 => World.line.tick # "startResume"
  BY <1>2, InvFacts DEF Resumes
<1>8. TriesOK(v, clicks)
  BY <1>4, <1>6, <1>7, InvFacts DEF TriesOK, GtkSingleUrlAssumption
<1>9. AllInv(v, clicks)
  BY <1>4, <1>8, InvFacts DEF AllInv
<1> QED
  BY <1>2, <1>5, <1>9 DEF Inv

LEMMA PerformReturnsInv ==
  ASSUME Inv, PerformReturns \/ UNCHANGED vars
  PROVE  Inv'
<1>1. World' = World /\ clicks' = clicks
  BY DEF PerformReturns, vars, World
<1> QED
  BY <1>1 DEF Inv

LEMMA DoneInv ==
  ASSUME GtkSingleUrlAssumption, Inv, NEW result \in Results, Done(result)
  PROVE  Inv'
<1> DEFINE u == Drained(World)
           v == Finished(u, result)
<1>1. World.crashed = "no" /\ World.net.on = "active" /\ clicks' = clicks
  BY InvFacts DEF Done
<1>2. Becomes(v)
  BY DEF Done, Drained, Finished
<1>3. result \in {"OK", "PARTIAL_FILE", "error"}
  BY DEF Results
<1>4. /\ WorldInv(v) /\ (Resumes(World) => Resumes(v))
      /\ World.line.state # "CREATED" => v.line.state # "CREATED"
      /\ v.line.tick = "startResume" =>
           World.line.tick = "startResume" \/ World.single.tries < MAX_TRIES
      /\ v.single.tries = World.single.tries
  BY <1>1, <1>3, InvFacts, DoneFacts
<1> HIDE DEF v
<1>5. World' = v
  BY <1>2, <1>4, BecomesFacts DEF WorldInv
<1>6. World.line.state # "CREATED"
  BY <1>1, InvFacts DEF SetUp, TriesOK
<1>7. clicks = 0 => World.line.tick # "startResume"
  BY <1>1, InvFacts DEF Resumes
<1>8. TriesOK(v, clicks)
  BY <1>4, <1>6, <1>7, InvFacts DEF TriesOK
<1>9. AllInv(v, clicks)
  BY <1>4, <1>8, InvFacts DEF AllInv
<1> QED
  BY <1>1, <1>5, <1>9 DEF Inv

LEMMA StopLaterCallbackInv ==
  ASSUME Inv, StopLaterCallback
  PROVE  Inv'
<1> DEFINE w == World
           v == StopLater(World)
<1>1. Becomes(v) /\ clicks' = clicks
  BY DEF StopLaterCallback
<1>2. w \in Worlds /\ SetUp(w) /\ FileOK(w.file)
  BY InvFacts
<1>3. /\ v \in Worlds /\ v.file = w.file /\ v.line = w.line
      /\ v.single = w.single /\ v.crashed = w.crashed
      /\ v.download.inside = w.download.inside
      /\ v.download.state = w.download.state
      /\ (v.net = w.net /\ ~w.download.handle) \/ v.net.on = "none"
  BY <1>2, StopLaterFacts DEF Beside
<1> HIDE DEF v
<1>4. World' = v
  BY <1>1, <1>3, BecomesFacts
<1>5. v.net.on = "none"
  BY <1>2, <1>3 DEF SetUp
<1>6. ~Live(v)
  BY <1>5 DEF Live
<1>7. WorldInv(v)
  BY <1>2, <1>3, <1>5, <1>6 DEF WorldInv, SetUp, Flow
<1>8. Resumes(w) => Resumes(v)
  BY <1>3, <1>5, <1>6 DEF Resumes
<1>9. TriesOK(v, clicks)
  BY <1>3, InvFacts DEF TriesOK
<1>10. AllInv(v, clicks)
  BY <1>7, <1>8, <1>9, InvFacts DEF AllInv
<1> QED
  BY <1>1, <1>4, <1>10 DEF Inv

\* A world whose line is another one in what no property depends on
LEMMA LineFacts ==
  ASSUME NEW w \in Worlds, FileOK(w.file), SetUp(w), ~Live(w),
         NEW x \in Lines, x.listed = w.line.listed, x.job = w.line.job,
         x.tick \in {w.line.tick, "none"}, NEW v, v = [w EXCEPT !.line = x]
  PROVE  /\ v \in Worlds /\ FileOK(v.file) /\ SetUp(v) /\ ~Live(v)
         /\ Resumes(w) => Resumes(v)
         /\ v.line = x /\ v.single = w.single /\ v.file = w.file
         /\ v.download = w.download /\ v.net = w.net /\ v.crashed = w.crashed
<1>1. /\ v \in Worlds /\ v.line = x /\ v.file = w.file
      /\ v.single = w.single /\ v.download = w.download /\ v.net = w.net
      /\ v.crashed = w.crashed
  BY DEF Worlds
<1>2. SetUp(v) /\ ~Live(v)
  BY <1>1 DEF SetUp, Live
<1>3. Resumes(w) => Resumes(v)
  BY <1>1, <1>2 DEF Resumes
<1> QED
  BY <1>1, <1>2, <1>3

LEMMA StartResumeInv ==
  ASSUME GtkSingleUrlAssumption, Inv, StartResume
  PROVE  Inv'
<1> DEFINE x == [line EXCEPT !.tick = "none"]
           w == [World EXCEPT !.line = x]
<1>0. clicks' = clicks /\ line.tick = "startResume"
  BY DEF StartResume
<1>1. \/ line.stream # "none" /\ Becomes(Crash(w, "stream open"))
      \/ /\ line.stream = "none"
         /\ \E canOpen \in BOOLEAN, sized \in BOOLEAN :
              Becomes(ResumeFrom(w, single.current, canOpen, sized))
  <2>1. w = [World EXCEPT !.line.tick = "none"]
    BY DEF World
  <2> HIDE DEF w
  <2> QED
    BY <2>1 DEF StartResume, GtkSingleUrlAssumption
<1>2. /\ x \in Lines /\ x.listed = line.listed /\ x.job = line.job
      /\ x.tick = "none" /\ x.state = line.state
  BY InvFacts DEF Lines
<1> HIDE DEF x
<1>3. CASE line.stream # "none" /\ Becomes(Crash(w, "stream open"))
  <2> DEFINE v == Crash(w, "stream open")
  <2>1. /\ w \in Worlds /\ w.line = x /\ w.file = file /\ w.single = single
        /\ w.download = download /\ w.net = net
    BY <1>2, InvFacts DEF Worlds
  <2>2. /\ v \in Worlds /\ v.file = file /\ v.line = x /\ v.single = single
        /\ v.download = download /\ v.net = net /\ v.crashed # "no"
    BY <2>1, CrashFacts
  <2> HIDE DEF w
  <2>3. Becomes(v)
    BY <1>3
  <2> HIDE DEF v
  <2>4. World' = v
    BY <2>2, <2>3, BecomesFacts
  <2>5. SetUp(v) /\ ~Live(v)
    BY <1>2, <2>2, InvFacts DEF SetUp, Live
  <2>6. WorldInv(v)
    BY <2>2, <2>5, InvFacts DEF WorldInv, Flow
  <2>7. Resumes(World) => Resumes(v)
    BY <1>2, <2>2, <2>5, InvFacts DEF Resumes
  <2>8. TriesOK(v, clicks)
    BY <1>2, <2>2, InvFacts DEF TriesOK
  <2>9. AllInv(v, clicks)
    BY <2>6, <2>7, <2>8, InvFacts DEF AllInv
  <2> QED
    BY <1>0, <2>4, <2>9 DEF Inv
<1>4. ASSUME line.stream = "none", NEW canOpen \in BOOLEAN,
             NEW sized \in BOOLEAN,
             Becomes(ResumeFrom(w, single.current, canOpen, sized))
      PROVE  Inv'
  <2> DEFINE v == ResumeFrom(w, single.current, canOpen, sized)
  <2>1. ~Live(World)
    BY <1>4, InvFacts DEF Flow
  <2>2. /\ w \in Worlds /\ FileOK(w.file) /\ SetUp(w) /\ ~Live(w)
        /\ Resumes(World) => Resumes(w)
        /\ w.line = x /\ w.single = single /\ w.file = file
    BY <1>2, <2>1, InvFacts, LineFacts
  <2> HIDE DEF w
  <2>3. single.current \in Nat /\ (single.current > 0 \/ Good(w.file))
    BY <1>0, <2>2, InvFacts DEF Singles, SetUp
  <2>4. /\ Restarted(w, v) /\ WorldInv(v)
        /\ (/\ Resumes(w) /\ single.current = Len(w.file)
            /\ w.line.tick # "startResume") => Resumes(v)
    BY <2>2, <2>3, ResumeFromFacts
  <2>5. Becomes(v)
    BY <1>4
  <2> HIDE DEF v
  <2>6. World' = v
    BY <2>4, <2>5, BecomesFacts DEF WorldInv
  <2>7. Resumes(World) => Resumes(v)
    BY <1>0, <1>2, <2>2, <2>4, InvFacts DEF Resumes
  <2>8. TriesOK(v, clicks)
    <3>1. /\ v.single.tries \in {single.tries, single.tries + 1}
          /\ v.line.tick = "none"
          /\ v.line.state = "CREATED" => line.state = "CREATED"
      BY <1>2, <2>2, <2>4 DEF Restarted
    <3>2. line.state # "CREATED"
      BY <1>0, InvFacts DEF TriesOK, SetUp
    <3>3. clicks = 0 => single.tries < MAX_TRIES
      BY <1>0, InvFacts DEF TriesOK
    <3>4. single.tries \in Nat /\ MAX_TRIES \in Nat
      BY InvFacts DEF Singles, GtkSingleUrlAssumption
    <3> QED
      BY <3>1, <3>2, <3>3, <3>4 DEF TriesOK
  <2>9. AllInv(v, clicks)
    BY <2>4, <2>7, <2>8, InvFacts DEF AllInv
  <2> QED
    BY <1>0, <2>6, <2>9 DEF Inv
<1> QED
  BY <1>1, <1>3, <1>4

LEMMA RunInv ==
  ASSUME GtkSingleUrlAssumption, Inv, NEW answer \in {"Overwrite", "Resume"},
         NEW canOpen \in BOOLEAN, NEW sized \in BOOLEAN,
         Run(answer, canOpen, sized)
  PROVE  Inv'
<1> DEFINE x == [line EXCEPT !.state = "RUNNING"]
           w == [World EXCEPT !.line = x]
           v == IF answer = "Resume" THEN OpenOutputAndResume(w, canOpen, sized)
                ELSE OpenOutputAndRun(w, canOpen, sized)
<1>0. /\ clicks' = clicks /\ line.state = "CREATED"
      /\ answer = "Resume" => file # << >>
  BY DEF Run
<1>1. Becomes(v)
  <2>1. w = [World EXCEPT !.line.state = "RUNNING"]
    BY DEF World
  <2> HIDE DEF w
  <2> QED
    BY <2>1 DEF Run
<1>2. /\ x \in Lines /\ x.listed = line.listed /\ x.job = line.job
      /\ x.tick = line.tick /\ x.state = "RUNNING"
  BY InvFacts DEF Lines
<1>3. ~line.listed /\ single.tries = 0
  BY <1>0, InvFacts DEF TriesOK
<1>4. net.on = "none" /\ line.tick # "startResume"
  BY <1>3, InvFacts DEF SetUp
<1>5. ~Live(World)
  BY <1>4, InvFacts DEF Live
<1> HIDE DEF x
<1>6. /\ w \in Worlds /\ FileOK(w.file) /\ SetUp(w) /\ ~Live(w)
      /\ Resumes(World) => Resumes(w)
      /\ w.line = x /\ w.single = single /\ w.file = file
  BY <1>2, <1>5, InvFacts, LineFacts
<1> HIDE DEF w
<1>7. Restarted(w, v) /\ WorldInv(v) /\ (Resumes(w) => Resumes(v))
  <2>1. CASE answer = "Resume"
    <3> DEFINE n == Len(w.file)
    <3>1. n \in Nat /\ n > 0
      BY <1>0, <1>6, <2>1, InvFacts, EmptySeq
    <3>2. v = ResumeFrom(w, n, canOpen, sized)
      BY <2>1 DEF OpenOutputAndResume
    <3> HIDE DEF n, v
    <3>3. /\ Restarted(w, v) /\ WorldInv(v)
          /\ (/\ Resumes(w) /\ n = Len(w.file)
              /\ w.line.tick # "startResume") => Resumes(v)
      BY <1>6, <3>1, <3>2, ResumeFromFacts
    <3> QED
      BY <1>2, <1>4, <1>6, <3>3 DEF n
  <2>2. CASE answer # "Resume"
    <3>1. v = OpenOutputAndRun(w, canOpen, sized)
      BY <2>2
    <3> HIDE DEF v
    <3>2. Restarted(w, v) /\ (Resumes(w) => Resumes(v))
      BY <1>6, <3>1, OpenOutputAndRunFacts
    <3> QED
      BY <1>2, <1>6, <3>2 DEF Restarted
  <2> QED
    BY <2>1, <2>2
<1> HIDE DEF v
<1>8. World' = v
  BY <1>1, <1>7, BecomesFacts DEF WorldInv
<1>9. TriesOK(v, clicks)
  <2>1. /\ v.single.tries \in {0, 1} /\ v.line.tick # "startResume"
        /\ v.line.state # "CREATED"
    BY <1>2, <1>3, <1>4, <1>6, <1>7 DEF Restarted
  <2> QED
    BY <2>1 DEF TriesOK, GtkSingleUrlAssumption
<1>10. AllInv(v, clicks)
  BY <1>6, <1>7, <1>9, InvFacts DEF AllInv
<1> QED
  BY <1>0, <1>8, <1>10 DEF Inv

LEMMA StartButtonInv ==
  ASSUME GtkSingleUrlAssumption, Inv, NEW canOpen \in BOOLEAN,
         NEW sized \in BOOLEAN, StartButton(canOpen, sized)
  PROVE  Inv'
<1> DEFINE w == World
           n == Len(w.file)
           u == ResumeFrom(w, n, canOpen, sized)
           v == IF single.current # Len(file) THEN u
                ELSE [u EXCEPT !.line.state = "RUNNING"]
<1>0. /\ clicks' = clicks + 1 /\ line.job
      /\ line.state \in {"STOPPED", "ERROR"}
      /\ line.tick = "startResume" => "Early" \in Buttons
  BY DEF StartButton, Click
<1>1. Becomes(v)
  BY DEF StartButton, OpenOutputAndResume
<1>2. /\ w \in Worlds /\ FileOK(w.file) /\ SetUp(w) /\ ~Live(w)
      /\ w.line = line /\ w.single = single
  BY <1>0, InvFacts DEF Flow
<1>3. n \in Nat /\ (n > 0 \/ Good(w.file))
  BY InvFacts DEF Good
<1>4. /\ Restarted(w, u) /\ WorldInv(u)
      /\ (/\ Resumes(w) /\ n = Len(w.file)
          /\ w.line.tick # "startResume") => Resumes(u)
  <2> HIDE DEF w, n
  <2> QED
    BY <1>2, <1>3, ResumeFromFacts
<1>5. Resumes(w) /\ line.tick # "startResume" => Resumes(u)
  BY <1>2, <1>4
<1> HIDE DEF u, n
<1>6. /\ WorldInv(v) /\ (Resumes(u) => Resumes(v))
      /\ v.single = u.single /\ v.line.tick = u.line.tick
      /\ v.line.state \in {u.line.state, "RUNNING"}
  <2>1. CASE v = u
    BY <1>4, <2>1
  <2>2. CASE v = [u EXCEPT !.line.state = "RUNNING"]
    BY <1>4, <2>2, NearlyFacts, RunsFacts
  <2> QED
    BY <2>1, <2>2
<1> HIDE DEF v
<1>7. World' = v
  BY <1>1, <1>6, BecomesFacts DEF WorldInv
<1>8. TriesOK(v, clicks + 1)
  <2>1. v.line.state # "CREATED"
    BY <1>0, <1>2, <1>4, <1>6 DEF Restarted
  <2> QED
    BY <2>1, InvFacts DEF TriesOK
<1>9. "Early" \notin Buttons => Resumes(v)
  BY <1>0, <1>5, <1>6, InvFacts
<1>10. clicks + 1 \in Nat /\ clicks + 1 # 0
  BY InvFacts
<1>11. AllInv(v, clicks + 1)
  BY <1>6, <1>8, <1>9, <1>10 DEF AllInv
<1> QED
  BY <1>0, <1>7, <1>11 DEF Inv

\* A download that is told to stop, without a destination
LEMMA StoppedFacts ==
  ASSUME NEW w, WorldInv(w), w.line.listed, NEW c \in Worlds, Listening(w, c),
         c.net = w.net, c.download = w.download, c.crashed = w.crashed,
         c.line.tick = w.line.tick, NEW v, v = DownloadStop(c)
  PROVE  /\ v \in Worlds /\ FileOK(v.file) /\ SetUp(v) /\ ~Live(v)
         /\ v.line = c.line /\ v.single = c.single
         /\ Resumes(w) => Resumes(v)
<1>1. w \in Worlds /\ FileOK(w.file) /\ SetUp(w) /\ Flow(w)
  BY DEF WorldInv
<1>2. /\ v \in Worlds /\ v.file = c.file /\ v.line = c.line
      /\ v.single = c.single /\ v.crashed = c.crashed
      /\ v.download.inside = c.download.inside
      /\ \/ v = c /\ (~c.download.handle \/ c.download.state \in Final)
         \/ v.download.state = "INTERRUPTED" /\ v.net.on = "none"
  BY <1>1, DownloadStopFacts DEF Beside, SetUp
<1>3. ~Live(v)
  <2>1. CASE v = c /\ (~c.download.handle \/ c.download.state \in Final)
    BY <1>1, <2>1 DEF Live, SetUp, Flow, Final
  <2>2. CASE v.net.on = "none"
    BY <2>2 DEF Live
  <2> QED
    BY <1>2, <2>1, <2>2
<1>4. SetUp(v)
  <2>1. CASE v = c
    BY <1>1, <2>1 DEF SetUp, Listening
  <2>2. CASE v.net.on = "none"
    BY <1>1, <1>2, <2>2 DEF SetUp, Listening
  <2> QED
    BY <1>2, <2>1, <2>2
<1>5. ASSUME Resumes(w)
      PROVE  Resumes(v)
  <2>1. CASE v = c
    BY <1>3, <1>5, <2>1 DEF Resumes, Listening
  <2>2. CASE v.download.state = "INTERRUPTED" /\ v.net.on = "none"
    BY <1>2, <1>3, <1>5, <2>2 DEF Resumes, Listening, Final
  <2> QED
    BY <1>2, <2>1, <2>2
<1> QED
  BY <1>1, <1>2, <1>3, <1>4, <1>5 DEF Listening

LEMMA StopButtonInv ==
  ASSUME Inv, StopButton
  PROVE  Inv'
<1> DEFINE w == World
           a == Closed(w)
           x == [a.line EXCEPT !.state = "STOPPED"]
           c == [a EXCEPT !.line = x]
           v == DownloadStop(c)
<1>0. clicks' = clicks + 1 /\ line.job
  BY DEF StopButton, Click
<1>1. Becomes(v)
  BY DEF StopButton
<1>2. WorldInv(w) /\ w \in Worlds /\ w.line = line
  BY InvFacts
<1>3. /\ Listening(w, a) /\ a.line.tick = w.line.tick /\ a.line \in Lines
      /\ a.net = w.net /\ a.download = w.download /\ a.crashed = w.crashed
  BY <1>2, ClosedFacts, ClosedListens
<1> HIDE DEF a
<1>4. /\ x \in Lines /\ x.state = "STOPPED" /\ x.tick = a.line.tick
      /\ x.listed = a.line.listed /\ x.job = a.line.job
  BY <1>3 DEF Lines
<1> HIDE DEF x
<1>5. /\ c \in Worlds /\ c.line = x /\ c.file = a.file
      /\ c.single = a.single /\ c.download = a.download /\ c.net = a.net
      /\ c.crashed = a.crashed
  BY <1>3, <1>4 DEF Worlds, Listening
<1>6. Listening(w, c) /\ c.line.tick = w.line.tick
  BY <1>3, <1>4, <1>5 DEF Listening
<1>7. w.line.listed
  BY <1>0, <1>2 DEF WorldInv, SetUp
<1> HIDE DEF c, w
<1>8. /\ v \in Worlds /\ FileOK(v.file) /\ SetUp(v) /\ ~Live(v)
      /\ v.line = c.line /\ v.single = c.single
      /\ Resumes(w) => Resumes(v)
  BY <1>2, <1>3, <1>5, <1>6, <1>7, StoppedFacts
<1> HIDE DEF v
<1>9. World' = v
  BY <1>1, <1>8, BecomesFacts
<1>10. WorldInv(v)
  BY <1>8 DEF WorldInv, Flow
<1>11. clicks + 1 \in Nat /\ clicks + 1 # 0
  BY InvFacts
<1>12. TriesOK(v, clicks + 1)
  BY <1>4, <1>5, <1>8, <1>11 DEF TriesOK
<1>13. "Early" \notin Buttons => Resumes(v)
  BY <1>8, InvFacts DEF w
<1>14. AllInv(v, clicks + 1)
  BY <1>10, <1>11, <1>12, <1>13 DEF AllInv
<1> QED
  BY <1>0, <1>9, <1>14 DEF Inv

LEMMA RestartButtonInv ==
  ASSUME GtkSingleUrlAssumption, Inv, NEW canOpen \in BOOLEAN,
         NEW sized \in BOOLEAN, RestartButton(canOpen, sized)
  PROVE  Inv'
<1> DEFINE w == World
           x == [w.line EXCEPT !.stream = "none"]
           closed == [w EXCEPT !.line = x]
           y == [closed.single EXCEPT !.dest = FALSE]
           c == [closed EXCEPT !.single = y]
           stopped == IF line.job THEN DownloadStop(c) ELSE closed
           u == OpenOutputAndRun(stopped, canOpen, sized)
           v == [u EXCEPT !.line.state = "RUNNING"]
<1>0. clicks' = clicks + 1
  BY DEF RestartButton, Click
<1>1. Becomes(v)
  <2>1. closed = [World EXCEPT !.line.stream = "none"]
    BY DEF World
  <2>2. c = NoDestination(closed)
    BY DEF NoDestination, World
  <2> HIDE DEF closed, c
  <2> QED
    BY <2>1, <2>2 DEF RestartButton
<1>2. /\ WorldInv(w) /\ w \in Worlds /\ w.line = line /\ w.single = single
      /\ FileOK(w.file) /\ SetUp(w) /\ Flow(w)
  BY InvFacts
<1>3. /\ x \in Lines /\ x.tick = line.tick /\ x.listed = line.listed
      /\ x.job = line.job
  BY InvFacts DEF Lines, World
<1> HIDE DEF x, w
<1>4. /\ closed \in Worlds /\ closed.line = x /\ closed.file = w.file
      /\ closed.single = w.single /\ closed.download = w.download
      /\ closed.net = w.net /\ closed.crashed = w.crashed
  BY <1>2, <1>3 DEF Worlds
<1> HIDE DEF closed
<1>5. /\ y \in Singles /\ y.resumeLeft = w.single.resumeLeft
      /\ y.tries = w.single.tries /\ y.current = w.single.current
      /\ y.size = w.single.size
  BY <1>4 DEF Worlds, Singles
<1> HIDE DEF y
<1>6. /\ c \in Worlds /\ c.single = y /\ c.line = x /\ c.file = w.file
      /\ c.download = w.download /\ c.net = w.net /\ c.crashed = w.crashed
  BY <1>4, <1>5 DEF Worlds
<1> HIDE DEF c
<1>7. /\ stopped \in Worlds /\ FileOK(stopped.file) /\ SetUp(stopped)
      /\ ~Live(stopped) /\ stopped.line = x
      /\ Resumes(w) => Resumes(stopped)
  <2>1. CASE line.job
    <3>1. stopped = DownloadStop(c)
      BY <2>1
    <3>2. Listening(w, c) /\ c.line.tick = w.line.tick /\ w.line.listed
      BY <1>2, <1>3, <1>5, <1>6, <2>1 DEF Listening, SetUp
    <3> HIDE DEF stopped
    <3>3. /\ stopped \in Worlds /\ FileOK(stopped.file) /\ SetUp(stopped)
          /\ ~Live(stopped) /\ stopped.line = c.line
          /\ Resumes(w) => Resumes(stopped)
      BY <1>2, <1>6, <3>1, <3>2, StoppedFacts
    <3> QED
      BY <1>6, <3>3
  <2>2. CASE ~line.job
    <3>1. stopped = closed
      BY <2>2
    <3>2. w.net.on = "none"
      BY <1>2, <2>2 DEF SetUp
    <3>3. SetUp(closed) /\ ~Live(closed)
      BY <1>2, <1>3, <1>4, <3>2 DEF SetUp, Live
    <3>4. Resumes(w) => Resumes(closed)
      BY <1>2, <1>3, <1>4, <3>2, <3>3 DEF Resumes
    <3> QED
      BY <1>2, <1>4, <3>1, <3>3, <3>4
  <2> QED
    BY <2>1, <2>2
<1> HIDE DEF stopped
<1>8. Restarted(stopped, u) /\ (Resumes(stopped) => Resumes(u))
  BY <1>7, OpenOutputAndRunFacts
<1> HIDE DEF u
<1>9. /\ WorldInv(v) /\ (Resumes(u) => Resumes(v))
      /\ v.line.state = "RUNNING"
  BY <1>8, RunsFacts DEF Restarted
<1> HIDE DEF v
<1>10. World' = v
  BY <1>1, <1>9, BecomesFacts DEF WorldInv
<1>11. clicks + 1 \in Nat /\ clicks + 1 # 0
  BY InvFacts
<1>12. TriesOK(v, clicks + 1)
  BY <1>9, <1>11 DEF TriesOK
<1>13. "Early" \notin Buttons => Resumes(v)
  BY <1>7, <1>8, <1>9, InvFacts DEF w
<1>14. AllInv(v, clicks + 1)
  BY <1>9, <1>11, <1>12, <1>13 DEF AllInv
<1> QED
  BY <1>0, <1>10, <1>14 DEF Inv

LEMMA NextInv ==
  ASSUME GtkSingleUrlAssumption, Inv, [Next]_vars
  PROVE  Inv'
<1>1. CASE Network
  BY <1>1, ChunkInv, PerformReturnsInv, DoneInv DEF Network
<1>2. CASE StopLaterCallback
  BY <1>2, StopLaterCallbackInv
<1>3. CASE StartResume
  BY <1>3, StartResumeInv
<1>4. CASE User
  <2>1. Opens \subseteq BOOLEAN /\ Announced \subseteq BOOLEAN
    BY DEF Opens, GtkSingleUrlAssumption
  <2> QED
    BY <1>4, <2>1, RunInv, StartButtonInv, RestartButtonInv, StopButtonInv
       DEF User
<1>5. CASE Waits \/ UNCHANGED vars
  BY <1>5, PerformReturnsInv DEF Waits
<1> QED
  BY <1>1, <1>2, <1>3, <1>4, <1>5 DEF Next

-----------------------------------------------------------------------------
(* Theorems *)

\* In every reachable world the file, the line, the SingleUrl, the Download
\* and the transfer of libcurl fit together as Inv says, whatever the server
\* answers, whenever the user clicks.
THEOREM Invariance ==
  ASSUME GtkSingleUrlAssumption
  PROVE  Spec => []Inv
<1>1. Init => Inv
  BY InitInv
<1>2. Inv /\ [Next]_vars => Inv'
  BY NextInv
<1> QED
  BY <1>1, <1>2, PTL DEF Spec

\* A resume never appends the object to something else, and leaves no gap and
\* no block at the place of another: what is in the file is the beginning of
\* the object, or untouched, whatever was there before, whatever the sizes of
\* the overlap and the chunks, with any number of resumes, stops and restarts.
THEOREM NeverMixedAtAll ==
  ASSUME GtkSingleUrlAssumption
  PROVE  Spec => []NeverMixed
<1>1. Inv => NeverMixed
  <2> SUFFICES ASSUME Inv PROVE NeverMixed
    OBVIOUS
  <2>1. FileOK(file)
    BY InvFacts
  <2> QED
    BY <2>1 DEF FileOK, Good, Old, NeverMixed
<1> QED
  BY <1>1, Invariance, PTL

\* Behind a line that has failed, was stopped or has succeeded, no transfer
\* writes to a file: it has been taken from libcurl, or is going to be by the
\* idle callback.
THEOREM NoneBehind ==
  ASSUME GtkSingleUrlAssumption
  PROVE  Spec => []NoTransferBehind
<1>1. Inv => NoTransferBehind
  <2> SUFFICES ASSUME Inv, crashed = "no", net.on = "active",
                      ~download.stopLater
               PROVE  line.state \notin {"ERROR", "STOPPED", "SUCCEEDED"}
    BY DEF NoTransferBehind
  <2> QED
    BY InvFacts DEF Live, Flow
<1> QED
  BY <1>1, Invariance, PTL

\* "which resumes the download a certain number of times": without the user,
\* the timer starts a transfer at most MAX_TRIES times.
THEOREM ResumesAreBounded ==
  ASSUME GtkSingleUrlAssumption
  PROVE  Spec => []AutoResumesBounded
<1>1. Inv => AutoResumesBounded
  <2> SUFFICES ASSUME Inv, clicks = 0 PROVE single.tries <= MAX_TRIES
    BY DEF AutoResumesBounded
  <2> QED
    BY InvFacts DEF TriesOK
<1> QED
  BY <1>1, Invariance, PTL

\* No byte is written beyond destEndOffset, provided that there was none before.
THEOREM NothingBeyondDestination ==
  ASSUME GtkSingleUrlAssumption,
         \A n \in OldFiles : DestEnd > 0 => n <= DestEnd
  PROVE  Spec => []WithinDestination
<1>1. Inv => WithinDestination
  <2> SUFFICES ASSUME Inv, DestEnd > 0 PROVE Len(file) <= DestEnd
    BY DEF WithinDestination
  <2>1. FileOK(file)
    BY InvFacts
  <2> QED
    BY <2>1 DEF FileOK
<1> QED
  BY <1>1, Invariance, PTL

\* When the timer resumes a download, the progress that is its offset is the
\* length of the file, as long as the user does not start it before the timer.
THEOREM ResumedWhereFileEnds ==
  ASSUME GtkSingleUrlAssumption, "Early" \notin Buttons
  PROVE  Spec => []ResumeWhereFileEnds
<1>1. Inv => ResumeWhereFileEnds
  <2> SUFFICES ASSUME Inv, line.tick = "startResume"
               PROVE  single.current = Len(file)
    BY DEF ResumeWhereFileEnds
  <2> QED
    BY InvFacts DEF Resumes
<1> QED
  BY <1>1, Invariance, PTL

-----------------------------------------------------------------------------
(* The files that are read from the cache (module CachedUrl) *)

CONSTANTS Addresses, Priorities, Pieces, MaxJobs, MaxSources, Deletes, Retries,
          Word, FirstSpeed, Speeds, CoarseClock

VARIABLES job, active, sources, inside, readSpeed, broken, created, reused

Cached == INSTANCE CachedUrl WITH crashed <- broken

Jobs == [state : {"free", "paused", "running", "ended"}, left : 0..Pieces,
         priority : Priorities \union {0}]

\* A world, between two calls of its operators; o are the objects that run and
\* are not in the set.
CachedOK(w, o) ==
  /\ w = [job |-> w.job, active |-> w.active, sources |-> w.sources,
          created |-> w.created]
  /\ w.job \in [Addresses -> Jobs] /\ w.active \subseteq Addresses
  /\ w.sources \in Nat /\ w.created \in 0..MaxJobs
  /\ w.active # {} => w.sources > 0
  /\ o \subseteq Addresses /\ w.active \intersect o = {}
  /\ \A a \in Addresses : a \in w.active \union o <=> w.job[a].state = "running"

CachedInv ==
  /\ CachedOK(Cached!World, reused) /\ inside \in BOOLEAN /\ broken \in BOOLEAN
  /\ readSpeed \in 0..(Word - 1)

\* The parts of a world, one by one.
CachedParts(j, act, n, c, o) ==
  /\ j \in [Addresses -> Jobs] /\ act \subseteq Addresses
  /\ n \in Nat /\ c \in 0..MaxJobs
  /\ act # {} => n > 0
  /\ o \subseteq Addresses /\ act \intersect o = {}
  /\ \A a \in Addresses : a \in act \union o <=> j[a].state = "running"

LEMMA CachedIs ==
  ASSUME NEW w, NEW o
  PROVE  CachedOK(w, o) <=>
           /\ w = [job |-> w.job, active |-> w.active, sources |-> w.sources,
                   created |-> w.created]
           /\ CachedParts(w.job, w.active, w.sources, w.created, o)
  BY DEF CachedOK, CachedParts

LEMMA CachedMake ==
  ASSUME NEW j, NEW act, NEW n, NEW c, NEW o, CachedParts(j, act, n, c, o)
  PROVE  CachedOK([job |-> j, active |-> act, sources |-> n, created |-> c], o)
  BY DEF CachedOK, CachedParts

LEMMA CachedWorld ==
  CachedOK(Cached!World, reused) <=> CachedParts(job, active, sources, created, reused)
  BY DEF CachedOK, CachedParts, Cached!World

LEMMA CachedBecomes ==
  ASSUME NEW w, NEW o, CachedOK(w, o), Cached!Becomes(w), reused' = o
  PROVE  CachedOK(Cached!World, reused)'
  BY DEF CachedOK, Cached!Becomes, Cached!World

\* One object changes.
LEMMA CachedJob ==
  ASSUME NEW j, NEW act, NEW n, NEW c, NEW o, CachedParts(j, act, n, c, o),
         NEW a \in Addresses, NEW v \in Jobs
  PROVE  LET k == [j EXCEPT ![a] = v]
         IN /\ v.state = "running" =>
                 \A m \in Nat : m > 0 => CachedParts(k, act \union {a}, m, c, o \ {a})
            /\ v.state # "running" => CachedParts(k, act \ {a}, n, c, o \ {a})
  <1> DEFINE k == [j EXCEPT ![a] = v]
  <1>1. k \in [Addresses -> Jobs]
    BY DEF CachedParts
  <1>2. \A b \in Addresses : k[b] = IF b = a THEN v ELSE j[b]
    BY DEF CachedParts
  <1> HIDE DEF k
  <1>3. ASSUME v.state = "running", NEW m \in Nat, m > 0
        PROVE  CachedParts(k, act \union {a}, m, c, o \ {a})
    BY <1>1, <1>2, <1>3 DEF CachedParts
  <1>4. ASSUME v.state # "running"
        PROVE  CachedParts(k, act \ {a}, n, c, o \ {a})
    BY <1>1, <1>2, <1>4 DEF CachedParts
  <1> QED BY <1>3, <1>4 DEF k

LEMMA CachedNew ==
  ASSUME Cached!CachedUrlAssumption, NEW w, NEW o, CachedOK(w, o), NEW a \in Addresses,
         NEW p \in Priorities, w.job[a].state # "running", w.created < MaxJobs
  PROVE  CachedOK(Cached!New(w, a, p), o \ {a})
  <1> DEFINE v == [state |-> "paused", left |-> Pieces, priority |-> p]
             k == [w.job EXCEPT ![a] = v]
  <1>1. CachedParts(w.job, w.active, w.sources, w.created, o)
        /\ w = [job |-> w.job, active |-> w.active, sources |-> w.sources,
                created |-> w.created]
    BY CachedIs
  <1>2. v \in Jobs /\ v.state # "running"
    BY DEF Jobs, Cached!CachedUrlAssumption
  <1>3. a \notin w.active /\ w.created + 1 \in 0..MaxJobs
    BY <1>1 DEF CachedParts, Cached!CachedUrlAssumption
  <1>4. CachedParts(k, w.active \ {a}, w.sources, w.created, o \ {a})
    BY <1>1, <1>2, CachedJob
  <1>5. w.active \ {a} = w.active
    BY <1>3
  <1>6. CachedParts(k, w.active, w.sources, w.created + 1, o \ {a})
    BY <1>3, <1>4, <1>5 DEF CachedParts
  <1>7. Cached!New(w, a, p) =
          [job |-> k, active |-> w.active, sources |-> w.sources,
           created |-> w.created + 1]
    <2>1. Cached!New(w, a, p) = [w EXCEPT !.job[a] = v, !.created = @ + 1]
      BY DEF Cached!New
    <2>2. [w EXCEPT !.job[a] = v, !.created = @ + 1] =
            [w EXCEPT !.job = k, !.created = w.created + 1]
      BY <1>1
    <2> HIDE DEF v, k
    <2> QED BY <1>1, <2>1, <2>2
  <1> QED BY <1>6, <1>7, CachedMake

\* The new state of an object.
LEMMA CachedState ==
  ASSUME NEW j \in [Addresses -> Jobs], NEW a \in Addresses,
         NEW s \in {"free", "paused", "running", "ended"}
  PROVE  [j[a] EXCEPT !.state = s] \in Jobs
         /\ [j[a] EXCEPT !.state = s].state = s
  BY DEF Jobs

LEMMA CachedCont ==
  ASSUME NEW w, NEW o, CachedOK(w, o), NEW a \in Addresses
  PROVE  CachedOK(Cached!Cont(w, a), o \ {a})
  <1> DEFINE now == w.active \union {a}
             more == IF Cardinality(now) = 1 THEN 1 ELSE 0
             v == [w.job[a] EXCEPT !.state = "running"]
             k == [w.job EXCEPT ![a] = v]
  <1>1. more \in 0..1 /\ (w.active = {} => more = 1)
    <2>1. Cardinality({a}) = 1
      BY FS_Singleton
    <2> QED BY <2>1
  <1>2. CachedParts(w.job, w.active, w.sources, w.created, o)
        /\ w = [job |-> w.job, active |-> w.active, sources |-> w.sources,
                created |-> w.created]
    BY CachedIs
  <1>3. Cached!Cont(w, a) =
          [w EXCEPT !.active = now, !.job[a].state = "running",
                    !.sources = @ + more]
    BY DEF Cached!Cont, Cached!Cardinality, Cardinality
  <1> HIDE DEF more
  <1>4. Cached!Cont(w, a) =
          [job |-> k, active |-> now, sources |-> w.sources + more,
           created |-> w.created]
    BY <1>2, <1>3
  <1>5. w.sources + more \in Nat /\ w.sources + more > 0
    BY <1>1, <1>2 DEF CachedParts
  <1>6. v \in Jobs /\ v.state = "running"
    BY <1>2, CachedState DEF CachedParts
  <1>7. CachedParts(k, now, w.sources + more, w.created, o \ {a})
    BY <1>2, <1>5, <1>6, CachedJob
  <1> QED BY <1>4, <1>7, CachedMake

LEMMA CachedPause ==
  ASSUME NEW w, NEW o, CachedOK(w, o), NEW a \in Addresses
  PROVE  CachedOK(Cached!Pause(w, a), o \ {a})
  <1> DEFINE v == [w.job[a] EXCEPT !.state = "paused"]
             k == [w.job EXCEPT ![a] = v]
  <1>1. CachedParts(w.job, w.active, w.sources, w.created, o)
        /\ w = [job |-> w.job, active |-> w.active, sources |-> w.sources,
                created |-> w.created]
    BY CachedIs
  <1>2. v \in Jobs /\ v.state = "paused"
    BY <1>1, CachedState DEF CachedParts
  <1>3. CachedParts(k, w.active \ {a}, w.sources, w.created, o \ {a})
    BY <1>1, <1>2, CachedJob
  <1>4. Cached!Pause(w, a) =
          [job |-> k, active |-> w.active \ {a}, sources |-> w.sources,
           created |-> w.created]
    <2>1. Cached!Pause(w, a) =
            [w EXCEPT !.active = @ \ {a}, !.job[a].state = "paused"]
      BY DEF Cached!Pause
    <2> QED BY <1>1, <2>1
  <1> QED BY <1>3, <1>4, CachedMake

LEMMA CachedFree ==
  ASSUME Cached!CachedUrlAssumption
  PROVE  Cached!Free \in Jobs /\ Cached!Free.state = "free"
  BY DEF Cached!CachedUrlAssumption, Cached!Free, Jobs

LEMMA CachedDelete ==
  ASSUME Cached!CachedUrlAssumption, NEW w, NEW o, CachedOK(w, o), NEW a \in Addresses
  PROVE  CachedOK(Cached!Delete(w, a), o \ {a})
  <1> DEFINE k == [w.job EXCEPT ![a] = Cached!Free]
  <1>1. CachedParts(w.job, w.active, w.sources, w.created, o)
        /\ w = [job |-> w.job, active |-> w.active, sources |-> w.sources,
                created |-> w.created]
    BY CachedIs
  <1>2. CachedParts(k, w.active \ {a}, w.sources, w.created, o \ {a})
    BY <1>1, CachedFree, CachedJob
  <1>3. Cached!Delete(w, a) =
          [job |-> k, active |-> w.active \ {a}, sources |-> w.sources,
           created |-> w.created]
    <2>1. Cached!Delete(w, a) =
            [w EXCEPT !.job[a] = Cached!Free, !.active = @ \ {a}]
      BY DEF Cached!Delete
    <2> QED BY <1>1, <2>1
  <1> QED BY <1>2, <1>3, CachedMake

\* active.erase(x) at the end: what runs at the address of x, but is not x, is
\* missing from now on.
LEMMA CachedErase ==
  ASSUME NEW w, NEW o, CachedOK(w, o), NEW a \in Addresses
  PROVE  CachedOK([w EXCEPT !.active = @ \ {a}],
                  {b \in Addresses :
                     \/ b \in o
                     \/ b = a /\ a \in w.active /\ w.job[a].state = "running"})
  <1> DEFINE q == {b \in Addresses :
                     \/ b \in o
                     \/ b = a /\ a \in w.active /\ w.job[a].state = "running"}
  <1>1. CachedParts(w.job, w.active, w.sources, w.created, o)
        /\ w = [job |-> w.job, active |-> w.active, sources |-> w.sources,
                created |-> w.created]
    BY CachedIs
  <1>2. CachedParts(w.job, w.active \ {a}, w.sources, w.created, q)
    BY <1>1 DEF CachedParts
  <1>3. [w EXCEPT !.active = @ \ {a}] =
          [job |-> w.job, active |-> w.active \ {a}, sources |-> w.sources,
           created |-> w.created]
    BY <1>1
  <1> HIDE DEF q
  <1>4. CachedOK([w EXCEPT !.active = @ \ {a}], q)
    BY <1>2, <1>3, CachedMake
  <1> QED BY <1>4 DEF q

\* The next object, which the listener creates and runs at a free address.
LEMMA CachedNext ==
  ASSUME Cached!CachedUrlAssumption, NEW d, NEW o, CachedOK(d, o),
         NEW b \in Addresses, NEW p \in Priorities, d.job[b].state = "free",
         d.created < MaxJobs
  PROVE  CachedOK(Cached!Cont(Cached!New(d, b, p), b), o)
  <1>1. b \notin o
    BY DEF CachedOK
  <1>2. o \ {b} = o
    BY <1>1
  <1>3. CachedOK(Cached!New(d, b, p), o)
    BY <1>2, CachedNew
  <1> QED BY <1>2, <1>3, CachedCont

\* What is left in the set when an object has ended: its listener leaves it
\* alone, or deletes it, or deletes it and runs the next one.
LEMMA CachedEnd ==
  ASSUME Cached!CachedUrlAssumption, CachedOK(Cached!World, reused),
         NEW a \in Addresses, a \in active, NEW failed \in BOOLEAN,
         Cached!End(a, failed)
  PROVE  CachedOK(Cached!World, reused)' /\ inside' = FALSE
  <1> DEFINE v == [job[a] EXCEPT !.state = "ended"]
             j == [job EXCEPT ![a] = v]
             k == [job EXCEPT ![a] = Cached!Free]
             e == [Cached!World EXCEPT !.job[a].state = "ended"]
             d == Cached!Delete(e, a)
             Taken(w) == {b \in Addresses :
                            \/ b \in reused
                            \/ b = a /\ a \in w.active /\ w.job[a].state = "running"}
  <1>1. PICK w \in Cached!Listeners(Cached!World, a, failed) :
          /\ Cached!Becomes([w EXCEPT !.active = @ \ {a}]) /\ inside' = FALSE
          /\ reused' = Taken(w)
    BY DEF Cached!End
  <1>2. \/ w \in {e, d}
        \/ \E b \in Addresses, p \in Priorities :
             /\ w = Cached!Cont(Cached!New(d, b, p), b)
             /\ d.job[b].state = "free" /\ created < MaxJobs
    <2> DEFINE free == {b \in Addresses : d.job[b].state = "free"}
               next == {Cached!Cont(Cached!New(d, n.at, n.priority), n.at) :
                          n \in [at : free, priority : Priorities]}
    <2>1. Cached!Listeners(Cached!World, a, failed) =
            IF ~Deletes THEN {e}
            ELSE {d} \union
                   (IF failed /\ Retries /\ Cached!World.created < MaxJobs
                    THEN next ELSE {})
      BY DEF Cached!Listeners
    <2>2. Cached!World.created = created
      BY DEF Cached!World
    <2> HIDE DEF d, e
    <2>3. \A x \in next :
            \E b \in Addresses, p \in Priorities :
              /\ x = Cached!Cont(Cached!New(d, b, p), b)
              /\ d.job[b].state = "free"
      OBVIOUS
    <2> HIDE DEF next
    <2>4. w \in {e, d} \/ (w \in next /\ created < MaxJobs)
      BY <1>1, <2>1, <2>2
    <2> QED BY <2>3, <2>4
  <1>3. CachedParts(job, active, sources, created, reused)
    BY CachedWorld
  <1>4. job \in [Addresses -> Jobs] /\ a \notin reused /\ reused \ {a} = reused
        /\ reused \subseteq Addresses
    BY <1>3 DEF CachedParts
  <1>5. v \in Jobs /\ v.state = "ended"
    BY <1>4, CachedState
  <1>6. CachedParts(j, active \ {a}, sources, created, reused)
    <2>1. CachedParts(j, active \ {a}, sources, created, reused \ {a})
      BY <1>3, <1>4, <1>5, CachedJob
    <2> QED BY <1>4, <2>1
  <1>7. CachedParts(k, active \ {a}, sources, created, reused)
    <2>1. CachedParts(k, active \ {a}, sources, created, reused \ {a})
      BY <1>3, <1>4, CachedFree, CachedJob
    <2> QED BY <1>4, <2>1
  <1>8. e = [job |-> j, active |-> active, sources |-> sources,
             created |-> created]
    BY DEF Cached!World
  <1>9. d = [job |-> k, active |-> active \ {a}, sources |-> sources,
             created |-> created]
    <2>1. d = [e EXCEPT !.job[a] = Cached!Free, !.active = @ \ {a}]
      BY DEF Cached!Delete
    <2>2. [j EXCEPT ![a] = Cached!Free] = k
      BY <1>4
    <2> HIDE DEF e, j, k
    <2> QED BY <1>8, <2>1, <2>2
  <1>10. j[a].state = "ended"
    BY <1>4, <1>5
  <1> HIDE DEF e, d, j, k
  <1>11. CachedOK(d, reused) /\ d.created = created
    BY <1>7, <1>9, CachedMake
  <1> DEFINE r == [w EXCEPT !.active = @ \ {a}]
  <1>12. CASE w = e
    <2>1. r = [job |-> j, active |-> active \ {a}, sources |-> sources,
               created |-> created]
      BY <1>8, <1>12
    <2>2. CachedOK(r, reused)
      BY <1>6, <2>1, CachedMake
    <2>3. w.job[a].state # "running"
      BY <1>8, <1>10, <1>12
    <2>4. reused' = reused
      BY <1>1, <1>4, <2>3
    <2> HIDE DEF r
    <2> QED BY <1>1, <2>2, <2>4, CachedBecomes DEF r
  <1>13. CASE CachedOK(w, reused)
    <2>1. CachedOK(r, Taken(w))
      BY <1>13, CachedErase
    <2> HIDE DEF r, Taken
    <2> QED BY <1>1, <2>1, CachedBecomes DEF r
  <1>14. CASE \E b \in Addresses, p \in Priorities :
               /\ w = Cached!Cont(Cached!New(d, b, p), b)
               /\ d.job[b].state = "free" /\ created < MaxJobs
    <2>1. CachedOK(w, reused)
      BY <1>11, <1>14, CachedNext
    <2> QED BY <1>13, <2>1
  <1> QED BY <1>2, <1>11, <1>12, <1>13, <1>14

LEMMA CachedMeasured ==
  ASSUME Cached!CachedUrlAssumption, readSpeed \in 0..(Word - 1),
         NEW s \in Speeds \union {0}
  PROVE  Cached!Measured(s) \in 0..(Word - 1)
  <1>1. Word \in Nat \ {0} /\ s \in 0..(Word - 1)
    BY DEF Cached!CachedUrlAssumption
  <1>2. Cached!Doubled \in 0..(Word - 1)
    BY <1>1 DEF Cached!Doubled
  <1>3. readSpeed \div 2 \in 0..(Word - 1)
    BY <1>1
  <1> QED BY <1>1, <1>2, <1>3 DEF Cached!Measured

\* Reading changes what is left, never the state.
LEMMA CachedRead ==
  ASSUME Cached!CachedUrlAssumption, CachedOK(Cached!World, reused),
         readSpeed \in 0..(Word - 1), NEW a \in Addresses, readSpeed > 0 => job[a].left > 1,
         job' = Cached!Read(a), UNCHANGED <<active, sources, created, reused>>
  PROVE  CachedOK(Cached!World, reused)'
  <1>1. job \in [Addresses -> Jobs] /\ active \subseteq Addresses
        /\ sources \in Nat /\ created \in 0..MaxJobs
        /\ (active # {} => sources > 0)
        /\ reused \subseteq Addresses /\ active \intersect reused = {}
        /\ \A b \in Addresses : b \in active \union reused <=> job[b].state = "running"
    BY DEF CachedOK, Cached!World
  <1> DEFINE l == IF readSpeed = 0 THEN job[a].left ELSE job[a].left - 1
  <1>2. job' = [job EXCEPT ![a].left = l]
    BY <1>1 DEF Cached!Read
  <1>3. l \in 0..Pieces
    <2>1. job[a] \in Jobs
      BY <1>1
    <2>2. job[a].left \in 0..Pieces
      BY <2>1 DEF Jobs
    <2>3. Pieces \in Nat /\ readSpeed \in Nat
      BY DEF Cached!CachedUrlAssumption
    <2> QED BY <2>2, <2>3
  <1> HIDE DEF l
  <1>4. job' \in [Addresses -> Jobs]
        /\ \A b \in Addresses : job'[b].state = job[b].state
    BY <1>1, <1>2, <1>3 DEF Jobs
  <1> QED BY <1>1, <1>4 DEF CachedOK, Cached!World

LEMMA CachedInit ==
  ASSUME Cached!CachedUrlAssumption, Cached!Init
  PROVE  CachedInv
  <1>1. CachedParts(job, active, sources, created, reused)
    BY CachedFree DEF Cached!Init, CachedParts, Cached!CachedUrlAssumption,
                      Cached!Free
  <1>2. readSpeed \in 0..(Word - 1) /\ inside = FALSE /\ broken = FALSE
    BY DEF Cached!CachedUrlAssumption, Cached!Init
  <1> QED BY <1>1, <1>2, CachedWorld DEF CachedInv

LEMMA CachedSpool ==
  ASSUME Cached!CachedUrlAssumption, CachedInv, Cached!Spool
  PROVE  CachedInv'
  <1>1. /\ CachedOK(Cached!World, reused) /\ inside \in BOOLEAN /\ broken \in BOOLEAN
        /\ readSpeed \in 0..(Word - 1)
    BY DEF CachedInv
  <1>2. CASE Cached!Dispatch
    <2>1. CachedOK(Cached!World, reused)'
      BY <1>1, <1>2 DEF Cached!Dispatch, CachedOK, Cached!World
    <2> QED BY <1>1, <1>2, <2>1 DEF Cached!Dispatch, CachedInv
  <1>3. ASSUME NEW a \in Addresses, Cached!Fails(a) \/ Cached!EndOfFile(a)
        PROVE  CachedInv'
    <2>1. Cached!End(a, TRUE) \/ Cached!End(a, FALSE)
      BY <1>3 DEF Cached!Fails, Cached!EndOfFile
    <2>2. CachedOK(Cached!World, reused)' /\ inside' = FALSE
      BY <1>1, <1>3, <2>1, CachedEnd DEF Cached!Fails, Cached!EndOfFile, Cached!First
    <2> QED BY <1>1, <1>3, <2>2 DEF Cached!Fails, Cached!EndOfFile, CachedInv
  <1>4. ASSUME NEW a \in Addresses, Cached!OutOfTime(a)
        PROVE  CachedInv'
    <2>1. CachedOK(Cached!World, reused)'
      BY <1>1, <1>4, CachedRead DEF Cached!OutOfTime
    <2> QED BY <1>1, <1>4, <2>1 DEF Cached!OutOfTime, CachedInv
  <1>5. ASSUME NEW a \in Addresses, Cached!GoesOn(a)
        PROVE  CachedInv'
    <2>1. CachedOK(Cached!World, reused)'
      BY <1>1, <1>5, CachedRead DEF Cached!GoesOn
    <2>2. readSpeed' \in 0..(Word - 1)
      BY <1>1, <1>5, CachedMeasured DEF Cached!GoesOn
    <2> QED BY <1>1, <1>5, <2>1, <2>2 DEF Cached!GoesOn, CachedInv
  <1>6. ASSUME NEW a \in Addresses, Cached!NoTime(a)
        PROVE  CachedInv'
    <2>1. CachedOK(Cached!World, reused)'
      BY <1>1, <1>6 DEF Cached!NoTime, CachedOK, Cached!World
    <2> QED BY <1>1, <1>6, <2>1 DEF Cached!NoTime, CachedInv
  <1> QED BY <1>2, <1>3, <1>4, <1>5, <1>6 DEF Cached!Spool

LEMMA CachedUsers ==
  ASSUME Cached!CachedUrlAssumption, CachedInv, Cached!Users
  PROVE  CachedInv'
  <1>1. /\ CachedOK(Cached!World, reused) /\ inside \in BOOLEAN /\ broken \in BOOLEAN
        /\ readSpeed \in 0..(Word - 1)
    BY DEF CachedInv
  <1>2. SUFFICES ASSUME NEW a \in Addresses,
                   \/ \E priority \in Priorities : Cached!Create(a, priority)
                   \/ Cached!Continue(a) \/ Cached!Suspend(a) \/ Cached!Remove(a)
                 PROVE CachedInv'
    BY DEF Cached!Users
  <1> USE DEF Cached!Touched
  <1>3. /\ inside' = inside /\ broken' = broken /\ readSpeed' = readSpeed
        /\ CachedOK(Cached!World, reused)'
    <2>1. ASSUME NEW p \in Priorities, Cached!Create(a, p)
          PROVE  CachedOK(Cached!World, reused)'
      <3>1. Cached!World.job[a].state # "running" /\ Cached!World.created < MaxJobs
        BY <2>1 DEF Cached!Create, Cached!World
      <3> QED BY <1>1, <2>1, <3>1, CachedNew, CachedBecomes DEF Cached!Create
    <2>2. ASSUME Cached!Continue(a) \/ Cached!Suspend(a) \/ Cached!Remove(a)
          PROVE  CachedOK(Cached!World, reused)'
      BY <1>1, <2>2, CachedCont, CachedPause, CachedDelete, CachedBecomes
         DEF Cached!Continue, Cached!Suspend, Cached!Remove
    <2> QED BY <1>2, <2>1, <2>2 DEF Cached!Create, Cached!Continue,
                                    Cached!Suspend, Cached!Remove
  <1> QED BY <1>1, <1>3 DEF CachedInv

LEMMA CachedCorrect ==
  ASSUME Cached!CachedUrlAssumption
  PROVE  Cached!Spec => []CachedInv
  <1>1. CachedInv /\ [Cached!Next]_(Cached!vars) => CachedInv'
    <2>1. CASE UNCHANGED Cached!vars
      BY <2>1 DEF Cached!vars, CachedInv, CachedOK, Cached!World
    <2> QED BY <2>1, CachedSpool, CachedUsers DEF Cached!Next, Cached!Waits
  <1> QED BY <1>1, CachedInit, PTL DEF Cached!Spec

\* The set of the callback never holds an object that is gone, or paused, and
\* all that run are in it (active, cached-url.hh:94), whatever the listeners do
\* when an object ends: delete it, or delete it and run the next one.  The only
\* exception is an object that got the address of the one which ended, until
\* somebody pauses it: active.erase(x) at the end of spoolDataCallback() has
\* taken it out.
THEOREM ActiveAreRunning ==
  ASSUME Cached!CachedUrlAssumption
  PROVE  Cached!Spec => []Cached!ActiveRuns
  <1>1. CachedInv => Cached!ActiveRuns
    BY DEF CachedInv, CachedOK, Cached!World, Cached!ActiveRuns
  <1> QED BY <1>1, CachedCorrect, PTL

\* While an object is to be read, the main loop calls spoolDataCallback(),
\* although more than one idle source may have been made for that.
THEOREM ReadWhileActive ==
  ASSUME Cached!CachedUrlAssumption
  PROVE  Cached!Spec => []Cached!SourceWhileActive
  <1>1. CachedInv => Cached!SourceWhileActive
    BY DEF CachedInv, CachedOK, Cached!World, Cached!SourceWhileActive
  <1> QED BY <1>1, CachedCorrect, PTL

\* A speed that does not overflow when it is doubled.
SpeedOK == 0 < readSpeed /\ 2 * readSpeed < Word

\* The amount that is read in one go never gets to zero by halving and
\* doubling, as long as the speeds measured can be doubled in an unsigned int.
THEOREM SpeedStaysPositive ==
  ASSUME Cached!CachedUrlAssumption, 2 * FirstSpeed < Word,
         \A s \in Speeds : 0 < s /\ 2 * s < Word
  PROVE  Cached!Spec => []Cached!SpeedPositive
  <1>1. Word \in Nat /\ Speeds \subseteq Nat /\ FirstSpeed \in Nat \ {0}
    BY DEF Cached!CachedUrlAssumption
  <1>2. Cached!Init => SpeedOK
    BY <1>1 DEF Cached!Init, SpeedOK
  <1>3. CachedInv /\ SpeedOK /\ [Cached!Next]_(Cached!vars) => SpeedOK'
    <2> SUFFICES ASSUME CachedInv, SpeedOK, [Cached!Next]_(Cached!vars)
                 PROVE  SpeedOK'
      OBVIOUS
    <2>1. readSpeed \in 0..(Word - 1)
      BY DEF CachedInv
    <2>2. ASSUME NEW a \in Addresses, Cached!GoesOn(a)
          PROVE  SpeedOK'
      <3>1. PICK s \in Speeds : readSpeed' = Cached!Measured(s)
        BY <2>1, <2>2 DEF Cached!GoesOn, SpeedOK
      <3>2. Cached!Doubled = 2 * readSpeed
        BY <1>1, <2>1 DEF Cached!Doubled, SpeedOK
      <3>3. s \in Nat /\ 0 < s /\ 2 * s < Word
        BY <1>1
      <3>4. readSpeed \div 2 \in Nat /\ readSpeed \div 2 <= readSpeed
        BY <2>1, <1>1
      <3> QED BY <1>1, <2>1, <3>1, <3>2, <3>3, <3>4 DEF Cached!Measured, SpeedOK
    <2>3. CASE UNCHANGED readSpeed
      BY <2>3 DEF SpeedOK
    <2> QED BY <2>2, <2>3
            DEF Cached!Next, Cached!vars, Cached!Spool, Cached!Users, Cached!Waits,
                Cached!Dispatch, Cached!Fails, Cached!EndOfFile, Cached!OutOfTime,
                Cached!NoTime, Cached!Touched, Cached!Create, Cached!Continue, Cached!Suspend,
                Cached!Remove
  <1>4. SpeedOK => Cached!SpeedPositive
    BY <1>1 DEF SpeedOK, Cached!SpeedPositive
  <1> QED BY <1>2, <1>3, <1>4, CachedCorrect, PTL DEF Cached!Spec

-----------------------------------------------------------------------------
(* The main loop under libcurl (module GlibCurlPoll) *)

CONSTANTS Fds, MaxAdds, Silent

VARIABLES loop, phase, events, fdMax, revents, callPerform, adds

Polling == INSTANCE GlibCurlPoll WITH Transfers <- Fds

PollingInv ==
  /\ phase \in [Fds -> Polling!Phases]
  /\ revents \subseteq events
  /\ Polling!PolledAreWanted

\* Whenever poll() is called, the file descriptors registered with glib are
\* those that libcurl wants, none more and none less, whatever was added,
\* removed or performed since they were registered; and no event is kept of a
\* descriptor that is not registered.
THEOREM PolledAsWanted ==
  Polling!Spec => [](Polling!PolledAreWanted /\ revents \subseteq events)
  <1>1. Polling!Init => PollingInv
    BY DEF Polling!Init, PollingInv, Polling!Phases, Polling!PolledAreWanted
  <1>2. PollingInv /\ [Polling!Next]_(Polling!vars) => PollingInv'
    <2> SUFFICES ASSUME PollingInv, [Polling!Next]_(Polling!vars) PROVE PollingInv'
      OBVIOUS
    <2> USE DEF PollingInv, Polling!PolledAreWanted, Polling!WithFd
    <2>1. CASE UNCHANGED Polling!vars
      BY <2>1 DEF Polling!vars
    <2>2. ASSUME NEW t \in Fds, Polling!Add(t) \/ Polling!Remove(t)
          PROVE  PollingInv'
      BY <2>2 DEF Polling!Add, Polling!Remove, Polling!AddTransfer, Polling!Started,
                  Polling!Phases
    <2>3. ASSUME NEW t \in Fds, Polling!Answer(t)
          PROVE  PollingInv'
      <3>1. Polling!WithFd(phase') = Polling!WithFd(phase)
        BY <2>3 DEF Polling!Answer
      <3> QED BY <2>3, <3>1 DEF Polling!Answer, Polling!Phases
    <2>4. CASE Polling!Prepare
      BY <2>4 DEF Polling!Prepare, Polling!RegisterUnregisterFds, Polling!Registered,
                  Polling!Cleared
    <2>5. CASE Polling!Poll
      BY <2>5 DEF Polling!Poll
    <2>6. CASE Polling!Check
      BY <2>6 DEF Polling!Check
    <2>7. CASE Polling!Dispatch
      <3>1. PICK ph \in [Fds -> Polling!Phases] :
              /\ IF Polling!Running(ph) = {} THEN Polling!RegisterUnregisterFds(ph)
                                    ELSE UNCHANGED <<events, fdMax, revents>>
              /\ \/ phase' = ph
                 \/ \E t \in Fds : Polling!AddTransfer(t, ph)
        BY <2>7 DEF Polling!Dispatch
      <3>2. revents' \subseteq events'
        BY <3>1 DEF Polling!RegisterUnregisterFds, Polling!Registered, Polling!Cleared
      <3>3. phase' \in [Fds -> Polling!Phases]
        BY <3>1 DEF Polling!AddTransfer, Polling!Phases
      <3>4. loop' = "prepare"
        BY <2>7 DEF Polling!Dispatch
      <3> QED BY <3>2, <3>3, <3>4
    <2> QED BY <2>1, <2>2, <2>3, <2>4, <2>5, <2>6, <2>7
            DEF Polling!Next, Polling!MainLoop
  <1>3. PollingInv => Polling!PolledAreWanted /\ revents \subseteq events
    BY DEF PollingInv
  <1> QED BY <1>1, <1>2, <1>3, PTL DEF Polling!Spec

-----------------------------------------------------------------------------
(* Who is told of the progress of a job (module IOSource) *)

CONSTANTS Listeners, TheSource, NoObject, Acts, MaxDepth, MaxSends, MaxListened

VARIABLES following, preceding, living, loops, stale, sendings, listened,
          registered

Source ==
  INSTANCE IOSource
    WITH E <- TheSource, Null <- NoObject, MaxAdds <- MaxListened,
         next <- following, prev <- preceding, alive <- living, stack <- loops,
         crashed <- stale, sends <- sendings, adds <- listened, since <- registered

\* What the methods that are called may do, for what is said below: not both
\* delete the listener that was called and send again, and not end the source.
SourceAssumption ==
  Source!IOSourceAssumption /\ "source" \notin Acts /\ ~({"self", "send"} \subseteq Acts)

SourceObjects == Listeners \union {TheSource}
Present == living \ {TheSource}

SourceTypes ==
  /\ following \in [SourceObjects -> SourceObjects \union {NoObject}]
  /\ preceding \in [SourceObjects -> SourceObjects \union {NoObject}]
  /\ registered \in [Listeners -> Nat] /\ listened \in Nat
  /\ living \subseteq SourceObjects

\* The links go around, through all objects that exist, both ways.
LinksInv ==
  /\ \A o \in living :
       /\ following[o] \in living /\ preceding[o] \in living
       /\ preceding[following[o]] = o /\ following[preceding[o]] = o
  /\ \A o \in SourceObjects \ living : preceding[o] = NoObject

\* They follow the registrations, from the last to the first.
OrderInv ==
  /\ \A l \in Present : registered[l] <= listened
  /\ \A l, m \in Present : registered[l] = registered[m] => l = m
  /\ \A l \in Present : following[l] # TheSource => registered[following[l]] < registered[l]
  /\ \A l, m \in Present :
       registered[m] < registered[l] =>
         following[l] # TheSource /\ registered[m] <= registered[following[l]]
  /\ \A m \in Present :
       following[TheSource] # TheSource
       /\ registered[m] <= registered[following[TheSource]]

\* The loops
SourceFrames ==
  [what : {"call", "job_deleted"}, i : SourceObjects,
   callee : Listeners \union {NoObject}, due : SUBSET Nat, called : Seq(Nat)]

\* A loop has called who is to be called, as far as it has come.
FrameInv(f) ==
  /\ f.i \in living
  /\ f.callee # NoObject => f.i # f.callee
  /\ \A j \in 1..Len(f.called) : f.called[j] \in f.due
  /\ f.i # TheSource =>
       /\ \A m \in Present : registered[m] <= registered[f.i] => registered[m] \in f.due
       /\ \A j \in 1..Len(f.called) : registered[f.i] < f.called[j]
  /\ \A m \in Present :
       registered[m] \in f.due /\ (f.i = TheSource \/ registered[f.i] < registered[m]) =>
         \E j \in 1..Len(f.called) : f.called[j] = registered[m]
  /\ f.due \subseteq 0..listened
  /\ \A j, k \in 1..Len(f.called) : j < k => f.called[j] > f.called[k]

LoopsInv ==
  /\ loops \in Seq(SourceFrames)
  /\ \A n \in 1..Len(loops) : FrameInv(loops[n])
  /\ \A n \in 1..Len(loops) : n # Len(loops) => loops[n].what = "call"
  /\ "self" \in Acts => Len(loops) <= 1

SourceInv ==
  /\ SourceTypes /\ stale = FALSE
  /\ TheSource \notin living => loops = << >>
  /\ TheSource \in living => LinksInv /\ OrderInv /\ LoopsInv

LEMMA SourceFacts ==
  ASSUME SourceAssumption
  PROVE  /\ TheSource \notin Listeners /\ NoObject \notin SourceObjects
         /\ Source!Objects = SourceObjects
         /\ Acts \subseteq {"self", "add", "send"}
  BY DEF SourceAssumption, Source!IOSourceAssumption, Source!Objects, SourceObjects

\* addListener(): the new one is in front.
LEMMA SourcePush ==
  ASSUME SourceAssumption, SourceTypes, LinksInv, OrderInv, TheSource \in living,
         NEW l \in Listeners, Source!AddListener(l)
  PROVE  /\ SourceTypes' /\ LinksInv' /\ OrderInv'
         /\ living' = living \union {l} /\ l \notin living
         /\ listened' = listened + 1 /\ registered'[l] = listened + 1
         /\ \A m \in Listeners : m # l => registered'[m] = registered[m]
         /\ UNCHANGED <<loops, stale>>
  <1> USE SourceFacts DEF SourceTypes
  <1> DEFINE first == following[TheSource]
  <1>1. /\ l \notin living /\ living' = living \union {l} /\ listened' = listened + 1
        /\ registered' = [registered EXCEPT ![l] = listened + 1]
        /\ following' = [following EXCEPT ![l] = first, ![TheSource] = l]
        /\ preceding' = [preceding EXCEPT ![l] = TheSource, ![first] = l]
        /\ UNCHANGED <<loops, stale>>
    BY DEF Source!AddListener, Source!PushedFront
  <1>2. first \in living /\ first # l /\ preceding[first] = TheSource
        /\ l # TheSource /\ l \in SourceObjects
    BY <1>1 DEF LinksInv, SourceObjects
  <1>3. /\ following'[l] = first /\ following'[TheSource] = l
        /\ \A o \in SourceObjects : o \notin {l, TheSource} => following'[o] = following[o]
    BY <1>1, <1>2
  <1>4. /\ preceding'[l] = TheSource /\ preceding'[first] = l
        /\ \A o \in SourceObjects : o \notin {l, first} => preceding'[o] = preceding[o]
    BY <1>1, <1>2
  <1>5. /\ registered'[l] = listened + 1
        /\ \A m \in Listeners : m # l => registered'[m] = registered[m]
    BY <1>1
  <1>6. SourceTypes'
    BY <1>1, <1>2 DEF SourceObjects
  <1>7. LinksInv'
    <2> SUFFICES /\ \A o \in living' :
                      /\ following'[o] \in living' /\ preceding'[o] \in living'
                      /\ preceding'[following'[o]] = o /\ following'[preceding'[o]] = o
                 /\ \A o \in SourceObjects \ living' : preceding'[o] = NoObject
      BY DEF LinksInv
    <2> HIDE DEF first
    <2>1. \A o \in living : o # TheSource => following[o] # first
      BY <1>2 DEF LinksInv
    <2>2. \A o \in living : o # first => preceding[o] # TheSource
      BY DEF LinksInv, first
    <2>3. ASSUME NEW o \in living'
          PROVE  /\ following'[o] \in living' /\ preceding'[o] \in living'
                 /\ preceding'[following'[o]] = o /\ following'[preceding'[o]] = o
      <3>1. CASE o = l
        BY <1>1, <1>2, <1>3, <1>4, <3>1
      <3>2. CASE o = TheSource
        BY <1>1, <1>2, <1>3, <1>4, <2>2, <3>2 DEF LinksInv
      <3>3. CASE o \in living /\ o # TheSource
        <4>1. following'[o] = following[o] /\ following[o] \in living
              /\ following[o] \notin {l, first} /\ preceding[following[o]] = o
          BY <1>1, <1>2, <1>3, <2>1, <3>3 DEF LinksInv
        <4>2. preceding'[following'[o]] = o
          BY <1>4, <4>1
        <4>3. preceding'[o] \in living' /\ following'[preceding'[o]] = o
          <5>1. CASE o = first
            BY <1>1, <1>3, <1>4, <5>1
          <5>2. CASE o # first
            BY <1>1, <1>2, <1>3, <1>4, <2>2, <3>3, <5>2 DEF LinksInv
          <5> QED BY <5>1, <5>2
        <4> QED BY <1>1, <4>1, <4>2, <4>3
      <3> QED BY <1>1, <3>1, <3>2, <3>3
    <2>4. \A o \in SourceObjects \ living' : preceding'[o] = NoObject
      BY <1>1, <1>2, <1>4 DEF LinksInv
    <2> QED BY <2>3, <2>4
  <1>8. OrderInv'
    <2> HIDE DEF first
    <2>1. Present' = Present \union {l} /\ l \notin Present /\ Present \subseteq Listeners
          /\ \A m \in Present : registered[m] \in Nat /\ registered[m] <= listened
      BY <1>1, <1>2 DEF Present, OrderInv, SourceObjects
    <2>2. \A m \in Present : registered'[m] = registered[m] /\ following'[m] = following[m]
      BY <1>2, <1>3, <1>5, <2>1 DEF Present
    <2>3. \A m \in Present : following[m] # TheSource => following[m] \in Present
      BY DEF Present, LinksInv
    <2>4. first # TheSource => first \in Present
      BY <1>2 DEF Present
    <2>5. \A m \in Present' : registered'[m] <= listened'
      BY <1>1, <1>5, <2>1, <2>2
    <2>6. \A k, m \in Present' : registered'[k] = registered'[m] => k = m
      BY <1>5, <2>1, <2>2 DEF OrderInv
    <2>7. \A k \in Present' : following'[k] # TheSource =>
                             registered'[following'[k]] < registered'[k]
      BY <1>3, <1>5, <2>1, <2>2, <2>3, <2>4 DEF OrderInv
    <2>8. \A k, m \in Present' :
            registered'[m] < registered'[k] =>
              following'[k] # TheSource /\ registered'[m] <= registered'[following'[k]]
      <3> SUFFICES ASSUME NEW k \in Present', NEW m \in Present', registered'[m] < registered'[k]
                   PROVE  following'[k] # TheSource
                          /\ registered'[m] <= registered'[following'[k]]
        OBVIOUS
      <3>1. m # l
        BY <1>5, <2>1, <2>2
      <3>2. CASE k = l
        BY <1>3, <2>1, <2>2, <2>4, <3>1, <3>2 DEF OrderInv, first
      <3>3. CASE k # l
        BY <2>1, <2>2, <2>3, <3>1, <3>3 DEF OrderInv
      <3> QED BY <3>2, <3>3
    <2>9. \A m \in Present' : following'[TheSource] # TheSource
                           /\ registered'[m] <= registered'[following'[TheSource]]
      BY <1>2, <1>3, <1>5, <2>1, <2>2
    <2> QED BY <2>5, <2>6, <2>7, <2>8, <2>9 DEF OrderInv
  <1> QED BY <1>1, <1>5, <1>6, <1>7, <1>8

\* iList_remove()
LEMMA SourceUnlink ==
  ASSUME SourceAssumption, SourceTypes, LinksInv, OrderInv, TheSource \in living,
         NEW l \in Listeners, Source!Delete(l)
  PROVE  /\ SourceTypes' /\ LinksInv' /\ OrderInv'
         /\ living' = living \ {l} /\ l \in living
         /\ UNCHANGED <<listened, registered, loops, stale>>
  <1> USE SourceFacts DEF SourceTypes
  <1>1. l \in living /\ living' = living \ {l}
        /\ UNCHANGED <<listened, registered, loops, stale>>
    BY DEF Source!Delete
  <1> DEFINE p == preceding[l]
             n == following[l]
  <1>2. /\ p \in living /\ n \in living /\ following[p] = l /\ preceding[n] = l
        /\ l # TheSource /\ l \in Present /\ l \in SourceObjects
    BY <1>1 DEF LinksInv, Present, SourceObjects
  <1>3. n # l /\ p # l
    <2>1. n # TheSource => registered[n] < registered[l] /\ registered[l] \in Nat
      BY <1>2 DEF OrderInv
    <2>2. n # l
      BY <1>2, <2>1
    <2> QED BY <1>2, <2>2
  <1>4. /\ following' = [following EXCEPT ![p] = n, ![l] = NoObject]
        /\ preceding' = [preceding EXCEPT ![n] = p, ![l] = NoObject]
    BY <1>2 DEF Source!Delete, Source!Unlinked, Source!Linked
  <1> HIDE DEF p, n
  <1>5. /\ following'[p] = n /\ following'[l] = NoObject
        /\ \A o \in SourceObjects : o \notin {l, p} => following'[o] = following[o]
    BY <1>2, <1>3, <1>4
  <1>6. /\ preceding'[n] = p /\ preceding'[l] = NoObject
        /\ \A o \in SourceObjects : o \notin {l, n} => preceding'[o] = preceding[o]
    BY <1>2, <1>3, <1>4
  <1>7. SourceTypes'
    BY <1>1, <1>2, <1>4
  <1>8. LinksInv'
    <2> SUFFICES /\ \A o \in living' :
                      /\ following'[o] \in living' /\ preceding'[o] \in living'
                      /\ preceding'[following'[o]] = o /\ following'[preceding'[o]] = o
                 /\ \A o \in SourceObjects \ living' : preceding'[o] = NoObject
      BY DEF LinksInv
    <2>1. \A o \in living : following[o] = l => o = p
      BY DEF LinksInv, p
    <2>2. \A o \in living : preceding[o] = l => o = n
      BY DEF LinksInv, n
    <2>3. \A o \in living : following[o] = n => o = l
      BY <1>2 DEF LinksInv
    <2>4. \A o \in living : preceding[o] = p => o = l
      BY <1>2 DEF LinksInv
    <2>5. ASSUME NEW o \in living'
          PROVE  /\ following'[o] \in living' /\ preceding'[following'[o]] = o
      <3>1. CASE o = p
        BY <1>1, <1>2, <1>3, <1>5, <1>6, <3>1
      <3>2. CASE o # p
        BY <1>1, <1>2, <1>5, <1>6, <2>1, <2>3, <2>5, <3>2 DEF LinksInv
      <3> QED BY <3>1, <3>2
    <2>6. ASSUME NEW o \in living'
          PROVE  /\ preceding'[o] \in living' /\ following'[preceding'[o]] = o
      <3>1. CASE o = n
        BY <1>1, <1>2, <1>3, <1>5, <1>6, <3>1
      <3>2. CASE o # n
        BY <1>1, <1>2, <1>5, <1>6, <2>2, <2>4, <2>6, <3>2 DEF LinksInv
      <3> QED BY <3>1, <3>2
    <2>7. \A o \in SourceObjects \ living' : preceding'[o] = NoObject
      BY <1>1, <1>2, <1>6 DEF LinksInv
    <2> QED BY <2>5, <2>6, <2>7
  <1>9. OrderInv'
    <2>1. Present' = Present \ {l} /\ Present \subseteq Listeners
          /\ \A m \in Present : registered[m] \in Nat
      BY <1>1, <1>2 DEF Present, SourceObjects
    <2>2. /\ \A m \in Present' : m # p => following'[m] = following[m]
          /\ \A m \in Present : following[m] # TheSource => following[m] \in Present
      BY <1>1, <1>2, <1>5 DEF Present, LinksInv
    <2>3. n # TheSource => n \in Present /\ registered[n] < registered[l]
      BY <1>2 DEF Present, OrderInv, n
    <2>4. \A m \in Present' : registered[m] # registered[l]
      BY <1>2, <2>1 DEF OrderInv
    <2>5. \A m \in Present' : registered[m] < registered[l] =>
                             n # TheSource /\ registered[m] <= registered[n]
      BY <1>2, <2>1 DEF OrderInv, n
    <2>6. \A k \in Present' : following'[k] # TheSource =>
                             registered[following'[k]] < registered[k]
      <3> SUFFICES ASSUME NEW k \in Present', following'[k] # TheSource
                   PROVE  registered[following'[k]] < registered[k]
        OBVIOUS
      <3>1. CASE k # p
        BY <2>1, <2>2, <3>1 DEF OrderInv
      <3>2. CASE k = p
        BY <1>2, <1>5, <2>1, <2>3, <3>2 DEF OrderInv
      <3> QED BY <3>1, <3>2
    <2>7. \A k, m \in Present' :
            registered[m] < registered[k] =>
              following'[k] # TheSource /\ registered[m] <= registered[following'[k]]
      <3> SUFFICES ASSUME NEW k \in Present', NEW m \in Present', registered[m] < registered[k]
                   PROVE  following'[k] # TheSource
                          /\ registered[m] <= registered[following'[k]]
        OBVIOUS
      <3>1. CASE k # p
        BY <2>1, <2>2, <3>1 DEF OrderInv
      <3>2. CASE k = p
        <4>1. registered[m] <= registered[l]
          BY <1>2, <2>1, <3>2 DEF OrderInv
        <4>2. registered[m] < registered[l]
          BY <1>2, <2>1, <2>4, <4>1
        <4> QED BY <1>5, <2>5, <3>2, <4>2
      <3> QED BY <3>1, <3>2
    <2>8. \A m \in Present' : following'[TheSource] # TheSource
                           /\ registered[m] <= registered[following'[TheSource]]
      <3> SUFFICES ASSUME NEW m \in Present'
                   PROVE  following'[TheSource] # TheSource
                          /\ registered[m] <= registered[following'[TheSource]]
        OBVIOUS
      <3>1. CASE TheSource # p
        BY <1>2, <1>5, <2>1, <3>1 DEF OrderInv
      <3>2. CASE TheSource = p
        <4>1. registered[m] <= registered[l]
          BY <1>2, <2>1, <3>2 DEF OrderInv
        <4>2. registered[m] < registered[l]
          BY <1>2, <2>1, <2>4, <4>1
        <4> QED BY <1>5, <2>5, <3>2, <4>2
      <3> QED BY <3>1, <3>2
    <2> QED BY <1>1, <2>1, <2>6, <2>7, <2>8 DEF OrderInv
  <1> QED BY <1>1, <1>7, <1>8, <1>9


\* A loop does not mind that a listener is added,
LEMMA SourceAddFrame ==
  ASSUME SourceAssumption, SourceTypes, LinksInv, OrderInv, TheSource \in living,
         NEW l \in Listeners, Source!AddListener(l), NEW f \in SourceFrames, FrameInv(f)
  PROVE  FrameInv(f)'
  <1> USE SourceFacts
  <1>1. /\ living' = living \union {l} /\ l \notin living
        /\ listened' = listened + 1 /\ registered'[l] = listened + 1
        /\ \A m \in Listeners : m # l => registered'[m] = registered[m]
    BY SourcePush
  <1>2. listened \in Nat /\ Present' = Present \union {l} /\ l \notin Present /\ Present \subseteq Listeners
        /\ \A m \in Present : registered[m] \in Nat /\ registered[m] <= listened
                           /\ registered'[m] = registered[m]
    BY <1>1 DEF Present, SourceTypes, SourceObjects, OrderInv
  <1>3. f.i # TheSource => f.i \in Present
    BY DEF Present, FrameInv
  <1>4. f.due \subseteq 0..listened /\ f.i \in living
    BY DEF FrameInv
  <1>5. f.i # TheSource =>
          /\ \A m \in Present' : registered'[m] <= registered'[f.i] => registered'[m] \in f.due
          /\ \A j \in 1..Len(f.called) : registered'[f.i] < f.called[j]
    <2> SUFFICES ASSUME f.i \in Present
                 PROVE  /\ \A m \in Present' : registered'[m] <= registered'[f.i] =>
                                              registered'[m] \in f.due
                        /\ \A j \in 1..Len(f.called) : registered'[f.i] < f.called[j]
      BY <1>3
    <2>1. f.i # TheSource
      BY DEF Present
    <2>2. \A m \in Present : registered[m] <= registered[f.i] => registered[m] \in f.due
      BY <2>1 DEF FrameInv
    <2>3. \A j \in 1..Len(f.called) : registered[f.i] < f.called[j]
      BY <2>1 DEF FrameInv
    <2>4. ~(registered'[l] <= registered'[f.i])
      BY <1>1, <1>2
    <2> QED BY <1>2, <2>2, <2>3, <2>4
  <1>6. \A m \in Present' :
          registered'[m] \in f.due /\ (f.i = TheSource \/ registered'[f.i] < registered'[m]) =>
            \E j \in 1..Len(f.called) : f.called[j] = registered'[m]
    <2> SUFFICES ASSUME NEW m \in Present', registered'[m] \in f.due,
                        f.i = TheSource \/ registered'[f.i] < registered'[m]
                 PROVE  \E j \in 1..Len(f.called) : f.called[j] = registered'[m]
      OBVIOUS
    <2>1. m \in Present
      BY <1>1, <1>2, <1>4
    <2>2. registered[m] \in f.due /\ (f.i = TheSource \/ registered[f.i] < registered[m])
      BY <1>2, <1>3, <2>1
    <2> QED BY <1>2, <2>1, <2>2 DEF FrameInv
  <1>7. f.due \subseteq 0..listened'
    BY <1>1, <1>2, <1>4
  <1> QED BY <1>1, <1>4, <1>5, <1>6, <1>7 DEF FrameInv

\* or that another than the next is deleted.
LEMMA SourceDeleteFrame ==
  ASSUME SourceAssumption, SourceTypes, LinksInv, OrderInv, TheSource \in living,
         NEW l \in Listeners, Source!Delete(l), NEW f \in SourceFrames, FrameInv(f),
         f.i # l
  PROVE  FrameInv(f)'
  <1>1. living' = living \ {l} /\ UNCHANGED <<listened, registered>>
    BY SourceUnlink
  <1>2. Present' \subseteq Present
    BY <1>1 DEF Present
  <1> QED BY <1>1, <1>2 DEF FrameInv

\* A turn of the loop: the next one is called, and the one after it is next.
LEMMA SourceCallFrame ==
  ASSUME SourceAssumption, SourceTypes, LinksInv, OrderInv, TheSource \in living,
         NEW f \in SourceFrames, FrameInv(f), f.i # TheSource, NEW g \in SourceFrames,
         g.i = following[f.i], g.callee = f.i, g.due = f.due,
         g.called = Append(f.called, registered[f.i])
  PROVE  FrameInv(g)
  <1> USE SourceFacts
  <1>1. f.i \in Present /\ Present \subseteq Listeners
        /\ \A m \in Present : registered[m] \in Nat
    BY DEF Present, FrameInv, SourceTypes, SourceObjects
  <1>2. g.i \in living /\ (g.i # TheSource => g.i \in Present /\ registered[g.i] < registered[f.i])
    BY <1>1 DEF Present, LinksInv, OrderInv
  <1>3. g.i # g.callee
    BY <1>1, <1>2 DEF Present
  <1> DEFINE reg == registered[f.i]
             len == Len(f.called)
  <1>4. /\ f.called \in Seq(Nat) /\ len \in Nat /\ reg \in Nat
        /\ \A m \in Present : registered[m] <= reg => registered[m] \in f.due
        /\ \A j \in 1..len : reg < f.called[j] /\ f.called[j] \in f.due /\ f.called[j] \in Nat
        /\ \A j, k \in 1..len : j < k => f.called[j] > f.called[k]
    <2>1. f.called \in Seq(Nat)
      BY DEF SourceFrames
    <2>2. \A j \in 1..len : f.called[j] \in Nat
      BY <2>1
    <2>3. /\ \A m \in Present : registered[m] <= reg => registered[m] \in f.due
          /\ \A j \in 1..len : reg < f.called[j] /\ f.called[j] \in f.due
          /\ \A j, k \in 1..len : j < k => f.called[j] > f.called[k]
      BY DEF FrameInv
    <2> QED BY <1>1, <2>1, <2>2, <2>3
  <1>5. /\ Len(g.called) = len + 1 /\ g.called[len + 1] = reg
        /\ \A j \in 1..len : g.called[j] = f.called[j]
    BY <1>4
  <1>6. \A m \in Present :
          registered[m] \in f.due /\ reg < registered[m] =>
            \E j \in 1..len : f.called[j] = registered[m]
    BY DEF FrameInv
  <1>7. \A m \in Present : registered[m] < reg => g.i # TheSource /\ registered[m] <= registered[g.i]
    BY <1>1 DEF OrderInv
  <1>8. f.due \subseteq 0..listened
    BY DEF FrameInv
  <1> HIDE DEF reg, len
  <1>9. \A j \in 1..Len(g.called) : g.called[j] \in g.due
    BY <1>1, <1>4, <1>5 DEF reg
  <1>10. g.i # TheSource =>
           /\ \A m \in Present : registered[m] <= registered[g.i] => registered[m] \in g.due
           /\ \A j \in 1..Len(g.called) : registered[g.i] < g.called[j]
    BY <1>1, <1>2, <1>4, <1>5 DEF reg
  <1>11. \A m \in Present :
           registered[m] \in g.due /\ (g.i = TheSource \/ registered[g.i] < registered[m]) =>
             \E j \in 1..Len(g.called) : g.called[j] = registered[m]
    <2> SUFFICES ASSUME NEW m \in Present, registered[m] \in f.due,
                        g.i = TheSource \/ registered[g.i] < registered[m]
                 PROVE  \E j \in 1..len + 1 : g.called[j] = registered[m]
      BY <1>5
    <2>1. CASE reg < registered[m]
      BY <1>4, <1>5, <1>6, <2>1
    <2>2. CASE registered[m] = reg
      BY <1>4, <1>5, <2>2
    <2>3. CASE registered[m] < reg
      <3>1. g.i # TheSource /\ registered[m] <= registered[g.i]
        BY <1>7, <2>3
      <3>2. g.i \in Present /\ registered[g.i] < registered[m]
        BY <1>2, <3>1
      <3>3. registered[g.i] \in Nat /\ registered[m] \in Nat
        BY <1>1, <3>2
      <3> QED BY <3>1, <3>2, <3>3
    <2>4. reg \in Nat /\ registered[m] \in Nat
      BY <1>1, <1>4
    <2>5. reg < registered[m] \/ registered[m] = reg \/ registered[m] < reg
      BY <2>4
    <2> QED BY <2>1, <2>2, <2>3, <2>5
  <1>12. \A j, k \in 1..Len(g.called) : j < k => g.called[j] > g.called[k]
    BY <1>4, <1>5
  <1> QED BY <1>2, <1>3, <1>8, <1>9, <1>10, <1>11, <1>12 DEF FrameInv

\* A loop begins.
LEMMA SourceStartFrame ==
  ASSUME SourceAssumption, SourceTypes, LinksInv, OrderInv, TheSource \in living,
         NEW what \in {"call", "job_deleted"}
  PROVE  Source!Frame(what) \in SourceFrames /\ FrameInv(Source!Frame(what))
         /\ Source!Frame(what).what = what
  <1> USE SourceFacts
  <1>1. Present \subseteq Listeners /\ \A m \in Present : registered[m] \in Nat
    BY DEF Present, SourceTypes, SourceObjects
  <1>2. Source!Members = Present
    BY DEF Source!Members, Source!Linked, Present, LinksInv, SourceTypes, SourceObjects
  <1>3. following[TheSource] \in living
    BY DEF LinksInv
  <1>4. Source!Frame(what) =
          [what |-> what, i |-> following[TheSource], callee |-> NoObject,
           due |-> {registered[l] : l \in Present}, called |-> << >>]
    BY <1>2 DEF Source!Frame
  <1>5. {registered[l] : l \in Present} \subseteq 0..listened
    BY <1>1 DEF OrderInv, SourceTypes
  <1>6. Source!Frame(what) \in SourceFrames
    BY <1>3, <1>4, <1>5 DEF SourceFrames, SourceTypes
  <1>7. \A m \in Present : following[TheSource] # TheSource
                        /\ ~(registered[following[TheSource]] < registered[m])
    <2>1. \A m \in Present : following[TheSource] # TheSource
                          /\ registered[m] <= registered[following[TheSource]]
      BY DEF OrderInv
    <2>2. following[TheSource] # TheSource => following[TheSource] \in Present
      BY <1>3 DEF Present
    <2> QED BY <1>1, <2>1, <2>2
  <1>8. FrameInv(Source!Frame(what))
    BY <1>3, <1>4, <1>5, <1>7 DEF FrameInv
  <1> QED BY <1>4, <1>6, <1>8


-----------------------------------------------------------------------------
(* Each step *)

LEMMA SourceCount ==
  ASSUME LoopsInv
  PROVE  Len(loops) \in Nat /\ \A n \in 1..Len(loops) : loops[n] \in SourceFrames
  BY DEF LoopsInv

LEMMA SourceAdds ==
  ASSUME SourceAssumption, SourceInv, NEW l \in Listeners, Source!AddListener(l)
  PROVE  SourceInv'
  <1>1. TheSource \in living
    BY DEF Source!AddListener
  <1>2. SourceTypes /\ LinksInv /\ OrderInv /\ LoopsInv /\ stale = FALSE
    BY <1>1 DEF SourceInv
  <1>3. SourceTypes' /\ LinksInv' /\ OrderInv' /\ UNCHANGED <<loops, stale>>
        /\ living' = living \union {l}
    BY <1>1, <1>2, SourcePush
  <1>4. ASSUME NEW f \in SourceFrames, FrameInv(f)
        PROVE  FrameInv(f)'
    BY <1>1, <1>2, <1>4, SourceAddFrame
  <1>5. LoopsInv'
    <2>1. \A n \in 1..Len(loops) : FrameInv(loops[n])'
      <3> TAKE n \in 1..Len(loops)
      <3>1. PICK f \in SourceFrames : f = loops[n] /\ FrameInv(f)
        BY <1>2, SourceCount DEF LoopsInv
      <3>2. FrameInv(f)'
        BY <1>4, <3>1
      <3> QED BY <1>3, <3>1, <3>2
    <2> QED BY <1>2, <1>3, <2>1 DEF LoopsInv
  <1> QED BY <1>1, <1>2, <1>3, <1>5 DEF SourceInv

\* A listener goes: one that no loop is going to call next.
LEMMA SourceDeletes ==
  ASSUME SourceAssumption, SourceInv, NEW l \in Listeners, Source!Delete(l),
         \/ loops = << >>
         \/ "self" \in Acts /\ loops[1].callee = l
  PROVE  SourceInv'
  <1> USE SourceFacts
  <1>1. CASE TheSource \in living
    <2>1. SourceTypes /\ LinksInv /\ OrderInv /\ LoopsInv /\ stale = FALSE
      BY <1>1 DEF SourceInv
    <2>2. SourceTypes' /\ LinksInv' /\ OrderInv' /\ UNCHANGED <<loops, stale>>
          /\ living' = living \ {l}
      BY <1>1, <2>1, SourceUnlink
    <2>3. \A n \in 1..Len(loops) : loops[n].i # l
      <3>1. CASE loops = << >>
        BY <3>1
      <3>2. CASE "self" \in Acts /\ loops[1].callee = l
        <4>1. \A n \in 1..Len(loops) : n = 1
          BY <2>1, <3>2, SourceCount DEF LoopsInv
        <4>2. \A n \in 1..Len(loops) : loops[n].callee # NoObject => loops[n].i # loops[n].callee
          BY <2>1 DEF LoopsInv, FrameInv
        <4>3. l # NoObject
          BY DEF SourceObjects
        <4> QED BY <3>2, <4>1, <4>2, <4>3
      <3> QED BY <3>1, <3>2
    <2>4. ASSUME NEW f \in SourceFrames, FrameInv(f), f.i # l
          PROVE  FrameInv(f)'
      BY <1>1, <2>1, <2>4, SourceDeleteFrame
    <2>5. LoopsInv'
      <3>1. \A n \in 1..Len(loops) : FrameInv(loops[n])'
        <4> TAKE n \in 1..Len(loops)
        <4>1. PICK f \in SourceFrames : f = loops[n] /\ FrameInv(f) /\ f.i # l
          BY <2>1, <2>3, SourceCount DEF LoopsInv
        <4>2. FrameInv(f)'
          BY <2>4, <4>1
        <4> QED BY <2>2, <4>1, <4>2
      <3> QED BY <2>1, <2>2, <3>1 DEF LoopsInv
    <2>6. TheSource \in living'
      BY <1>1, <2>2
    <2> QED BY <2>1, <2>2, <2>5, <2>6 DEF SourceInv
  <1>2. CASE TheSource \notin living
    <2>1. SourceTypes /\ stale = FALSE /\ loops = << >>
      BY <1>2 DEF SourceInv
    <2>2. /\ living' = living \ {l} /\ UNCHANGED <<listened, registered, loops, stale>>
          /\ Source!Unlinked(l)
      BY DEF Source!Delete
    <2>3. l \in SourceObjects /\ following[l] \in SourceObjects \union {NoObject}
          /\ preceding[l] \in SourceObjects \union {NoObject}
      BY <2>1 DEF SourceObjects, SourceTypes
    <2>4. /\ following' \in [SourceObjects -> SourceObjects \union {NoObject}]
          /\ preceding' \in [SourceObjects -> SourceObjects \union {NoObject}]
      <3>1. CASE ~Source!Linked(l)
        BY <2>1, <2>2, <3>1 DEF Source!Unlinked, SourceTypes
      <3>2. CASE Source!Linked(l)
        BY <2>1, <2>2, <2>3, <3>2 DEF Source!Unlinked, SourceTypes
      <3> QED BY <3>1, <3>2
    <2>5. SourceTypes'
      BY <2>1, <2>2, <2>4 DEF SourceTypes
    <2>6. TheSource \notin living'
      BY <1>2, <2>2
    <2> QED BY <2>1, <2>2, <2>5, <2>6 DEF SourceInv
  <1> QED BY <1>1, <1>2

LEMMA SourceStarts ==
  ASSUME SourceAssumption, SourceInv, NEW what \in {"call", "job_deleted"},
         Source!Start(what), stale' = stale,
         loops = << >> \/ ("self" \notin Acts /\ what = "call")
  PROVE  SourceInv'
  <1>1. /\ TheSource \in living /\ loops' = <<Source!Frame(what)>> \o loops
        /\ UNCHANGED <<following, preceding, living, listened, registered>>
    BY DEF Source!Start
  <1>2. SourceTypes /\ LinksInv /\ OrderInv /\ LoopsInv /\ stale = FALSE
    BY <1>1 DEF SourceInv
  <1>3. PICK f \in SourceFrames : f = Source!Frame(what) /\ FrameInv(f) /\ f.what = what
    BY <1>1, <1>2, SourceStartFrame
  <1>4. \A g : FrameInv(g)' <=> FrameInv(g)
    BY <1>1 DEF FrameInv, Present
  <1>5. loops \in Seq(SourceFrames) /\ Len(loops) \in Nat
    BY <1>2 DEF LoopsInv
  <1>6. /\ loops' \in Seq(SourceFrames) /\ Len(loops') = Len(loops) + 1
        /\ loops'[1] = f /\ \A n \in 1..Len(loops') : n # 1 => loops'[n] = loops[n - 1]
    BY <1>1, <1>3, <1>5
  <1>7. LoopsInv'
    <2>1. ASSUME NEW n \in 1..Len(loops')
          PROVE  FrameInv(loops'[n])
      <3>1. CASE n = 1
        BY <1>3, <1>6, <3>1
      <3>2. CASE n # 1
        <4>1. n - 1 \in 1..Len(loops) /\ loops'[n] = loops[n - 1]
          BY <1>5, <1>6, <3>2
        <4>2. FrameInv(loops[n - 1])
          BY <1>2, <4>1 DEF LoopsInv
        <4> QED BY <4>1, <4>2
      <3> QED BY <3>1, <3>2
    <2>2. \A n \in 1..Len(loops') : FrameInv(loops[n])'
      BY <1>4, <2>1
    <2>3. \A n \in 1..Len(loops') : n # Len(loops') => loops'[n].what = "call"
      <3>1. CASE loops = << >>
        BY <1>6, <3>1
      <3>2. CASE what = "call"
        BY <1>2, <1>3, <1>5, <1>6, <3>2 DEF LoopsInv
      <3> QED BY <3>1, <3>2
    <2>4. "self" \in Acts => Len(loops') <= 1
      BY <1>5, <1>6
    <2> QED BY <1>6, <2>2, <2>3, <2>4 DEF LoopsInv
  <1>8. SourceTypes' /\ LinksInv' /\ OrderInv'
    BY <1>1, <1>2 DEF SourceTypes, LinksInv, OrderInv, Present
  <1> QED BY <1>1, <1>2, <1>7, <1>8 DEF SourceInv


LEMMA SourceCalls ==
  ASSUME SourceAssumption, SourceInv, Source!Call
  PROVE  SourceInv'
  <1> USE SourceFacts
  <1>1. loops # << >> /\ loops[1].i # TheSource
        /\ UNCHANGED <<following, preceding, living, listened, registered>>
    BY DEF Source!Call
  <1>2. SourceTypes /\ LinksInv /\ OrderInv /\ LoopsInv /\ stale = FALSE
        /\ TheSource \in living
    BY <1>1 DEF SourceInv
  <1>3. loops \in Seq(SourceFrames) /\ Len(loops) \in Nat \ {0}
    BY <1>1, <1>2 DEF LoopsInv
  <1>4. PICK f \in SourceFrames : f = loops[1] /\ FrameInv(f)
    BY <1>2, <1>3 DEF LoopsInv
  <1>5. f.i \in living /\ f.i # TheSource
    BY <1>1, <1>4 DEF FrameInv
  <1> DEFINE g == [f EXCEPT !.callee = f.i, !.i = following[f.i],
                            !.called = Append(f.called, registered[f.i])]
  <1>6. stale' = FALSE /\ loops' = [loops EXCEPT ![1] = g]
    <2>1. loops[1] = f /\ loops[1].i \in living
      BY <1>4, <1>5
    <2>2. stale' = stale
          /\ loops' = [loops EXCEPT ![1].callee = loops[1].i,
                                     ![1].i = Source!Advance(loops[1]),
                                     ![1].called = Append(@, registered[loops[1].i])]
      BY <2>1 DEF Source!Call
    <2>3. Source!Advance(loops[1]) = following[f.i]
      BY <2>1 DEF Source!Advance
    <2>4. loops' = [loops EXCEPT ![1].callee = f.i,
                                 ![1].i = following[f.i],
                                 ![1].called = Append(@, registered[f.i])]
      BY <2>1, <2>2, <2>3
    <2>5. 1 \in DOMAIN loops
      BY <1>3
    <2> QED BY <1>2, <2>1, <2>2, <2>4, <2>5
  <1>7. following[f.i] \in SourceObjects /\ registered[f.i] \in Nat
        /\ f.i \in Listeners /\ f.called \in Seq(Nat)
    BY <1>2, <1>5 DEF LinksInv, SourceTypes, SourceObjects, SourceFrames
  <1>8. g \in SourceFrames
    <2>1. Append(f.called, registered[f.i]) \in Seq(Nat)
      BY <1>7
    <2> QED BY <1>4, <1>7, <2>1 DEF SourceFrames
  <1>9. /\ g.i = following[f.i] /\ g.callee = f.i /\ g.due = f.due /\ g.what = f.what
        /\ g.called = Append(f.called, registered[f.i])
    BY <1>4 DEF SourceFrames
  <1> HIDE DEF g
  <1>10. FrameInv(g)
    BY <1>2, <1>4, <1>5, <1>8, <1>9, SourceCallFrame
  <1>11. \A h : FrameInv(h)' <=> FrameInv(h)
    BY <1>1 DEF FrameInv, Present
  <1>12. /\ loops' \in Seq(SourceFrames) /\ Len(loops') = Len(loops) /\ loops'[1] = g
         /\ \A n \in 1..Len(loops) : n # 1 => loops'[n] = loops[n]
    BY <1>3, <1>6, <1>8
  <1>13. LoopsInv'
    <2>1. \A n \in 1..Len(loops') : FrameInv(loops'[n])
      BY <1>2, <1>10, <1>12 DEF LoopsInv
    <2>2. \A n \in 1..Len(loops') : FrameInv(loops[n])'
      BY <1>11, <2>1
    <2>3. \A n \in 1..Len(loops') : n # Len(loops') => loops'[n].what = "call"
      BY <1>2, <1>4, <1>9, <1>12 DEF LoopsInv
    <2> QED BY <1>2, <1>12, <2>2, <2>3 DEF LoopsInv
  <1>14. SourceTypes' /\ LinksInv' /\ OrderInv'
    BY <1>1, <1>2 DEF SourceTypes, LinksInv, OrderInv, Present
  <1> QED BY <1>1, <1>2, <1>6, <1>13, <1>14 DEF SourceInv

LEMMA SourceReturns ==
  ASSUME SourceAssumption, SourceInv, Source!Return
  PROVE  SourceInv'
  <1> USE SourceFacts
  <1>1. loops # << >> /\ loops' = [loops EXCEPT ![1].callee = NoObject]
        /\ UNCHANGED <<following, preceding, living, stale, listened, registered>>
    BY DEF Source!Return, Source!Inside
  <1>2. SourceTypes /\ LinksInv /\ OrderInv /\ LoopsInv /\ stale = FALSE
        /\ TheSource \in living
    BY <1>1 DEF SourceInv
  <1>3. loops \in Seq(SourceFrames) /\ Len(loops) \in Nat \ {0}
    BY <1>1, <1>2 DEF LoopsInv
  <1>4. PICK f \in SourceFrames : f = loops[1] /\ FrameInv(f)
    BY <1>2, <1>3 DEF LoopsInv
  <1> DEFINE g == [f EXCEPT !.callee = NoObject]
  <1>5. loops' = [loops EXCEPT ![1] = g]
    BY <1>1, <1>3, <1>4
  <1>6. g \in SourceFrames
    BY DEF SourceFrames
  <1>7. /\ g.i = f.i /\ g.callee = NoObject /\ g.due = f.due /\ g.what = f.what
        /\ g.called = f.called
    BY DEF SourceFrames
  <1> HIDE DEF g
  <1>8. FrameInv(g)
    BY <1>4, <1>7 DEF FrameInv
  <1>9. \A h : FrameInv(h)' <=> FrameInv(h)
    BY <1>1 DEF FrameInv, Present
  <1>10. /\ loops' \in Seq(SourceFrames) /\ Len(loops') = Len(loops) /\ loops'[1] = g
         /\ \A n \in 1..Len(loops) : n # 1 => loops'[n] = loops[n]
    BY <1>3, <1>5, <1>6
  <1>11. LoopsInv'
    <2>1. \A n \in 1..Len(loops') : FrameInv(loops'[n])
      BY <1>2, <1>8, <1>10 DEF LoopsInv
    <2>2. \A n \in 1..Len(loops') : FrameInv(loops[n])'
      BY <1>9, <2>1
    <2>3. \A n \in 1..Len(loops') : n # Len(loops') => loops'[n].what = "call"
      BY <1>2, <1>4, <1>7, <1>10 DEF LoopsInv
    <2> QED BY <1>2, <1>10, <2>2, <2>3 DEF LoopsInv
  <1>12. SourceTypes' /\ LinksInv' /\ OrderInv'
    BY <1>1, <1>2 DEF SourceTypes, LinksInv, OrderInv, Present
  <1> QED BY <1>1, <1>2, <1>11, <1>12 DEF SourceInv

\* A loop ends; the last one may take the source with it.
LEMMA SourceEnds ==
  ASSUME SourceAssumption, SourceInv, Source!EndLoop
  PROVE  SourceInv'
  <1> USE SourceFacts
  <1>1. loops # << >> /\ loops' = Tail(loops) /\ UNCHANGED <<stale, listened, registered>>
    BY DEF Source!EndLoop
  <1>2. SourceTypes /\ LinksInv /\ OrderInv /\ LoopsInv /\ stale = FALSE
        /\ TheSource \in living
    BY <1>1 DEF SourceInv
  <1>3. loops \in Seq(SourceFrames) /\ Len(loops) \in Nat \ {0}
    BY <1>1, <1>2 DEF LoopsInv
  <1>4. /\ loops' \in Seq(SourceFrames) /\ Len(loops') = Len(loops) - 1
        /\ \A n \in 1..Len(loops') : loops'[n] = loops[n + 1]
    BY <1>1, <1>3
  <1>5. CASE loops[1].what = "job_deleted"
    <2>1. Len(loops) = 1
      <3>1. \A n \in 1..Len(loops) : n # Len(loops) => loops[n].what = "call"
        BY <1>2 DEF LoopsInv
      <3>2. 1 \in 1..Len(loops) /\ loops[1].what # "call"
        BY <1>3, <1>5
      <3> QED BY <1>3, <3>1, <3>2
    <2>2. loops' = << >>
      BY <1>4, <2>1
    <2>3. Source!Released /\ living' = living \ {TheSource}
      BY <1>5 DEF Source!EndLoop
    <2>4. SourceTypes'
      <3>1. /\ following' \in [SourceObjects -> SourceObjects \union {NoObject}]
            /\ preceding' \in [SourceObjects -> SourceObjects \union {NoObject}]
        BY <1>2, <2>3 DEF Source!Released, SourceTypes
      <3> QED BY <1>1, <1>2, <2>3, <3>1 DEF SourceTypes
    <2>5. TheSource \notin living'
      BY <2>3
    <2> QED BY <1>1, <1>2, <2>2, <2>4, <2>5 DEF SourceInv
  <1>6. CASE loops[1].what # "job_deleted"
    <2>1. UNCHANGED <<following, preceding, living>>
      BY <1>6 DEF Source!EndLoop
    <2>2. \A h : FrameInv(h)' <=> FrameInv(h)
      BY <1>1, <2>1 DEF FrameInv, Present
    <2>3. \A n \in 1..Len(loops') : n + 1 \in 1..Len(loops)
      BY <1>3, <1>4
    <2>4. \A n \in 1..Len(loops') : FrameInv(loops'[n])
      BY <1>2, <1>4, <2>3 DEF LoopsInv
    <2>5. \A n \in 1..Len(loops') : FrameInv(loops[n])'
      BY <2>2, <2>4
    <2>6. \A n \in 1..Len(loops') : n # Len(loops') => loops'[n].what = "call"
      <3> TAKE n \in 1..Len(loops')
      <3> HAVE n # Len(loops')
      <3>1. n + 1 \in 1..Len(loops) /\ n + 1 # Len(loops) /\ loops'[n] = loops[n + 1]
        BY <1>3, <1>4, <2>3
      <3> QED BY <1>2, <3>1 DEF LoopsInv
    <2>7. "self" \in Acts => Len(loops') <= 1
      BY <1>2, <1>3, <1>4 DEF LoopsInv
    <2>8. LoopsInv'
      BY <1>4, <2>5, <2>6, <2>7 DEF LoopsInv
    <2>9. SourceTypes' /\ LinksInv' /\ OrderInv'
      BY <1>1, <1>2, <2>1 DEF SourceTypes, LinksInv, OrderInv, Present
    <2> QED BY <1>1, <1>2, <2>1, <2>8, <2>9 DEF SourceInv
  <1> QED BY <1>5, <1>6

LEMMA SourceNext ==
  ASSUME SourceAssumption, SourceInv, [Source!Next]_(Source!vars)
  PROVE  SourceInv'
  <1> USE SourceFacts
  <1>1. CASE UNCHANGED Source!vars
    <2>1. UNCHANGED <<following, preceding, living, loops, stale, listened, registered>>
      BY <1>1 DEF Source!vars
    <2>2. \A h : FrameInv(h)' <=> FrameInv(h)
      BY <2>1 DEF FrameInv, Present
    <2>3. LoopsInv => LoopsInv'
      <3>1. ASSUME LoopsInv, NEW n \in 1..Len(loops)
            PROVE  FrameInv(loops[n])'
        BY <2>1, <2>2, <3>1 DEF LoopsInv
      <3> QED BY <2>1, <3>1 DEF LoopsInv
    <2> QED BY <2>1, <2>3 DEF SourceInv, SourceTypes, LinksInv, OrderInv, Present
  <1>2. ASSUME Source!Outside, NEW l \in Listeners, Source!AddListener(l) \/ Source!Delete(l)
        PROVE  SourceInv'
    BY <1>2, SourceAdds, SourceDeletes DEF Source!Outside
  <1>3. ASSUME Source!Outside, Source!Send \/ Source!DeleteSource
        PROVE  SourceInv'
    <2>1. loops = << >> /\ stale' = stale
      BY <1>3 DEF Source!Outside, Source!Send, Source!DeleteSource, Source!Start
    <2>2. \E what \in {"call", "job_deleted"} : Source!Start(what)
      BY <1>3 DEF Source!Send, Source!DeleteSource
    <2> QED BY <2>1, <2>2, SourceStarts
  <1>4. ASSUME Source!Act
        PROVE  SourceInv'
    <2>1. Source!Inside /\ TheSource \in living
      BY <1>4 DEF Source!Act, Source!Inside, SourceInv
    <2>2. CASE "self" \in Acts /\ Source!Delete(loops[1].callee)
      <3>1. loops \in Seq(SourceFrames) /\ Len(loops) \in Nat \ {0} /\ loops[1].callee # NoObject
        BY <2>1 DEF SourceInv, LoopsInv, Source!Inside
      <3>2. loops[1].callee \in Listeners
        <4>1. loops[1] \in SourceFrames
          BY <3>1
        <4> QED BY <3>1, <4>1 DEF SourceFrames
      <3> QED BY <2>2, <3>2, SourceDeletes
    <2>3. CASE \E l \in Listeners : Source!AddListener(l)
      BY <2>3, SourceAdds
    <2>4. CASE "send" \in Acts /\ Source!Send
      <3>1. Source!Start("call") /\ stale' = stale /\ "self" \notin Acts
        BY <2>4 DEF Source!Send, Source!Start, SourceAssumption
      <3> QED BY <3>1, SourceStarts
    <2> QED BY <1>4, <2>2, <2>3, <2>4 DEF Source!Act, SourceAssumption
  <1> QED BY <1>1, <1>2, <1>3, <1>4, SourceCalls, SourceReturns, SourceEnds
          DEF Source!Next

LEMMA SourceBegins ==
  ASSUME SourceAssumption, Source!Init
  PROVE  SourceInv
  <1> USE SourceFacts
  <1>1. /\ following = [o \in SourceObjects |-> IF o = TheSource THEN TheSource ELSE NoObject]
        /\ preceding = following /\ living = {TheSource} /\ loops = << >> /\ stale = FALSE
        /\ listened = 0 /\ registered = [l \in Listeners |-> 0]
    BY DEF Source!Init
  <1>2. SourceTypes
    BY <1>1 DEF SourceTypes, SourceObjects
  <1>3. LinksInv /\ OrderInv
    BY <1>1 DEF LinksInv, OrderInv, Present, SourceObjects
  <1>4. LoopsInv
    BY <1>1 DEF LoopsInv
  <1> QED BY <1>1, <1>2, <1>3, <1>4 DEF SourceInv


LEMMA SourceSafe ==
  ASSUME SourceAssumption
  PROVE  Source!Spec => []SourceInv
  <1> USE SourceFacts
  <1>1. Source!Init => SourceInv
    BY SourceBegins
  <1>2. SourceInv /\ [Source!Next]_(Source!vars) => SourceInv'
    BY SourceNext
  <1> QED BY <1>1, <1>2, PTL DEF Source!Spec

\* Who is on the list of a source that exists is who is registered.
LEMMA MembersArePresent ==
  ASSUME SourceAssumption, SourceInv, TheSource \in living
  PROVE  Source!Members = Present
  <1> USE SourceFacts
  <1>1. SourceTypes /\ LinksInv
    BY DEF SourceInv
  <1>2. ASSUME NEW l \in Listeners
        PROVE  preceding[l] # NoObject <=> l \in living
    <2>1. l \in living => preceding[l] \in SourceObjects
      BY <1>1 DEF LinksInv, SourceTypes
    <2>2. l \notin living => preceding[l] = NoObject
      BY <1>1 DEF LinksInv, SourceObjects
    <2> QED BY <2>1, <2>2 DEF SourceObjects
  <1>3. \A l : l \in Present <=> l \in Listeners /\ l \in living
    BY <1>1 DEF Present, SourceTypes, SourceObjects
  <1> QED BY <1>2, <1>3 DEF Source!Members, Source!Linked

\* The loop of IOSOURCE_SEND follows no link to an object that is gone: "It is
\* OK if any called object deletes itself in response to the call".  It is, as
\* long as no called method both sends something through the same source again
\* and deletes itself, and none ends the job.
THEOREM NobodyStaleIsCalled ==
  ASSUME SourceAssumption
  PROVE  Source!Spec => []Source!NoStaleCall
  <1>1. SourceInv => Source!NoStaleCall
    BY DEF SourceInv, Source!NoStaleCall
  <1> QED BY <1>1, SourceSafe, PTL

\* A loop of IOSOURCE_SEND calls only listeners that were registered when it
\* began, and when it ends it has called each of those that has not gone
\* meanwhile.
THEOREM AllAreCalled ==
  ASSUME SourceAssumption
  PROVE  Source!Spec => []Source!EachIsCalled
  <1> USE SourceFacts
  <1>1. ASSUME SourceInv
        PROVE  Source!EachIsCalled
    <2> SUFFICES ASSUME loops # << >>
                 PROVE  /\ Source!Range(loops[1].called) \subseteq loops[1].due
                        /\ loops[1].i = TheSource /\ loops[1].callee = NoObject =>
                             loops[1].due
                               \intersect {registered[l] : l \in Source!Members}
                             \subseteq Source!Range(loops[1].called)
      BY DEF Source!EachIsCalled
    <2>1. TheSource \in living /\ LoopsInv /\ SourceTypes
      BY <1>1 DEF SourceInv
    <2>2. PICK f \in SourceFrames : f = loops[1] /\ FrameInv(f)
      <3>1. loops \in Seq(SourceFrames) /\ 1 \in 1..Len(loops)
        BY <2>1 DEF LoopsInv
      <3> QED BY <2>1, <3>1 DEF LoopsInv
    <2>3. f.called \in Seq(Nat)
      BY DEF SourceFrames
    <2>4. \A c : c \in Source!Range(f.called) <=> \E j \in 1..Len(f.called) : f.called[j] = c
      BY <2>3 DEF Source!Range
    <2>5. Source!Range(f.called) \subseteq f.due
      BY <2>2, <2>4 DEF FrameInv
    <2>6. ASSUME f.i = TheSource, NEW c \in f.due,
                 c \in {registered[l] : l \in Source!Members}
          PROVE  c \in Source!Range(f.called)
      <3>1. PICK l \in Present : c = registered[l]
        BY <1>1, <2>1, <2>6, MembersArePresent
      <3>2. \E j \in 1..Len(f.called) : f.called[j] = registered[l]
        BY <2>2, <2>6, <3>1 DEF FrameInv
      <3> QED BY <2>4, <3>1, <3>2
    <2> QED BY <2>2, <2>5, <2>6
  <1> QED BY <1>1, SourceSafe, PTL

\* "it will be called before listeners that were registered earlier": each loop
\* under way has called the listeners from the newest to the oldest, and none
\* of them twice.
THEOREM NewestIsFirst ==
  ASSUME SourceAssumption
  PROVE  Source!Spec => []Source!NewestFirst
  <1> USE SourceFacts
  <1>1. ASSUME SourceInv
        PROVE  Source!NewestFirst
    <2> SUFFICES ASSUME NEW n \in DOMAIN loops,
                        NEW i \in DOMAIN loops[n].called, NEW j \in DOMAIN loops[n].called,
                        i < j
                 PROVE  loops[n].called[i] > loops[n].called[j]
      BY DEF Source!NewestFirst
    <2>1. LoopsInv
      BY <1>1 DEF SourceInv
    <2>2. loops \in Seq(SourceFrames) /\ n \in 1..Len(loops)
      BY <2>1 DEF LoopsInv
    <2>3. loops[n] \in SourceFrames /\ FrameInv(loops[n])
      BY <2>1, <2>2 DEF LoopsInv
    <2>4. loops[n].called \in Seq(Nat)
      BY <2>3 DEF SourceFrames
    <2> QED BY <2>3, <2>4 DEF FrameInv
  <1> QED BY <1>1, SourceSafe, PTL

\* As long as the source exists, the links of iList lead from each member to
\* the one registered just before it and back again: following a link and then
\* the other one returns to where one was, and the members that exist, and no
\* others, are on the list in the order of their registration.
THEOREM LinksAreRight ==
  ASSUME SourceAssumption
  PROVE  Source!Spec => [](TheSource \in living => LinksInv /\ OrderInv)
  <1>1. SourceInv => (TheSource \in living => LinksInv /\ OrderInv)
    BY DEF SourceInv
  <1> QED BY <1>1, SourceSafe, PTL
=============================================================================
