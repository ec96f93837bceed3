------------------------------- MODULE CachedUrl -------------------------------
(***************************************************************************)
(* Job::CachedUrl (src/job/cached-url.cc): files of the cache are read by  *)
(* an idle callback which all objects share.  It reads from the first of   *)
(* the active objects, in pieces that depend on the speed it has measured. *)
(*                                                                         *)
(* An object is known by its address: delete makes the address free, and   *)
(* the next object that is created may get it.  Speeds are unsigned, of    *)
(* Word values, and in units of what reads one piece.                      *)
(***************************************************************************)
EXTENDS Naturals, FiniteSets

CONSTANTS
  Addresses,        \* a subset of Nat: the order of pointers
  Priorities,
  Pieces,           \* pieces of a file
  MaxJobs,          \* bound: objects that are created
  MaxSources,       \* bound: idle sources at which no object is continued
  Deletes,          \* does the listener delete the object at its end?
  Retries,          \* ... and start the next in the same call, if it failed?
  Word, FirstSpeed, Speeds,
  CoarseClock       \* may two looks at the clock give the same time?

CachedUrlAssumption ==
  /\ Addresses \subseteq Nat /\ Priorities \subseteq Nat /\ Priorities # {}
  /\ Pieces \in Nat \ {0} /\ MaxJobs \in Nat /\ MaxSources \in Nat
  /\ Deletes \in BOOLEAN /\ Retries \in BOOLEAN /\ CoarseClock \in BOOLEAN
  /\ Word \in Nat \ {0} /\ FirstSpeed \in 1..(Word - 1)
  /\ Speeds \subseteq 0..(Word - 1) /\ Speeds # {}

VARIABLES
  job,              \* what is at each address
  active,           \* the addresses in the set
  sources,          \* idle sources that call spoolDataCallback()
  inside,           \* is one of them running?
  readSpeed,
  crashed,
  created,
  reused            \* history: objects that active.erase(x) has taken out since
                    \* they follow x at its address, until they are touched

vars == <<job, active, sources, inside, readSpeed, crashed, created, reused>>

\* state: "free", "paused" (also: not yet run), "running", "ended"
Free == [state |-> "free", left |-> 0, priority |-> 0]

Init ==
  /\ job = [a \in Addresses |-> Free] /\ active = {} /\ sources = 0
  /\ inside = FALSE /\ readSpeed = FirstSpeed /\ crashed = FALSE /\ created = 0
  /\ reused = {}

World == [job |-> job, active |-> active, sources |-> sources,
          created |-> created]

Becomes(w) ==
  /\ job' = w.job /\ active' = w.active /\ sources' = w.sources
  /\ created' = w.created

\* Mutant of New: one piece too many
NewLonger(w, a, priority) ==
  [w EXCEPT !.job[a] = [state |-> "paused", left |-> Pieces + 1,
                        priority |-> priority],
            !.created = @ + 1]

\* The constructor
New(w, a, priority) ==
  [w EXCEPT !.job[a] = [state |-> "paused", left |-> Pieces,
                        priority |-> priority],
            !.created = @ + 1]

\* Mutant of Cont: the callback is taken to be on already.
ContOff(w, a) ==
  [w EXCEPT !.active = @ \union {a}, !.job[a].state = "running"]

\* cont(), and run(); spoolDataCallbackId is always 0.
Cont(w, a) ==
  LET now == w.active \union {a}
  IN [w EXCEPT !.active = now, !.job[a].state = "running",
               !.sources = @ + (IF Cardinality(now) = 1 THEN 1 ELSE 0)]

Pause(w, a) == [w EXCEPT !.active = @ \ {a}, !.job[a].state = "paused"]

\* Mutant of Delete: the address stays in the set.
DeleteOnly(w, a) == [w EXCEPT !.job[a] = Free]

Delete(w, a) == [w EXCEPT !.job[a] = Free, !.active = @ \ {a}]

-----------------------------------------------------------------------------
(* spoolDataCallback() *)

\* The order of the set
Before(a, b) ==
  \/ job[a].priority < job[b].priority
  \/ job[a].priority = job[b].priority /\ a < b

First(a) == a \in active /\ \A b \in active \ {a} : Before(a, b)

\* The idle source is called.
Dispatch ==
  /\ ~crashed /\ ~inside /\ sources > 0
  /\ IF active = {} THEN sources' = sources - 1 /\ UNCHANGED inside
                    ELSE inside' = TRUE /\ UNCHANGED sources
  /\ UNCHANGED <<job, active, readSpeed, crashed, created, reused>>

\* What the listener does with the object that has ended: Child::job_succeeded()
\* and childFailed() of MakeImageDl.
Listeners(w, a, failed) ==
  LET ended == [w EXCEPT !.job[a].state = "ended"]
      deleted == Delete(ended, a)
      free == {b \in Addresses : deleted.job[b].state = "free"}
      next == {Cont(New(deleted, n.at, n.priority), n.at) :
                 n \in [at : free, priority : Priorities]}
  IN IF ~Deletes THEN {ended}
     ELSE {deleted} \union
            (IF failed /\ Retries /\ w.created < MaxJobs THEN next ELSE {})

\* Mutant of End: the object stays in the set.
EndStays(a, failed) ==
  \E w \in Listeners(World, a, failed) :
    Becomes(w) /\ inside' = FALSE /\ UNCHANGED reused

\* IOSOURCE_SEND, then active.erase(x), which compares priorities and then
\* pointers.  x may be deleted: what is found then is an object that the listener
\* has created at the same address.
End(a, failed) ==
  \E w \in Listeners(World, a, failed) :
    /\ Becomes([w EXCEPT !.active = @ \ {a}]) /\ inside' = FALSE
    /\ reused' = {b \in Addresses :
                    \/ b \in reused
                    \/ b = a /\ a \in w.active /\ w.job[a].state = "running"}

Fails(a) ==
  /\ ~crashed /\ inside /\ First(a) /\ End(a, TRUE)
  /\ UNCHANGED <<readSpeed, crashed>>

\* Nothing is read once the speed is 0.
Read(a) ==
  [job EXCEPT ![a].left = IF readSpeed = 0 THEN @ ELSE @ - 1]

EndOfFile(a) ==
  /\ ~crashed /\ inside /\ First(a) /\ readSpeed > 0 /\ job[a].left = 1
  /\ End(a, FALSE) /\ UNCHANGED <<readSpeed, crashed>>

\* A piece has been read, and there is no time left.
OutOfTime(a) ==
  /\ ~crashed /\ inside /\ First(a) /\ (readSpeed > 0 => job[a].left > 1)
  /\ job' = Read(a) /\ inside' = FALSE
  /\ UNCHANGED <<active, sources, readSpeed, crashed, created, reused>>

\* Mutant of Measured: the speed may be halved to nothing.
MeasuredHalved(newSpeed) == readSpeed \div 2

Doubled == (readSpeed * 2) % Word

\* The measured speed; "at most double or halve", modulo Word.
Measured(newSpeed) ==
  IF newSpeed < readSpeed \div 2 THEN readSpeed \div 2
  ELSE IF newSpeed > Doubled THEN Doubled ELSE newSpeed

\* A piece has been read; the loop goes on.
GoesOn(a) ==
  /\ ~crashed /\ inside /\ First(a) /\ (readSpeed > 0 => job[a].left > 1)
  /\ job' = Read(a)
  /\ \E newSpeed \in (IF readSpeed = 0 THEN {0} ELSE Speeds) :
       readSpeed' = Measured(newSpeed)
  /\ UNCHANGED <<active, sources, inside, crashed, created, reused>>

\* timeTaken = 0: division by zero
NoTime(a) ==
  /\ CoarseClock /\ ~crashed /\ inside /\ First(a) /\ job[a].left > 1
  /\ crashed' = TRUE
  /\ UNCHANGED <<job, active, sources, inside, readSpeed, created, reused>>

-----------------------------------------------------------------------------
(* The users of CachedUrl, from the main loop *)

\* What a user of the object at a leaves alone
Touched(a) == reused' = reused \ {a} /\ UNCHANGED <<inside, readSpeed, crashed>>

Create(a, priority) ==
  /\ ~crashed /\ ~inside /\ job[a].state = "free" /\ created < MaxJobs
  /\ Becomes(New(World, a, priority)) /\ Touched(a)

Continue(a) ==
  /\ ~crashed /\ ~inside /\ job[a].state = "paused" /\ sources < MaxSources
  /\ Becomes(Cont(World, a)) /\ Touched(a)

Suspend(a) ==
  /\ ~crashed /\ ~inside /\ job[a].state = "running"
  /\ Becomes(Pause(World, a)) /\ Touched(a)

Remove(a) ==
  /\ ~crashed /\ ~inside /\ job[a].state # "free"
  /\ Becomes(Delete(World, a)) /\ Touched(a)

Spool ==
  \/ Dispatch
  \/ \E a \in Addresses :
       Fails(a) \/ EndOfFile(a) \/ OutOfTime(a) \/ GoesOn(a) \/ NoTime(a)

Users ==
  \E a \in Addresses :
    \/ \E priority \in Priorities : Create(a, priority)
    \/ Continue(a) \/ Suspend(a) \/ Remove(a)

\* The main loop waits.
Waits == (sources = 0 \/ crashed) /\ UNCHANGED vars

Next == Spool \/ Users \/ Waits

Spec == Init /\ [][Next]_vars

\* When the main loop is idle it calls the idle sources.
FairSpec == Spec /\ WF_vars(Spool)

-----------------------------------------------------------------------------
(* Properties *)

TypeOK ==
  /\ job \in [Addresses -> [state : {"free", "paused", "running", "ended"},
                            left : 0..Pieces, priority : Priorities \union {0}]]
  /\ active \subseteq Addresses /\ sources \in Nat /\ inside \in BOOLEAN
  /\ readSpeed \in 0..(Word - 1) /\ crashed \in BOOLEAN /\ created \in 0..MaxJobs
  /\ reused \subseteq Addresses

\* The set holds only objects that run, in particular no pointer to an object
\* that is gone.  An object that runs is missing in it only if it has got the address
\* of one whose end was being told at that time, and nobody has paused it since.
ActiveRuns ==
  LET running == {a \in Addresses : job[a].state = "running"}
  IN ~crashed => running = active \union reused /\ active \intersect reused = {}

\* As long as there is something to read, the main loop calls the callback.
SourceWhileActive == active # {} => sources > 0

\* There is never more than one idle source: "glib event source ID for above"
OneSource == sources <= 1

\* An object does not run; again and again, as one that runs gets to its end, if
\* nobody pauses it and it is not taken out of the set by mistake.
Delivered(a) == job[a].state # "running" \/ a \in reused

\* "keep adjusting the size depending on the measured read speed": to
\* something that can be read
SpeedPositive == readSpeed > 0

NoDivisionByZero == ~crashed
=============================================================================
