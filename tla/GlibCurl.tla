------------------------------ MODULE GlibCurl ------------------------------
(***************************************************************************)
(* src/glibcurl/glibcurl.c as it is built for Windows: libcurl inside the  *)
(* main loop of glib, with the help of a thread that calls select().  The  *)
(* thread and the GTK thread hand a mutex back and forth: while one of     *)
(* them is inside libcurl or select(), the other one must not be.          *)
(*                                                                         *)
(* A transfer is a number of calls of curl_multi_perform() that it still   *)
(* needs.  A call that cannot be observed by the other thread is part of   *)
(* the step before it.                                                     *)
(***************************************************************************)
EXTENDS Naturals, TLAPS

CONSTANTS
  Transfers,
  MaxLeft,          \* bound: performs that a transfer needs
  MaxAdds           \* bound: transfers that are added

ASSUME GlibCurlAssumption ==
  MaxLeft \in Nat \ {0} /\ MaxAdds \in Nat

VARIABLES
  gtk,              \* where the GTK thread is
  thread,           \* where the select thread is; "none": selectThread == NULL
  mutex,            \* who holds it
  callPerform, gtkBlockAndWait, selectRunning,
  woken,            \* has g_main_context_wakeup() been called?
  left,             \* transfer -> performs needed; 0: not in the multi handle
  adds,             \* how many were added
  overtaken,        \* history: how often prepare() took the mutex for
                    \* callPerform while there was a select thread
  skipped           \* history: was that thread about to end?

vars == <<gtk, thread, mutex, callPerform, gtkBlockAndWait, selectRunning,
          woken, left, adds, overtaken, skipped>>
history == <<overtaken, skipped>>

GtkStates == {"poll", "prepare", "lock", "lock2", "dispatch", "callback",
              "cleanup", "cleanup-signal", "cleanup-test", "end"}
ThreadStates == {"none", "new", "select", "pre-wait", "wait", "post-wait"}

Active == {t \in Transfers : left[t] > 0}

\* glibcurl_init()
Init ==
  /\ gtk = "poll" /\ thread = "none" /\ mutex = "free"
  /\ callPerform = FALSE /\ gtkBlockAndWait = 0 /\ selectRunning = FALSE
  /\ woken = FALSE /\ left = [t \in Transfers |-> 0] /\ adds = 0
  /\ overtaken = 0 /\ skipped = FALSE

-----------------------------------------------------------------------------
(* The program: it adds and removes transfers at any time, in other callbacks *)
(* of the main loop (which come between prepare() and dispatch(), too) and    *)
(* when it is told of the end of a transfer.                                  *)

MainLoop == {"poll", "prepare", "dispatch", "callback"}

\* A callback has been called, and poll() returns for that.
WokenBy(place) == woken \/ place = "poll"

\* glibcurl_add()
Add(t) ==
  /\ gtk \in MainLoop
  /\ left[t] = 0 /\ left' = [left EXCEPT ![t] = MaxLeft]
  /\ adds < MaxAdds /\ adds' = adds + 1
  /\ callPerform' = TRUE /\ woken' = WokenBy(gtk)
  /\ UNCHANGED <<gtk, thread, mutex, gtkBlockAndWait, selectRunning, history>>

\* glibcurl_remove()
Remove(t) ==
  /\ gtk \in MainLoop
  /\ left[t] > 0 /\ left' = [left EXCEPT ![t] = 0] /\ woken' = WokenBy(gtk)
  /\ UNCHANGED <<gtk, thread, mutex, callPerform, gtkBlockAndWait,
                 selectRunning, adds, history>>

-----------------------------------------------------------------------------
(* The GTK thread *)

\* poll() of the main loop returns.
Poll ==
  /\ gtk = "poll" /\ woken
  /\ woken' = FALSE /\ gtk' = "prepare"
  /\ UNCHANGED <<thread, mutex, callPerform, gtkBlockAndWait, selectRunning,
                 left, adds, history>>

\* Mutant of Consume: the request of the select thread is not taken back.
ConsumeNot(n) == n

Consume(n) == n - 1

\* Mutant of Restore: no g_atomic_int_inc() if there was no request.
RestoreNot(n) == n - 1

Restore(n) == n

\* prepare(), as far as the locks
Prepare ==
  /\ gtk = "prepare"
  /\ gtkBlockAndWait' =
       IF gtkBlockAndWait = 1 THEN Consume(gtkBlockAndWait)
                                ELSE Restore(gtkBlockAndWait)
  /\ gtk' = CASE gtkBlockAndWait = 1 -> "lock"
              [] gtkBlockAndWait # 1 /\ callPerform -> "lock2"
              [] OTHER -> "poll"
  /\ UNCHANGED <<thread, mutex, callPerform, selectRunning, woken, left, adds, history>>

\* Mutant of Acquire: the mutex is not waited for.
AcquireAnyway == mutex \in {"free", "select"} /\ mutex' = "gtk"

Acquire == mutex = "free" /\ mutex' = "gtk"

\* "The select thread wants us to block"
Lock ==
  /\ gtk = "lock" /\ Acquire /\ gtk' = "dispatch"
  /\ UNCHANGED <<thread, callPerform, gtkBlockAndWait, selectRunning, woken,
                 left, adds, history>>

\* Mutant of Lock2: the flag stays set.
Lock2Again ==
  /\ gtk = "lock2" /\ Acquire /\ gtk' = "dispatch"
  /\ thread' = IF thread = "none" THEN "new" ELSE thread
  /\ UNCHANGED <<callPerform, gtkBlockAndWait, selectRunning, woken, left, adds,
                 history>>

\* "1st download just starting", or another one: the thread that is there goes
\* on or ends as it was told.
Lock2 ==
  /\ gtk = "lock2" /\ Acquire /\ gtk' = "dispatch"
  /\ callPerform' = FALSE
  /\ thread' = IF thread = "none" THEN "new" ELSE thread
  /\ overtaken' = IF thread = "none" THEN overtaken ELSE overtaken + 1
  /\ skipped' = (skipped \/ (thread = "post-wait" /\ ~selectRunning))
  /\ UNCHANGED <<gtkBlockAndWait, selectRunning, woken, left, adds>>

\* Mutants of Running: the select thread goes on without transfers, or ends
\* although there are some.
RunningOn(active) == selectRunning
RunningNot(active) == FALSE

\* selectRunning after a call of curl_multi_perform()
Running(active) == selectRunning /\ active # {}

\* dispatch(), as far as the callback
Dispatch ==
  /\ gtk = "dispatch"
  /\ left' = [t \in Transfers |-> IF left[t] > 0 THEN left[t] - 1 ELSE 0]
  /\ selectRunning' = Running({t \in Transfers : left[t] > 1})
  /\ gtk' = "callback"
  /\ UNCHANGED <<thread, mutex, callPerform, gtkBlockAndWait, woken, adds, history>>

\* Mutant of Signalled: no signal after dispatch().
SignalledNot(th) == th

\* g_cond_signal()
Signalled(th) == IF th = "wait" THEN "post-wait" ELSE th

\* The rest of dispatch(), after the callback
Callback ==
  /\ gtk = "callback"
  /\ thread' = Signalled(thread) /\ mutex' = "free" /\ gtk' = "prepare"
  /\ UNCHANGED <<callPerform, gtkBlockAndWait, selectRunning, woken, left, adds,
                 history>>

-----------------------------------------------------------------------------
(* selectThread() *)

\* As far as select()
ThreadStart ==
  /\ thread = "new" /\ mutex = "free"
  /\ mutex' = "select" /\ selectRunning' = TRUE /\ thread' = "select"
  /\ UNCHANGED <<gtk, callPerform, gtkBlockAndWait, woken, left, adds, history>>

\* g_atomic_int_inc(); glibcurl_cleanup(), which does not look at the number,
\* could let it grow beyond this bound.
Request(n) == IF n < MaxAdds + 2 THEN n + 1 ELSE n

\* select() returns: something is to be read, or the timeout.
Select ==
  /\ thread = "select"
  /\ gtkBlockAndWait' = Request(gtkBlockAndWait) /\ woken' = TRUE
  /\ thread' = "pre-wait"
  /\ UNCHANGED <<gtk, mutex, callPerform, selectRunning, left, adds, history>>

\* g_cond_wait()
CondWait ==
  /\ thread = "pre-wait" /\ thread' = "wait" /\ mutex' = "free"
  /\ UNCHANGED <<gtk, callPerform, gtkBlockAndWait, selectRunning, woken,
                 left, adds, history>>

\* g_cond_wait() returns: next round, or the end.
Relock ==
  /\ thread = "post-wait" /\ mutex = "free"
  /\ IF selectRunning THEN mutex' = "select" /\ thread' = "select"
                      ELSE mutex' = "free" /\ thread' = "none"
  /\ UNCHANGED <<gtk, callPerform, gtkBlockAndWait, selectRunning, woken,
                 left, adds, history>>

-----------------------------------------------------------------------------
(* glibcurl_cleanup() *)

Cleanup ==
  /\ gtk = "poll" /\ Active = {} /\ gtk' = "cleanup"
  /\ UNCHANGED <<thread, mutex, callPerform, gtkBlockAndWait, selectRunning,
                 woken, left, adds, history>>

CleanupLock ==
  /\ gtk = "cleanup" /\ mutex = "free"
  /\ selectRunning' = FALSE
  /\ gtk' = IF thread = "none" THEN "end" ELSE "cleanup-signal"
  /\ UNCHANGED <<thread, mutex, callPerform, gtkBlockAndWait, woken, left, adds, history>>

CleanupSignal ==
  /\ gtk = "cleanup-signal" /\ gtk' = "cleanup-test"
  /\ thread' = Signalled(thread)
  /\ UNCHANGED <<mutex, callPerform, gtkBlockAndWait, selectRunning, woken,
                 left, adds, history>>

CleanupTest ==
  /\ gtk = "cleanup-test" /\ mutex = "free"
  /\ gtk' = IF thread = "none" THEN "end" ELSE "cleanup-signal"
  /\ UNCHANGED <<thread, mutex, callPerform, gtkBlockAndWait, selectRunning,
                 woken, left, adds, history>>

-----------------------------------------------------------------------------
GtkStep == \/ Poll \/ Prepare \/ Lock \/ Lock2 \/ Dispatch \/ Callback
           \/ CleanupLock \/ CleanupSignal \/ CleanupTest
ThreadStep == ThreadStart \/ Select \/ CondWait \/ Relock
Program == Cleanup \/ \E t \in Transfers : Add(t) \/ Remove(t)

Closing == {"cleanup-signal", "cleanup-test", "end"}

\* The process has ended, and with it all threads.
Ended == gtk = "end" /\ UNCHANGED vars

Next == GtkStep \/ ThreadStep \/ Program \/ Ended

Spec == Init /\ [][Next]_vars

\* Both threads are scheduled, and the mutex is given to a thread that waits
\* for it again and again.
FairSpec ==
  /\ Spec /\ WF_vars(GtkStep) /\ WF_vars(ThreadStep)
  /\ SF_vars(Lock) /\ SF_vars(Lock2) /\ SF_vars(ThreadStart) /\ SF_vars(Relock)
  /\ SF_vars(CleanupTest)

-----------------------------------------------------------------------------
(* Properties *)

TypeOK ==
  /\ gtk \in GtkStates /\ thread \in ThreadStates
  /\ mutex \in {"free", "gtk", "select"}
  /\ callPerform \in BOOLEAN /\ gtkBlockAndWait \in 0..MaxAdds + 2
  /\ selectRunning \in BOOLEAN /\ woken \in BOOLEAN
  /\ left \in [Transfers -> 0..MaxLeft] /\ adds \in 0..MaxAdds
  /\ overtaken \in Nat /\ skipped \in BOOLEAN

\* libcurl is not thread safe: the GTK thread performs transfers and takes
\* messages out only while the select thread is not between its call of
\* curl_multi_fdset() and the end of select().
NeverBothInside ==
  ~(gtk \in {"dispatch", "callback"} /\ thread \in {"select", "pre-wait"})

\* "GTK thread, block!", whatever is added when: there is at most one request
\* of the select thread that prepare() has not taken back, and one more for each
\* time that prepare() took the mutex for glibcurl_add() while that thread was
\* there.  So Request never gets to its bound.
RequestsCounted ==
  gtk \notin Closing => gtkBlockAndWait =< 1 + overtaken /\ overtaken =< adds

\* glibcurl_start() "is necessary to start new requests": whatever is added and
\* removed when, a transfer in the multi handle is somebody's business, unless
\* prepare() found selectThread # NULL although that thread was about to end.
NotForgotten ==
  Active # {} =>
    \/ callPerform \/ gtk \in {"dispatch", "callback"}
    \/ thread # "none" /\ (thread = "post-wait" => selectRunning)
    \/ skipped

\* Two requests: the second is one that prepare(), which compares with 1, does
\* not see.
LeftOver == gtkBlockAndWait > 1

\* "GTK thread will almost immediately block in prepare()", "continue after it
\* signals us": the select thread does not wait for ever while there are
\* transfers.
ThreadGoesOn ==
  (thread = "wait" /\ Active # {}) ~> (thread # "wait" \/ Active = {})

\* It does not, unless there is a request left over.
ThreadAnswered ==
  (thread = "wait" /\ Active # {}) ~> (thread # "wait" \/ Active = {} \/ LeftOver)

\* Each transfer that was added is performed until it ends, with others beside
\* it and after it, unless the two cases above occur.
TransferEnds == \A t \in Transfers : left[t] > 0 ~> left[t] = 0 \/ LeftOver \/ skipped

\* Without transfers there is no thread that wakes up the GTK thread again
\* and again.
ThreadEnds == []<>(Active # {}) \/ []<>(thread = "none") \/ <>LeftOver

\* "Make the select thread shut down", "Wait until it has shut down": the
\* clean-up ends, unless it begins before the select thread has come to its
\* first line: that thread then sets selectRunning after it was told to end.
CleanupEnds == (gtk = "cleanup" /\ thread # "new") ~> gtk = "end"

-----------------------------------------------------------------------------
(* Proofs, for any number of transfers and whatever the program does: types, *)
(* and that the two threads are never inside libcurl and select() at the     *)
(* same time.                                                                *)

\* Each thread is where it needs the mutex exactly while it holds it.
MutexRight ==
  /\ gtk \in {"dispatch", "callback"} <=> mutex = "gtk"
  /\ thread \in {"select", "pre-wait"} <=> mutex = "select"

\* The types: each step of the two threads and of the program leaves the
\* variables in their ranges.
THEOREM TypeCorrect == Spec => []TypeOK
<1> MaxLeft \in Nat /\ MaxAdds \in Nat
  BY GlibCurlAssumption
<1>1. ASSUME Init PROVE TypeOK
  <2>1. left \in [Transfers -> 0..MaxLeft]
    BY <1>1 DEF Init
  <2>2. gtkBlockAndWait \in 0..MaxAdds + 2 /\ adds \in 0..MaxAdds
    BY <1>1 DEF Init
  <2> QED
    BY <1>1, <2>1, <2>2 DEF Init, TypeOK, GtkStates, ThreadStates
<1>2. TypeOK /\ [Next]_vars => TypeOK'
  <2> SUFFICES ASSUME TypeOK, [Next]_vars PROVE TypeOK'
    OBVIOUS
  <2> USE DEF TypeOK, GtkStates, ThreadStates, history
  <2>1. ASSUME NEW t \in Transfers, Add(t) PROVE TypeOK'
    BY <2>1 DEF Add, WokenBy
  <2>2. ASSUME NEW t \in Transfers, Remove(t) PROVE TypeOK'
    BY <2>2 DEF Remove, WokenBy
  <2>3. CASE Poll
    BY <2>3 DEF Poll
  <2>4. CASE Prepare
    <3>1. gtk' \in {"lock", "lock2", "poll"}
      BY <2>4 DEF Prepare
    <3>2. gtkBlockAndWait' \in 0..MaxAdds + 2
      BY <2>4 DEF Prepare, Consume, Restore
    <3> QED
      BY <2>4, <3>1, <3>2 DEF Prepare
  <2>5. CASE Lock
    BY <2>5 DEF Lock, Acquire
  <2>6. CASE Lock2
    <3>1. overtaken' \in Nat /\ skipped' \in BOOLEAN
      BY <2>6 DEF Lock2
    <3> QED
      BY <2>6, <3>1 DEF Lock2, Acquire
  <2>7. CASE Dispatch
    <3>1. left' \in [Transfers -> 0..MaxLeft]
      <4>1. \A t \in Transfers :
              (IF left[t] > 0 THEN left[t] - 1 ELSE 0) \in 0..MaxLeft
        OBVIOUS
      <4> QED
        BY <2>7, <4>1 DEF Dispatch
    <3>2. selectRunning' \in BOOLEAN
      BY <2>7 DEF Dispatch, Running
    <3> QED
      BY <2>7, <3>1, <3>2 DEF Dispatch
  <2>8. CASE Callback
    <3>1. thread' \in ThreadStates
      BY <2>8 DEF Callback, Signalled
    <3> QED
      BY <2>8, <3>1 DEF Callback
  <2>9. CASE ThreadStart
    BY <2>9 DEF ThreadStart
  <2>10. CASE Select
    <3>1. gtkBlockAndWait' \in 0..MaxAdds + 2
      BY <2>10 DEF Select, Request
    <3> QED
      BY <2>10, <3>1 DEF Select
  <2>11. CASE CondWait
    BY <2>11 DEF CondWait
  <2>12. CASE Relock
    BY <2>12 DEF Relock
  <2>13. CASE Cleanup
    BY <2>13 DEF Cleanup
  <2>14. CASE CleanupLock
    BY <2>14 DEF CleanupLock
  <2>15. CASE CleanupSignal
    BY <2>15 DEF CleanupSignal, Signalled
  <2>16. CASE CleanupTest
    BY <2>16 DEF CleanupTest
  <2>17. CASE UNCHANGED vars
    BY <2>17 DEF vars
  <2> QED
    BY <2>1, <2>2, <2>3, <2>4, <2>5, <2>6, <2>7, <2>8, <2>9, <2>10, <2>11,
       <2>12, <2>13, <2>14, <2>15, <2>16, <2>17
    DEF Next, GtkStep, ThreadStep, Program, Ended
<1> QED
  BY <1>1, <1>2, PTL DEF Spec

\* A step leaves each thread in a place that agrees with the mutex: only one
\* that finds it free gets past the locks.
LEMMA MutexStep ==
  ASSUME TypeOK, MutexRight, [Next]_vars PROVE MutexRight'
<1> USE DEF TypeOK, GtkStates, ThreadStates, MutexRight
<1>1. ASSUME NEW t \in Transfers, Add(t) \/ Remove(t) PROVE MutexRight'
  BY <1>1 DEF Add, Remove
<1>2. CASE Poll \/ Cleanup \/ CleanupLock \/ CleanupTest
  BY <1>2 DEF Poll, Cleanup, CleanupLock, CleanupTest
<1>3. CASE Prepare
  <2>1. gtk' \in {"lock", "lock2", "poll"}
    BY <1>3 DEF Prepare
  <2> QED
    BY <1>3, <2>1 DEF Prepare
<1>4. CASE Lock \/ Lock2
  BY <1>4 DEF Lock, Lock2, Acquire
<1>5. CASE Dispatch
  BY <1>5 DEF Dispatch
<1>6. CASE Callback
  BY <1>6 DEF Callback, Signalled
<1>7. CASE ThreadStep
  BY <1>7 DEF ThreadStep, ThreadStart, Select, CondWait, Relock
<1>8. CASE CleanupSignal
  BY <1>8 DEF CleanupSignal, Signalled
<1>9. CASE UNCHANGED vars
  BY <1>9 DEF vars
<1> QED
  BY <1>1, <1>2, <1>3, <1>4, <1>5, <1>6, <1>7, <1>8, <1>9
  DEF Next, GtkStep, Program, Ended

\* The two threads exclude each other: whatever is added or removed when, no
\* call of curl_multi_perform() or of the callback overlaps the part of
\* selectThread() from curl_multi_fdset() to g_cond_wait().
THEOREM Exclusion == Spec => []NeverBothInside
<1>1. Init => MutexRight
  BY DEF Init, MutexRight
<1>2. TypeOK /\ MutexRight /\ [Next]_vars => MutexRight'
  BY MutexStep
<1>3. MutexRight => NeverBothInside
  BY DEF MutexRight, NeverBothInside
<1> QED
  BY TypeCorrect, <1>1, <1>2, <1>3, PTL DEF Spec
-----------------------------------------------------------------------------
(* Requests and answers, whatever is added and removed when: how many requests *)
(* can be left over, and which transfers can be forgotten.                     *)

\* A thread that waits has made one request, and so has each one whose request
\* was overtaken; prepare() compares with 1, so it may take back a request that
\* is not of the round that it answers.
RequestsRight ==
  /\ gtk \notin Closing =>
       /\ gtkBlockAndWait =< 1 + overtaken
       /\ thread \notin {"pre-wait", "wait"} => gtkBlockAndWait =< overtaken
  /\ gtk \in {"dispatch", "callback"} => gtkBlockAndWait =< overtaken
  /\ gtk = "lock" =>
       /\ gtkBlockAndWait =< 1 /\ gtkBlockAndWait =< overtaken
       /\ thread \notin {"pre-wait", "wait"} => gtkBlockAndWait = 0 /\ overtaken >= 1

\* prepare() overtakes the thread for a transfer, and for each one only once.
OvertakenRight ==
  /\ overtaken =< adds
  /\ callPerform => overtaken < adds
  /\ gtk = "lock2" => callPerform

\* selectRunning tells the select thread to go on while there are transfers; if
\* it tells it to end, prepare() is still to look at the new transfer.
RunningRight ==
  /\ gtk \notin Closing =>
       /\ thread \in {"select", "pre-wait"} => selectRunning
       /\ thread = "wait" /\ gtk # "callback" => selectRunning
  /\ thread = "wait" /\ gtk = "callback" /\ Active # {} =>
       selectRunning \/ callPerform
  /\ thread = "post-wait" /\ Active # {} => selectRunning \/ callPerform \/ skipped
  /\ thread = "none" /\ Active # {} => callPerform \/ skipped
  /\ gtk = "cleanup" \/ gtk \in Closing => Active = {}

HandshakeInv == MutexRight /\ RequestsRight /\ OvertakenRight /\ RunningRight

\* A step makes one request or takes one back, or lets the GTK thread overtake
\* the select thread.
LEMMA RequestStep ==
  ASSUME TypeOK, HandshakeInv, [Next]_vars PROVE RequestsRight'
<1> MaxLeft \in Nat /\ MaxAdds \in Nat
  BY GlibCurlAssumption
<1> USE DEF TypeOK, GtkStates, ThreadStates, MutexRight, RequestsRight, Closing
<1> USE DEF HandshakeInv, history
<1>1. ASSUME NEW t \in Transfers, Add(t) PROVE RequestsRight'
  BY <1>1 DEF Add
<1>2. ASSUME NEW t \in Transfers, Remove(t) PROVE RequestsRight'
  BY <1>2 DEF Remove
<1>3. CASE Poll
  BY <1>3 DEF Poll
<1>4. CASE Prepare
  <2>1. CASE gtkBlockAndWait = 1
    <3>1. gtk' = "lock" /\ gtkBlockAndWait' = 0
      BY <1>4, <2>1 DEF Prepare, Consume
    <3> QED
      BY <1>4, <2>1, <3>1 DEF Prepare
  <2>2. CASE gtkBlockAndWait # 1
    <3>1. gtk' \in {"lock2", "poll"} /\ gtkBlockAndWait' = gtkBlockAndWait
      BY <1>4, <2>2 DEF Prepare, Restore
    <3> QED
      BY <1>4, <2>2, <3>1 DEF Prepare
  <2> QED
    BY <2>1, <2>2
<1>5. CASE Lock
  BY <1>5 DEF Lock, Acquire
<1>6. CASE Lock2
  BY <1>6 DEF Lock2, Acquire
<1>7. CASE Dispatch
  BY <1>7 DEF Dispatch
<1>8. CASE Callback
  BY <1>8 DEF Callback, Signalled
<1>9. CASE ThreadStart
  BY <1>9 DEF ThreadStart
<1>10. CASE Select
  <2>1. gtkBlockAndWait' =< gtkBlockAndWait + 1
    BY <1>10 DEF Select, Request
  <2>2. gtkBlockAndWait' \in Nat
    BY <1>10 DEF Select, Request
  <2> QED
    BY <1>10, <2>1, <2>2 DEF Select
<1>11. CASE CondWait
  BY <1>11 DEF CondWait
<1>12. CASE Relock
  BY <1>12 DEF Relock
<1>13. CASE Cleanup
  BY <1>13 DEF Cleanup
<1>14. CASE CleanupLock
  BY <1>14 DEF CleanupLock
<1>15. CASE CleanupSignal
  BY <1>15 DEF CleanupSignal, Signalled
<1>16. CASE CleanupTest
  BY <1>16 DEF CleanupTest
<1>17. CASE UNCHANGED vars
  BY <1>17 DEF vars
<1> QED
  BY <1>1, <1>2, <1>3, <1>4, <1>5, <1>6, <1>7, <1>8, <1>9, <1>10, <1>11,
     <1>12, <1>13, <1>14, <1>15, <1>16, <1>17
  DEF Next, GtkStep, ThreadStep, Program, Ended

\* Only a new transfer lets the GTK thread overtake, and once.
LEMMA OvertakenStep ==
  ASSUME TypeOK, HandshakeInv, [Next]_vars PROVE OvertakenRight'
<1> MaxLeft \in Nat /\ MaxAdds \in Nat
  BY GlibCurlAssumption
<1> USE DEF TypeOK, OvertakenRight, HandshakeInv, history
<1>1. ASSUME NEW t \in Transfers, Add(t) PROVE OvertakenRight'
  BY <1>1 DEF Add, MainLoop
<1>2. ASSUME NEW t \in Transfers, Remove(t) PROVE OvertakenRight'
  BY <1>2 DEF Remove
<1>3. CASE Prepare
  <2>1. gtk' = "lock2" => callPerform
    BY <1>3 DEF Prepare
  <2> QED
    BY <1>3, <2>1 DEF Prepare
<1>4. CASE Lock2
  BY <1>4 DEF Lock2
<1>5. CASE Poll \/ Lock \/ Dispatch \/ Callback
  BY <1>5 DEF Poll, Lock, Dispatch, Callback
<1>6. CASE ThreadStep
  BY <1>6 DEF ThreadStep, ThreadStart, Select, CondWait, Relock
<1>7. CASE Cleanup \/ CleanupLock \/ CleanupSignal \/ CleanupTest
  BY <1>7 DEF Cleanup, CleanupLock, CleanupSignal, CleanupTest
<1>8. CASE UNCHANGED vars
  BY <1>8 DEF vars
<1> QED
  BY <1>1, <1>2, <1>3, <1>4, <1>5, <1>6, <1>7, <1>8
  DEF Next, GtkStep, Program, Ended

\* Each step leaves somebody in charge of the transfers, or is the one with which
\* prepare() overlooks that the select thread is about to end.
LEMMA RunningStep ==
  ASSUME TypeOK, HandshakeInv, [Next]_vars PROVE RunningRight'
<1> USE DEF MutexRight, Closing, history
<1> USE DEF HandshakeInv, RunningRight
<1>1. ASSUME NEW t \in Transfers, Add(t) PROVE RunningRight'
  BY <1>1 DEF Add, MainLoop
<1>2. ASSUME NEW t \in Transfers, Remove(t) PROVE RunningRight'
  <2>1. Active' \subseteq Active
    BY <1>2 DEF Remove, Active, TypeOK
  <2> QED
    BY <1>2, <2>1 DEF Remove
<1>3. ASSUME UNCHANGED left PROVE Active' = Active
  BY <1>3 DEF Active
<1>4. CASE Poll
  BY <1>3, <1>4 DEF Poll
<1>5. CASE Prepare
  <2>1. gtk' \in {"lock", "lock2", "poll"}
    BY <1>5 DEF Prepare
  <2> QED
    BY <1>3, <1>5, <2>1 DEF Prepare
<1>6. CASE Lock
  BY <1>3, <1>6 DEF Lock, Acquire
<1>7. CASE Lock2
  BY <1>3, <1>7 DEF Lock2, Acquire
<1>8. CASE Dispatch
  <2>1. Active' = {t \in Transfers : left[t] > 1}
    BY <1>8 DEF Dispatch, Active, TypeOK
  <2>2. selectRunning' = (selectRunning /\ Active' # {})
    BY <1>8, <2>1 DEF Dispatch, Running
  <2>3. Active' \subseteq Active
    BY <2>1 DEF Active, TypeOK
  <2> QED
    BY <1>8, <2>2, <2>3 DEF Dispatch
<1>9. CASE Callback
  BY <1>3, <1>9 DEF Callback, Signalled
<1>10. CASE ThreadStart
  BY <1>3, <1>10 DEF ThreadStart
<1>11. CASE Select
  BY <1>3, <1>11 DEF Select
<1>12. CASE CondWait
  BY <1>3, <1>12 DEF CondWait
<1>13. CASE Relock
  BY <1>3, <1>13 DEF Relock
<1>14. CASE Cleanup
  BY <1>3, <1>14 DEF Cleanup
<1>15. CASE CleanupLock
  BY <1>3, <1>15 DEF CleanupLock
<1>16. CASE CleanupSignal
  BY <1>3, <1>16 DEF CleanupSignal, Signalled
<1>17. CASE CleanupTest
  BY <1>3, <1>17 DEF CleanupTest
<1>18. CASE UNCHANGED vars
  BY <1>3, <1>18 DEF vars
<1> QED
  BY <1>1, <1>2, <1>4, <1>5, <1>6, <1>7, <1>8, <1>9, <1>10, <1>11,
     <1>12, <1>13, <1>14, <1>15, <1>16, <1>17, <1>18
  DEF Next, GtkStep, ThreadStep, Program, Ended

\* HandshakeInv holds of every state that the threads reach with any program.
LEMMA HandshakeInvariance == Spec => []HandshakeInv
<1>1. Init => HandshakeInv
  BY DEF Init, HandshakeInv, MutexRight, RequestsRight, OvertakenRight, RunningRight,
         Closing, Active
<1>2. TypeOK /\ HandshakeInv /\ [Next]_vars => HandshakeInv'
  BY MutexStep, RequestStep, OvertakenStep, RunningStep DEF HandshakeInv
<1> QED
  BY TypeCorrect, <1>1, <1>2, PTL DEF Spec

\* Whatever the program adds and removes when: until it ends, the number that
\* prepare() compares with 1 exceeds 1 at most by how often prepare() overtook a
\* select thread that was there, and never by more than the transfers added.
THEOREM RequestsAreCounted == Spec => []RequestsCounted
<1>1. HandshakeInv => RequestsCounted
  BY DEF HandshakeInv, RequestsRight, OvertakenRight, RequestsCounted
<1> QED
  BY <1>1, HandshakeInvariance, PTL

\* Whatever the program adds and removes when: a transfer is left alone in the
\* multi handle only after prepare() found a select thread that was already told
\* to end, and started none; before that, the GTK thread has been asked to
\* perform it, or is about to, or the select thread is there and is going on.
THEOREM ForgottenOnlyIfSkipped == Spec => []NotForgotten
<1>1. HandshakeInv /\ TypeOK => NotForgotten
  BY DEF HandshakeInv, RunningRight, NotForgotten, TypeOK, ThreadStates
<1> QED
  BY <1>1, HandshakeInvariance, TypeCorrect, PTL
=============================================================================
