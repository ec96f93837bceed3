---------------------------- MODULE GlibCurlPoll ----------------------------
(***************************************************************************)
(* src/glibcurl/glibcurl.c as it is built for systems other than Windows:  *)
(* the file descriptors of libcurl are registered with the main loop of    *)
(* glib, whose poll() waits for all of them.                               *)
(*                                                                         *)
(* libcurl is known by what the code relies on: a transfer is performed by *)
(* curl_multi_perform(), wants an event on its file descriptor, or, e.g.   *)
(* while a name is looked up, only the passage of time.                    *)
(***************************************************************************)
EXTENDS Integers, FiniteSets

CONSTANTS
  Transfers,        \* each with a file descriptor of the same name
  MaxAdds,          \* bound: transfers that are added
  Silent            \* are there phases of a transfer without descriptor?

GlibCurlPollAssumption == MaxAdds \in Nat /\ Silent \in BOOLEAN

VARIABLES
  loop,             \* where the main loop is
  phase,            \* transfer -> what it waits for
  events,           \* the fds registered with g_source_add_poll(): lastPollFd
  fdMax,            \* the fds of the last curl_multi_fdset(): 0..fdMax
  revents,          \* the registered fds for which poll() found events
  callPerform,      \* Start, or the number of running transfers
  adds

vars == <<loop, phase, events, fdMax, revents, callPerform, adds>>

\* "none": not in the multi handle; "added": not performed yet; "silent":
\* waits for time to pass; "fd": waits for its fd; "ready": there is an event.
Phases == {"none", "added", "silent", "fd", "ready"}

Start == -1

Running(ph) == {t \in Transfers : ph[t] # "none"}
WithFd(ph) == {t \in Transfers : ph[t] \in {"fd", "ready"}}

\* glibcurl_init()
Init ==
  /\ loop = "prepare" /\ phase = [t \in Transfers |-> "none"]
  /\ events = {} /\ fdMax = {} /\ revents = {} /\ callPerform = 0 /\ adds = 0

\* glibcurl_add()
AddTransfer(t, ph) ==
  /\ ph[t] = "none" /\ adds < MaxAdds
  /\ adds' = adds + 1 /\ phase' = [ph EXCEPT ![t] = "added"]

\* Mutant of Started: glibcurl_add() does not call glibcurl_start().
StartedNot == callPerform' = callPerform

Started == callPerform' = Start

\* A click or a timeout of the program, in the main loop
Add(t) ==
  /\ loop = "poll" /\ AddTransfer(t, phase) /\ Started /\ loop' = "prepare"
  /\ UNCHANGED <<events, fdMax, revents>>

\* glibcurl_remove()
Remove(t) ==
  /\ loop = "poll" /\ phase[t] # "none"
  /\ phase' = [phase EXCEPT ![t] = "none"] /\ loop' = "prepare"
  /\ UNCHANGED <<events, fdMax, revents, callPerform, adds>>

-----------------------------------------------------------------------------
\* Mutant of Registered: fds are only added.
RegisteredMore(fds) == events \union fds

Registered(fds) == fds

\* Mutant of Cleared: the events of an unregistered fd remain.
ClearedNot(fds) == revents

Cleared(fds) == revents \intersect fds

\* registerUnregisterFds()
RegisterUnregisterFds(ph) ==
  /\ fdMax' = WithFd(ph) /\ events' = Registered(WithFd(ph))
  /\ revents' = Cleared(WithFd(ph))

\* prepare(): dispatch at once, or poll
Prepare ==
  /\ loop = "prepare"
  /\ RegisterUnregisterFds(phase)
  /\ loop' = IF callPerform = Start THEN "dispatch" ELSE "poll"
  /\ UNCHANGED <<phase, callPerform, adds>>

\* The server: an event on a fd
Answer(t) ==
  /\ phase[t] = "fd" /\ phase' = [phase EXCEPT ![t] = "ready"]
  /\ UNCHANGED <<loop, events, fdMax, revents, callPerform, adds>>

\* poll() returns, because of an event or after GLIBCURL_TIMEOUT.
Poll ==
  /\ loop = "poll" /\ loop' = "check"
  /\ revents' = {t \in events : phase[t] = "ready"}
  /\ UNCHANGED <<phase, events, fdMax, callPerform, adds>>

\* Mutant of SomethingHappened: events are not looked at.
SomethingHappenedNot == FALSE

SomethingHappened == revents \intersect fdMax # {}

\* check()
Check ==
  /\ loop = "check"
  /\ loop' = IF callPerform = Start \/ SomethingHappened
             THEN "dispatch" ELSE "prepare"
  /\ UNCHANGED <<phase, events, fdMax, revents, callPerform, adds>>

\* What curl_multi_perform() makes of a transfer: one without descriptor
\* goes on when its time has come.
After(p) ==
  CASE p \in {"added", "ready"} ->
         {"fd", "none"} \union IF Silent THEN {"silent"} ELSE {}
    [] p = "silent" -> {"fd"}
    [] OTHER -> {p}

\* dispatch(): callPerform is set to the number that is still running.
Dispatch ==
  /\ loop = "dispatch" /\ loop' = "prepare"
  /\ \E ph \in [Transfers -> Phases] :
       /\ \A t \in Transfers : ph[t] \in After(phase[t])
       /\ IF Running(ph) = {} THEN RegisterUnregisterFds(ph)
                              ELSE UNCHANGED <<events, fdMax, revents>>
       /\ \/ phase' = ph /\ callPerform' = Cardinality(Running(ph))
             /\ UNCHANGED adds
          \/ \* The callback starts another one.
             \E t \in Transfers : AddTransfer(t, ph) /\ Started

MainLoop == Prepare \/ Poll \/ Check \/ Dispatch

Next == MainLoop \/ \E t \in Transfers : Add(t) \/ Remove(t) \/ Answer(t)

Spec == Init /\ [][Next]_vars

\* The main loop runs, and servers answer.
FairSpec ==
  /\ Spec /\ WF_vars(MainLoop) /\ \A t \in Transfers : WF_vars(Answer(t))

-----------------------------------------------------------------------------
(* Properties *)

TypeOK ==
  /\ loop \in {"prepare", "poll", "check", "dispatch"}
  /\ phase \in [Transfers -> Phases]
  /\ events \subseteq Transfers /\ fdMax \subseteq Transfers
  /\ revents \subseteq events
  /\ callPerform \in Start..Cardinality(Transfers)
  /\ adds \in 0..MaxAdds

\* "We must have a look at all fds that libcurl wants polled": poll() is
\* called with these, and with no fd that is closed.
PolledAreWanted == loop = "poll" => events = WithFd(phase)

\* Nothing waits for curl_multi_perform().  "This is necessary to start new
\* requests": again and again, no transfer stays added, and none for which
\* something can be read stays so.
Performed(t) == phase[t] \notin {"added", "ready"}

\* Claimed: curl_multi_perform() is called "at regular intervals" while there are
\* transfers, also without an event: time is enough for a transfer to go on.
RegularIntervals ==
  \A t \in Transfers : phase[t] = "silent" ~> phase[t] # "silent"
=============================================================================
