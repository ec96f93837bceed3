------------------------------ MODULE JobLines ------------------------------
(* The list of downloads in the window of the GTK program (gtk/joblist.cc,
   gtk/jobline.cc, gtk/gtk-makeimage.cc, the lines of gtk/gtk-single-url.cc):
   rows of a GtkTreeStore that point to JobLine objects, which make and delete
   themselves; the counters of the list; one timer that calls the tick handler
   of all lines that have one; and the line that owns the upper half of the
   window. The network shows only in what it tells the lines. *)
EXTENDS Naturals, Sequences, FiniteSets, SequencesExt

CONSTANTS Urls,       \* lines for the download of a single file
          Images,     \* lines for the download of an image
          Children,   \* lines for the downloads that an image needs
          Null,
          Delay,      \* ticks from the end of a child to its removal, or from
                      \* a failure to the automatic resume
          MaxTimers   \* bound: timers registered

JobLinesAssumption == Delay \in Nat \ {0} /\ MaxTimers \in Nat

VARIABLES
  list,       \* the JobList and its rows, see Init
  line,       \* the members of each JobLine
  walk,       \* in the timer's function: the row it is at, else Null
  called,     \* lines whose handler it called
  phase       \* "running", or "ended" after finalize()

vars == <<list, line, walk, called, phase>>

Lines == Urls \union Images \union Children
NoLine == [exists |-> FALSE, state |-> "CREATED", job |-> FALSE,
           tick |-> "none", countdown |-> 0, destination |-> "none"]

Init ==
  /\ list = [top |-> << >>,                              \* the rows,
             kids |-> [m \in Images |-> << >>],          \* and those below one
             sizeVal |-> 0, entryCountVal |-> 0,
             owner |-> Null,                             \* of the window
             needTicks |-> 0, timeoutId |-> 0,
             sources |-> {}, lastId |-> 0,               \* timers of glib
             selectIdle |-> FALSE]                       \* selectRowIdleId
  /\ line = [l \in Lines |-> NoLine]
  /\ walk = Null /\ called = {} /\ phase = "running"

\* List and lines together, as operators that model functions pass them on.
World == [list |-> list, line |-> line]
Becomes(w) == list' = w.list /\ line' = w.line

(* -------------------------------- JobList -------------------------------- *)

RegisterTicks(w) ==
  IF w.list.needTicks = 0
  THEN LET id == w.list.lastId + 1
       IN [w EXCEPT !.list.needTicks = 1, !.list.timeoutId = id,
                    !.list.lastId = id, !.list.sources = @ \union {id}]
  ELSE [w EXCEPT !.list.needTicks = @ + 1]

\* Mutant of UnregisterTicks: the timer is left to itself, as the comment says.
UnregisterTicksLater(w) == [w EXCEPT !.list.needTicks = @ - 1]

UnregisterTicks(w) ==
  [w EXCEPT !.list.needTicks = @ - 1,
            !.list.sources = IF w.list.needTicks = 1
                             THEN @ \ {w.list.timeoutId} ELSE @]

\* A new first row, at the top or below a parent.
Prepend(w, l, parent) ==
  LET counted == [w EXCEPT !.list.sizeVal = @ + 1, !.list.entryCountVal = @ + 1]
  IN IF parent = Null THEN [counted EXCEPT !.list.top = <<l>> \o @]
     ELSE [counted EXCEPT !.list.kids[parent] = <<l>> \o @]

\* GTK removes a row with all rows below it.
Erase(w, l) ==
  [w EXCEPT !.list.top = SelectSeq(@, LAMBDA x : x # l),
            !.list.kids = [m \in Images |->
                             IF m = l THEN << >>
                             ELSE SelectSeq(@[m], LAMBDA x : x # l)],
            !.list.entryCountVal = @ - 1, !.list.sizeVal = @ - 1]

\* Rows in the order in which gtk_tree_model_iter_next_depth() visits them.
Rows(w) ==
  LET under[i \in 0 .. Len(w.list.top)] ==
        IF i = 0 THEN << >>
        ELSE LET l == w.list.top[i]
             IN Append(under[i - 1], l)
                  \o (IF l \in Images THEN w.list.kids[l] ELSE << >>)
  IN under[Len(w.list.top)]

(* -------------------------------- JobLine -------------------------------- *)

\* Mutant of CallRegularly: each call registers.
CallRegularlyAgain(w, l, handler) ==
  LET w1 == IF handler # "none" THEN RegisterTicks(w)
            ELSE IF w.line[l].tick # "none" THEN UnregisterTicks(w) ELSE w
  IN [w1 EXCEPT !.line[l].tick = handler]

CallRegularly(w, l, handler) ==
  LET had == w.line[l].tick # "none"
      w1 == IF ~had /\ handler # "none" THEN RegisterTicks(w)
            ELSE IF had /\ handler = "none" THEN UnregisterTicks(w) ELSE w
  IN [w1 EXCEPT !.line[l].tick = handler]

CallRegularlyLater(w, l, handler) ==
  CallRegularly([w EXCEPT !.line[l].countdown = Delay,
                          !.line[l].destination = handler], l, "waitTick")

\* Mutant of WaitTick: the countdown is compared before it is decreased.
WaitTickPost(w, l) ==
  LET w1 == [w EXCEPT !.line[l].countdown = @ - 1]
  IN IF w.line[l].countdown = 0
     THEN CallRegularly(w1, l, w1.line[l].destination) ELSE w1

WaitTick(w, l) ==
  LET w1 == [w EXCEPT !.line[l].countdown = @ - 1]
  IN IF w1.line[l].countdown = 0
     THEN CallRegularly(w1, l, w1.line[l].destination) ELSE w1

\* setNotebookPage()
SetOwner(w, owner) == [w EXCEPT !.list.owner = owner]

\* ~GtkSingleUrl() and ~JobLine()
DeleteSingle(w, l) ==
  LET w1 == CallRegularly(w, l, "none")
      w2 == IF w1.list.owner = l THEN SetOwner(w1, Null) ELSE w1
  IN [Erase(w2, l) EXCEPT !.line[l] = NoLine]

\* Mutant of DeleteImage: GTK is left to remove the rows below.
DeleteImageAlone(w, m) == [Erase(w, m) EXCEPT !.line[m] = NoLine]

\* ~GtkMakeImage(): first all lines below this one
DeleteImage(w, m) ==
  LET without[i \in 0 .. Len(w.list.kids[m])] ==
        IF i = 0 THEN w ELSE DeleteSingle(without[i - 1], w.list.kids[m][i])
  IN [Erase(without[Len(w.list.kids[m])], m) EXCEPT !.line[m] = NoLine]

Delete(w, l) == IF l \in Images THEN DeleteImage(w, l) ELSE DeleteSingle(w, l)

(* -------------------- events of the main loop: the user ------------------- *)

Idle == phase = "running" /\ walk = Null
Exists(l) == line[l].exists
MayRegister == list.lastId < MaxTimers
NoWalk == UNCHANGED <<walk, called, phase>>

New(w, l, parent) ==
  Prepend([w EXCEPT !.line[l] = [NoLine EXCEPT !.exists = TRUE,
                                               !.state = "RUNNING"]], l, parent)

\* JobLine::create() for a single file. run() finds a directory and deletes the
\* line, asks the user (no job yet), or starts.
CreateUrl(l) ==
  /\ Idle /\ l \in Urls /\ ~Exists(l)
  /\ LET w == New(World, l, Null)
     IN \/ Becomes(Delete(w, l))
        \/ Becomes(w)
        \/ Becomes([w EXCEPT !.line[l].job = TRUE])
  /\ NoWalk

\* The answer to the question of run(): cancel, or start.
Answer(l) ==
  /\ Idle /\ l \in Urls /\ Exists(l) /\ ~line[l].job
  /\ \/ Becomes(Delete(World, l))
     \/ Becomes([World EXCEPT !.line[l].job = TRUE])
  /\ NoWalk

\* JobLine::create() for a .jigdo file. If run() throws, the line is deleted.
CreateImage(m) ==
  /\ Idle /\ m \in Images /\ ~Exists(m)
  /\ LET w == New(World, m, Null)
     IN Becomes(Delete(w, m)) \/ Becomes(w)
  /\ NoWalk

\* selectRowCallback(), as often as GTK likes to call it for one click
SelectRow(l) ==
  /\ Idle /\ Exists(l) /\ ~list.selectIdle
  /\ Becomes(SetOwner([World EXCEPT !.list.selectIdle = TRUE], l))
  /\ NoWalk

SelectRowIdle ==
  /\ Idle /\ list.selectIdle
  /\ Becomes([World EXCEPT !.list.selectIdle = FALSE])
  /\ NoWalk

\* The page with the entries for a new download
OpenPage ==
  /\ Idle /\ list.owner # Null
  /\ Becomes(SetOwner(World, Null))
  /\ NoWalk

\* Mutant of CloseButton: the line of an image stays the owner.
CloseButtonOwner ==
  /\ Idle /\ list.owner # Null
  /\ Becomes(Delete(World, list.owner))
  /\ NoWalk

\* on_closeButton_clicked() of the owner, after the question if there is one
CloseButton ==
  /\ Idle /\ list.owner # Null
  /\ LET l == list.owner
     IN Becomes(Delete(IF l \in Images THEN SetOwner(World, Null) ELSE World, l))
  /\ NoWalk

\* stop() and then the end of the transfer
StopButton ==
  /\ Idle /\ list.owner \in Urls
  /\ line[list.owner].job /\ line[list.owner].state = "RUNNING"
  /\ Becomes([World EXCEPT !.line[list.owner].state = "STOPPED"])
  /\ NoWalk

\* on_startButton_clicked()
StartButton ==
  /\ Idle /\ list.owner \in Urls
  /\ line[list.owner].job /\ line[list.owner].state = "STOPPED"
  /\ Becomes([World EXCEPT !.line[list.owner].state = "RUNNING"])
  /\ NoWalk

\* finalize(): as long as there is a row, delete the line of the first one.
Finalize ==
  /\ Idle
  /\ LET n == Len(list.top)
         after[i \in 0 .. n] ==
           IF i = 0 THEN World ELSE Delete(after[i - 1], after[i - 1].list.top[1])
     IN Becomes([after[n] EXCEPT !.list.selectIdle = FALSE])
  /\ phase' = "ended" /\ UNCHANGED <<walk, called>>

(* ------------------ events of the main loop: the network ------------------ *)

\* makeImageDl_new(): the image starts another download.
MakeImageDlNew(m, l) ==
  /\ Idle /\ m \in Images /\ Exists(m) /\ l \in Children /\ ~Exists(l)
  /\ Becomes([New(World, l, m) EXCEPT !.line[l].job = TRUE])
  /\ NoWalk

Active(l) == Exists(l) /\ line[l].job /\ line[l].state = "RUNNING"

\* dataSource_data()
Data(l) ==
  /\ Idle /\ Active(l) /\ line[l].tick = "none" /\ MayRegister
  /\ Becomes(CallRegularly(World, l, "showProgress"))
  /\ NoWalk

\* Mutant of Succeeded: nobody looks for the line of a child that has finished.
SucceededStays(l) ==
  /\ Idle /\ Active(l)
  /\ Becomes([CallRegularly(World, l, "none")
                EXCEPT !.line[l].state = "SUCCEEDED", !.line[l].job = (l \in Urls)])
  /\ NoWalk

\* job_succeeded(); for a child the image calls childIsFinished() next, and
\* deletes the job.
Succeeded(l) ==
  /\ Idle /\ Active(l) /\ (l \in Children => MayRegister)
  /\ LET w == [CallRegularly(World, l, "none") EXCEPT !.line[l].state = "SUCCEEDED"]
     IN Becomes(IF l \in Urls THEN w
                ELSE [CallRegularlyLater(w, l, "deleteThis")
                        EXCEPT !.line[l].job = FALSE])
  /\ NoWalk

\* job_failed(); a line with a file of its own may resume later.
Failed(l) ==
  /\ Idle /\ Active(l) /\ MayRegister
  /\ LET w == [World EXCEPT !.line[l].state = "ERROR"]
     IN IF l \in Children THEN Becomes([w EXCEPT !.line[l].job = FALSE])
        ELSE \/ Becomes(w)
             \/ Becomes(CallRegularlyLater(w, l, "startResume"))
  /\ NoWalk

(* ------------------------------- the timer -------------------------------- *)

\* The handler of a line, called by the timer.
Handled(w, l) ==
  CASE w.line[l].tick = "waitTick" -> {WaitTick(w, l)}
    [] w.line[l].tick = "deleteThis" -> {Delete(w, l)}
    [] w.line[l].tick = "startResume" ->
         LET w1 == CallRegularly(w, l, "none")
         IN {[w1 EXCEPT !.line[l].state = s] : s \in {"RUNNING", "ERROR"}}
    [] OTHER -> {w}

\* Mutant of After: only the rows at the top, as with a plain list.
AfterTop(rows, l) ==
  LET top == SelectSeq(rows, LAMBDA x : x \notin Children)
      i == CHOOSE k \in DOMAIN top : top[k] = l
  IN IF i = Len(top) THEN Null ELSE top[i + 1]

After(rows, l) ==
  LET i == CHOOSE k \in DOMAIN rows : rows[k] = l
  IN IF i = Len(rows) THEN Null ELSE rows[i + 1]

TimerFires ==
  /\ Idle /\ list.sources # {} /\ list.top # << >>
  /\ walk' = Rows(World)[1] /\ called' = {}
  /\ UNCHANGED <<list, line, phase>>

\* Mutant of WalkRow: the next row is found after the handler was called.
WalkRowLate ==
  /\ walk # Null
  /\ \E w \in Handled(World, walk) :
        /\ Becomes(w)
        /\ walk' = IF w.line[walk].exists THEN After(Rows(w), walk) ELSE walk
  /\ called' = IF line[walk].tick = "none" THEN called ELSE called \union {walk}
  /\ UNCHANGED phase

\* One turn of the loop in timeoutCallback(): the next row is found first.
WalkRow ==
  /\ walk # Null
  /\ walk' = After(Rows(World), walk)
  /\ IF line[walk].tick = "none" THEN UNCHANGED <<list, line, called>>
     ELSE /\ \E w \in Handled(World, walk) : Becomes(w)
          /\ called' = called \union {walk}
  /\ UNCHANGED phase

Next ==
  \/ \E l \in Lines : \/ CreateUrl(l) \/ Answer(l) \/ CreateImage(l)
                      \/ SelectRow(l) \/ Data(l) \/ Succeeded(l) \/ Failed(l)
  \/ \E m \in Images, l \in Children : MakeImageDlNew(m, l)
  \/ SelectRowIdle \/ OpenPage \/ CloseButton \/ StopButton \/ StartButton
  \/ TimerFires \/ WalkRow \/ Finalize

\* The timer of glib comes again and again, and its function ends.
Spec == Init /\ [][Next]_vars
FairSpec == Spec /\ WF_vars(TimerFires) /\ WF_vars(WalkRow)

(* ------------------------------ properties ------------------------------- *)

Existing == {l \in Lines : line[l].exists}
NeedTicks == {l \in Lines : line[l].tick # "none"}

TypeOK ==
  /\ ToSet(list.top) \subseteq Urls \union Images
  /\ \A m \in Images : ToSet(list.kids[m]) \subseteq Children
  /\ list.owner \in Lines \union {Null} /\ list.selectIdle \in BOOLEAN
  /\ list.sources \subseteq 1 .. list.lastId
  /\ \A l \in Lines : line[l].countdown \in 0 .. Delay
  /\ NeedTicks \subseteq Existing /\ called \subseteq Lines
  /\ walk \in Lines \union {Null} /\ phase \in {"running", "ended"}

\* What assertValid() asserts (joblist.cc:258-278): the counters agree with the
\* rows, and each row is that of a line that exists.
CountersRight ==
  LET rows == Rows(World)
  IN /\ list.sizeVal = Len(rows)
     /\ list.entryCountVal = Cardinality({k \in DOMAIN rows : Exists(rows[k])})
     /\ list.needTicks = Cardinality(NeedTicks)
     /\ ToSet(rows) = Existing /\ IsInjective(rows)

\* "As soon as there is at least one such JobLine, a GTK timeout function is
\* registered ... As soon as the count of tick-needing JobLines reaches 0, the
\* timeout function is unregistered again" (joblist.hh:122-126)
OneTimer ==
  list.sources = IF NeedTicks = {} THEN {} ELSE {list.timeoutId}

\* The line that the buttons of the window are forwarded to exists.
OwnerExists == phase = "running" => list.owner \in Existing \union {Null}

\* The row at which the timer's function goes on is never one that a handler
\* removed.
WalkIsSafe == walk # Null => Exists(walk)

\* When the timer's function ends, each line that still needs ticks was called.
AllCalled == walk # Null /\ walk' = Null => NeedTicks' \subseteq called'

\* A child that has succeeded disappears from the list: again and again, it is
\* not there or has not succeeded.
Gone(l) == line[l].state # "SUCCEEDED"
=============================================================================
