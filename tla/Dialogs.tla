------------------------------- MODULE Dialogs -------------------------------
(* The message boxes of the GTK program and the line of a download that opens
   them (gtk/messagebox.hh, gtk/messagebox.cc, gtk/gtk-single-url.cc). A
   MessageBox deletes itself when it is answered; a line refers to at most one
   through a Ref, and the box calls a static function with the pointer to the
   line when it is answered. Here the transfer shows only in its end; how data
   is written is in GtkSingleUrl. *)
EXTENDS Naturals, FiniteSets

CONSTANTS Boxes,        \* message boxes that can be open at the same time
          Null,
          Destination   \* what may be at the destination when the line starts:
                        \* subset of {"absent", "file", "device", "directory"}

DialogsAssumption ==
  /\ Null \notin Boxes
  /\ Destination \subseteq {"absent", "file", "device", "directory"}

VARIABLES
  line,       \* members of the GtkSingleUrl
  box,        \* MessageBox objects
  event,      \* of the last event: the box that was answered, the boxes made
  lost,       \* was a box closed by the event that made it?
  device,     \* was a device opened for output?
  crashed     \* "no", or what a pointer or an Assert() did

vars == <<line, box, event, lost, device, crashed>>

NoLine == [exists |-> FALSE, state |-> "CREATED", job |-> FALSE,
           active |-> FALSE, resumable |-> FALSE, timer |-> FALSE,
           stream |-> "none", ref |-> Null, dest |-> "absent"]
NoBox == [shown |-> FALSE, ref |-> FALSE, handler |-> "none"]

Init ==
  /\ line = NoLine
  /\ box = [b \in Boxes |-> NoBox]
  /\ event = [answered |-> Null, made |-> {}]
  /\ lost = FALSE /\ device = FALSE /\ crashed = "no"

World == [line |-> line, box |-> box, made |-> {}, lost |-> lost,
          device |-> device, crashed |-> crashed]

\* The event is over; answered is the box whose button was pressed, or Null.
Becomes(w, answered) ==
  /\ line' = w.line /\ box' = w.box /\ lost' = w.lost
  /\ device' = w.device /\ crashed' = w.crashed
  /\ event' = [answered |-> answered, made |-> w.made]

Crash(w, why) == IF w.crashed = "no" THEN [w EXCEPT !.crashed = why] ELSE w

(* ------------------------------ MessageBox ------------------------------- *)

\* Mutant of DeleteBox: only the dialog goes, as when the window manager
\* destroys it and nobody listens.
DeleteBoxHide(w, b) == [w EXCEPT !.box[b].shown = FALSE]

DeleteBox(w, b) ==
  IF ~w.box[b].shown THEN Crash(w, "deleted twice")
  ELSE [w EXCEPT !.line.ref = IF w.box[b].ref THEN Null ELSE @,
                 !.box[b] = NoBox, !.lost = @ \/ b \in w.made]

\* Mutant of RefSet: a box that is replaced stays open.
RefSetKeep(w, m) ==
  LET w1 == [w EXCEPT !.line.ref = m]
  IN IF m = Null THEN w1 ELSE [w1 EXCEPT !.box[m].ref = TRUE]

\* MessageBox::Ref::set()
RefSet(w, m) ==
  LET old == w.line.ref
      w1 == IF old = Null THEN w ELSE DeleteBox([w EXCEPT !.box[old].ref = FALSE], old)
      w2 == [w1 EXCEPT !.line.ref = m]
  IN IF old = m THEN w
     ELSE IF m = Null THEN w2
     ELSE IF w.box[m].ref THEN Crash(w2, "two references")
     ELSE [w2 EXCEPT !.box[m].ref = TRUE]

FreeBox(w) == CHOOSE b \in Boxes : ~w.box[b].shown

\* new MessageBox, onResponse(), show()
Show(w, handler) ==
  LET b == FreeBox(w)
  IN [w EXCEPT !.box[b] = [shown |-> TRUE, ref |-> FALSE, handler |-> handler],
               !.made = @ \union {b}]

\* ... and set() of the line's Ref
ShowMine(w, handler) == RefSet(Show(w, handler), FreeBox(w))

\* Mutant of DeleteLine: the destructor of Ref closes nothing.
DeleteLineOnly(w) == [w EXCEPT !.line = NoLine]

\* ~GtkSingleUrl() and the destructor of its Ref
DeleteLine(w) == [RefSet(w, Null) EXCEPT !.line = NoLine]

(* ----------------------- opening the output file ------------------------- *)

OpenOutputAndRun(w, ok) ==
  IF ~ok
  THEN [ShowMine(w, "none") EXCEPT !.line.stream = "bad", !.line.state = "ERROR"]
  ELSE IF w.line.job THEN Crash(w, "in a list already")
  ELSE [w EXCEPT !.line.stream = "good", !.line.job = TRUE, !.line.active = TRUE,
                 !.device = @ \/ w.line.dest = "device"]

FailedPermanently(w) ==
  IF ~w.line.job THEN Crash(w, "no SingleUrl")
  ELSE [w EXCEPT !.line.stream = "none", !.line.state = "ERROR"]

OpenOutputAndResume(w, ok) ==
  IF ~ok THEN FailedPermanently(w)
  ELSE [w EXCEPT !.line.stream = "good", !.line.state = "RUNNING",
                 !.line.job = TRUE, !.line.active = TRUE]

Restart(w, ok) ==
  LET w1 == [w EXCEPT !.line.stream = "none", !.line.active = FALSE]
  IN [OpenOutputAndRun(w1, ok) EXCEPT !.line.state = "RUNNING"]

(* --------------------------- answers of the user -------------------------- *)

Answers(handler) ==
  CASE handler = "none" -> {"OK"}
    [] handler = "resume" -> {"CANCEL", "Overwrite", "Resume"}
    [] OTHER -> {"CANCEL", "Yes"}

ResumeResponse(w, answer, ok) ==
  CASE answer = "CANCEL" -> DeleteLine(w)
    [] answer = "Overwrite" -> RefSet(OpenOutputAndRun(w, ok), Null)
    [] answer = "Resume" -> RefSet(OpenOutputAndResume(w, ok), Null)

\* What the function given to onResponse() does.
Handled(w, handler, answer, ok) ==
  CASE handler = "none" -> w
    [] handler = "resume" -> ResumeResponse(w, answer, ok)
    [] handler = "start" ->          \* afterStartButtonClickedResponse()
         LET w1 == RefSet(w, Null)
         IN IF answer = "CANCEL" THEN w1 ELSE OpenOutputAndResume(w1, ok)
    [] handler = "close" -> IF answer = "CANCEL" THEN w ELSE DeleteLine(w)
    [] handler = "restart" -> IF answer = "CANCEL" THEN w ELSE Restart(w, ok)

\* Mutant of Autoclose: the box closes only if nobody else handled the answer.
AutocloseUnhandled(w, b) == IF w.box[b].handler = "none" THEN DeleteBox(w, b) ELSE w

\* autocloseHandler(), unless the box is gone: GTK calls no further handlers of
\* a dialog that was destroyed.
Autoclose(w, b) ==
  IF w.box[b].shown /\ b \notin w.made THEN DeleteBox(w, b) ELSE w

Running == crashed = "no"
Room == \E b \in Boxes : ~box[b].shown      \* bound: boxes that can be open

Respond(b) ==
  /\ Running /\ box[b].shown /\ (~Room => box[b].handler = "none")
  /\ \E answer \in Answers(box[b].handler), ok \in BOOLEAN :
       IF box[b].handler # "none" /\ ~line.exists
       THEN Becomes(Crash(World, "line deleted"), b)
       ELSE Becomes(Autoclose(Handled(World, box[b].handler, answer, ok), b), b)

(* ------------------------ the line and its buttons ------------------------ *)

\* run()
Run ==
  /\ Running /\ Room /\ ~line.exists
  /\ \E dest \in Destination, ok \in BOOLEAN :
       LET w == [World EXCEPT !.line = [NoLine EXCEPT !.exists = TRUE,
                                          !.state = "RUNNING", !.dest = dest]]
       IN Becomes(CASE dest = "directory" -> DeleteLine(Show(w, "none"))
                    [] dest = "file" -> ShowMine(w, "resume")
                    [] dest = "device" ->
                         [ShowMine(w, "none") EXCEPT !.line.state = "ERROR"]
                    [] dest = "absent" -> OpenOutputAndRun(w, ok), Null)

\* on_startButton_clicked(): the file is gone, has another size, or is as before
StartButton ==
  /\ Running /\ Room /\ line.exists /\ line.job
  /\ line.state = "STOPPED" \/ (line.state = "ERROR" /\ line.resumable)
  /\ \E found \in {"missing", "changed", "same"}, ok \in BOOLEAN :
       Becomes(CASE found = "missing" -> ShowMine(World, "none")
                 [] found = "changed" -> ShowMine(World, "start")
                 [] found = "same" ->
                      [OpenOutputAndResume(World, ok)
                         EXCEPT !.line.state = "RUNNING"], Null)

\* stop()
StopButton ==
  /\ Running /\ line.exists /\ line.job /\ line.state = "RUNNING"
  /\ Becomes(IF line.stream = "none" THEN Crash(World, "no stream")
             ELSE [World EXCEPT !.line.stream = "none", !.line.state = "STOPPED",
                                !.line.active = FALSE], Null)

\* on_restartButton_clicked(): with much data, ask.
RestartButton ==
  /\ Running /\ Room /\ line.exists
  /\ LET w == RefSet(World, Null)
     IN \E much \in BOOLEAN, ok \in BOOLEAN :
          Becomes(IF ~line.job \/ line.state = "ERROR" \/ ~much
                  THEN Restart(w, ok) ELSE ShowMine(w, "restart"), Null)

\* on_closeButton_clicked(): with data, ask.
CloseButton ==
  /\ Running /\ Room /\ line.exists
  /\ \E data \in BOOLEAN :
       Becomes(IF ~line.job \/ line.state # "RUNNING" \/ ~data
               THEN DeleteLine(World) ELSE ShowMine(World, "close"), Null)

\* The list, the image it belongs to, or its timer deletes the line.
LineGoes ==
  /\ Running /\ line.exists
  /\ Becomes(DeleteLine(World), Null)

(* ------------------------------ the transfer ------------------------------ *)

JobSucceeded ==
  /\ Running /\ line.exists /\ line.active
  /\ Becomes([World EXCEPT !.line.active = FALSE, !.line.timer = FALSE,
                           !.line.stream = "none", !.line.state = "SUCCEEDED"], Null)

\* job_failed(), which starts the timer if a resume is possible
JobFailed ==
  /\ Running /\ line.exists /\ line.active
  /\ \E possible \in BOOLEAN :
       Becomes([World EXCEPT !.line.active = FALSE, !.line.stream = "none",
                             !.line.state = "ERROR", !.line.resumable = possible,
                             !.line.timer = @ \/ possible], Null)

StartResume ==
  /\ Running /\ line.exists /\ line.timer
  /\ \E ok \in BOOLEAN :
       LET w == [World EXCEPT !.line.timer = FALSE]
       IN Becomes(IF line.stream # "none" THEN Crash(w, "stream open")
                  ELSE OpenOutputAndResume(w, ok), Null)

Next ==
  \/ Run \/ StartButton \/ StopButton \/ RestartButton \/ CloseButton \/ LineGoes
  \/ JobSucceeded \/ JobFailed \/ StartResume
  \/ \E b \in Boxes : Respond(b)

Spec == Init /\ [][Next]_vars

(* ------------------------------ properties ------------------------------- *)

Shown == {b \in Boxes : box[b].shown}

TypeOK ==
  /\ line.state \in {"CREATED", "RUNNING", "STOPPED", "ERROR", "SUCCEEDED"}
  /\ line.stream \in {"none", "good", "bad"}
  /\ line.ref \in Boxes \union {Null}
  /\ (line.active => line.job) /\ (line.job => line.exists)
  /\ \A b \in Boxes : box[b].shown \/ box[b] = NoBox

\* "Useful to ensure that only one MessageBox is ever open for a certain Ref
\* instance" (messagebox.hh:155-156): the Ref and its box point to each other,
\* and any other box that is open belongs to nobody and calls nobody.
OneBoxPerLine ==
  /\ line.ref # Null => line.ref \in Shown
  /\ \A b \in Shown : box[b].ref <=> line.ref = b
  /\ \A b \in Shown : box[b].handler # "none" => box[b].ref

\* No answer reaches a line that was deleted, and no box is deleted twice, in
\* whatever order the line, the box and its answer go.
PointersValid ==
  crashed \notin {"deleted twice", "line deleted", "two references"}

\* A box goes away when it is answered: "once a button is pressed"
\* (messagebox.hh:95).
AnsweredIsClosed ==
  Running /\ event.answered # Null =>
    event.answered \notin Shown \/ event.answered \in event.made

\* What a box says can be read: no event closes a box that it has opened
\* ("Could not open ... for output", gtk-single-url.cc:123).
NothingLost == ~lost

\* A line that is running has a transfer or waits for an answer.
RunningIsReal ==
  Running /\ line.exists /\ line.state = "RUNNING" =>
    line.active \/ (line.ref # Null /\ box[line.ref].handler = "resume")

\* "Cannot save to ... because that already exists as a device/link"
\* (gtk-single-url.cc:102-103)
DeviceUntouched == ~device

\* The question whether to resume is open only as long as nothing is resumed:
\* "Paranoid(destStream == 0)" (gtk-single-url.cc:144).
QuestionApplies ==
  \A b \in Shown : box[b].handler = "start" => line.stream = "none"

\* Stop has a stream to close whenever the button is enabled.
StopHasStream == crashed # "no stream"
=============================================================================
