------------------------------ MODULE JigdoIO ------------------------------
(***************************************************************************)
(* The download of the tree of .jigdo files: JigdoIO (src/job/jigdo-io.cc) *)
(* for each file and the part of MakeImageDl (src/job/makeimagedl.cc) that *)
(* owns them.  The files are downloaded in parallel and [Include] each     *)
(* other; the first [Image] section in depth-first order counts, and is to *)
(* be passed on as early as possible.                                      *)
(*                                                                         *)
(* An object is a number, in the order of creation, 1 the root.  A file is *)
(* a sequence of lines; lines that do not matter here are left out, and    *)
(* lines arrive one by one, so that the data of a callback are several     *)
(* steps.  The handlers are functions from a state w of the objects to the *)
(* next one.                                                               *)
(***************************************************************************)
EXTENDS Naturals, Sequences, SequencesExt

CONSTANTS
  Urls, Root,
  Webs,             \* what the server may hold: url -> lines
  MayFail,          \* can downloads and the creation of cache files fail?
  MaxIncludes       \* MakeImageDl::MAX_INCLUDES

Fields == {"Filename", "Template", "Template-MD5Sum"}
Lines == [kind : {"entry"}, what : Fields] \union
         [kind : {"include"}, what : Urls] \union
         [kind : {"Image", "section", "bad"}]

JigdoAssumption ==
  /\ Root \in Urls /\ Webs \subseteq [Urls -> Seq(Lines)]
  /\ MayFail \in BOOLEAN /\ MaxIncludes \in Nat

VARIABLES
  www,              \* the element of Webs
  nodes,            \* the JigdoIO objects
  candidate,        \* imgSectCandidate
  image,            \* what setImageSection() was called with
  master,           \* state of the MakeImageDl, or "crashed"
  cache,            \* url -> "none", "u~" (partial), "u-" (complete)
  told,             \* how often its listeners were sent job_failed
  calls,            \* jigdoFinished() calls whose callback is to come
  dangling          \* was a Child used after it was deleted?

vars == <<www, nodes, candidate, image, master, cache, told, calls, dangling>>

World == [nodes |-> nodes, candidate |-> candidate, image |-> image,
          master |-> master, cache |-> cache, told |-> told,
          calls |-> calls, dangling |-> dangling]

Becomes(w) ==
  /\ nodes' = w.nodes /\ candidate' = w.candidate /\ image' = w.image
  /\ master' = w.master /\ cache' = w.cache /\ told' = w.told
  /\ calls' = w.calls /\ dangling' = w.dangling /\ UNCHANGED www

Node(url, parent, includeLine, source) ==
  [url |-> url, parent |-> parent, includeLine |-> includeLine,
   line |-> 0, finished |-> FALSE, section |-> "", imageLine |-> 0,
   fields |-> {}, failed |-> FALSE, source |-> source]

\* createJigdoDownload()
Init ==
  /\ www \in Webs
  /\ nodes = << Node(Root, 0, 0, "SingleUrl") >> /\ candidate = 1
  /\ image = [from |-> 0, fields |-> {}] /\ master = "jigdo"
  /\ cache = [u \in Urls |-> IF u = Root THEN "u~" ELSE "none"]
  /\ told = 0 /\ calls = 0 /\ dangling = FALSE

-----------------------------------------------------------------------------
(* Errors *)

Final(w) == w.master = "error"

\* MakeImageDl::generateError
MasterError(w) ==
  IF Final(w) THEN w ELSE [w EXCEPT !.master = "error", !.told = @ + 1]

\* MakeImageDl::childFailed, for a Child without other URLs: deletes it and
\* its source.
ChildFailed(w, n) ==
  [w EXCEPT !.told = @ + 1,
            !.dangling = @ \/ w.nodes[n].source = "deleted",
            !.nodes[n].source = "deleted"]

\* JigdoIO::job_failed
JobFailed(w, n) ==
  IF w.nodes[n].failed THEN w
  ELSE [MasterError(w) EXCEPT !.nodes[n].failed = TRUE]

\* The source sends job_failed: the JigdoIO is told first, then the Child.
SourceFails(w, n) == ChildFailed(JobFailed(w, n), n)

\* generateError_plain()
GenerateError(w, n) == ChildFailed(MasterError(SourceFails(w, n)), n)

-----------------------------------------------------------------------------
(* Finding the first [Image] section *)

HaveImage(w) == "Filename" \in w.image.fields

\* setImageSection(): the strings and the checksum are swapped out.
SetImage(w, n) ==
  [w EXCEPT !.image = [from |-> n, fields |-> w.nodes[n].fields],
            !.nodes[n].fields = @ \intersect {"Template"}]

\* Mutants of NewChild: whoever includes, the child becomes the candidate, or
\* it never does.
NewChildAlways(w, n, child) == [w EXCEPT !.candidate = child]
NewChildNever(w, n, child) == w

\* imgSect_newChild()
NewChild(w, n, child) ==
  IF Final(w) \/ w.candidate # n THEN w ELSE [w EXCEPT !.candidate = child]

\* imgSect_parsed()
Parsed(w, n) ==
  IF Final(w) \/ w.candidate # n \/ HaveImage(w) THEN w ELSE SetImage(w, n)

\* The next file that x includes after child; 0 stands for none.
NextChild(w, x, child) ==
  LET after == {c \in DOMAIN w.nodes : w.nodes[c].parent = x /\ c > child}
  IN IF after = {} THEN 0 ELSE Min(after)

\* Mutant of Found: the place in the file is not looked at.
FoundAnywhere(w, x, l, next) == w.nodes[x].imageLine # 0

\* Is the [Image] of x between line l and the include of next?
Found(w, x, l, next) ==
  /\ l < w.nodes[x].imageLine
  /\ next # 0 => w.nodes[x].imageLine < w.nodes[next].includeLine

\* Mutants of WaitFor: the candidate stays, or the parent becomes candidate.
WaitForNothing(w, x) == w
WaitForParent(w, x) == [w EXCEPT !.candidate = w.nodes[x].parent]

WaitFor(w, x) == [w EXCEPT !.candidate = x]

\* The loop in imgSect_eof() of object n.  The walk is at line l of x, behind
\* the include of child.
RECURSIVE Walk(_, _, _, _, _)
Walk(w, n, x, l, child) ==
  IF x = 0
  THEN IF HaveImage(w) THEN [w EXCEPT !.calls = @ + 1] ELSE GenerateError(w, n)
  ELSE LET next == NextChild(w, x, child)
           w1 == IF Found(w, x, l, next) /\ ~HaveImage(w)
                 THEN SetImage(w, x) ELSE w
       IN CASE next # 0 -> Walk(w1, n, next, 0, 0)
            [] ~w.nodes[x].finished -> WaitFor(w1, x)
            [] OTHER -> Walk(w1, n, w.nodes[x].parent,
                             w.nodes[x].includeLine, x)

\* Mutant of IsCandidate: every file that ends starts a walk.
IsCandidateAny(w, n) == TRUE

IsCandidate(w, n) == w.candidate = n

\* imgSect_eof()
Eof(w, n) ==
  IF Final(w) \/ ~IsCandidate(w, n) THEN w
  ELSE Walk(w, n, w.nodes[n].parent, w.nodes[n].includeLine, n)

-----------------------------------------------------------------------------
(* Lines *)

\* Mutant of Complete: no line for the checksum is needed.
CompleteUnsummed(w, n) == {"Filename", "Template"} \subseteq w.nodes[n].fields

Complete(w, n) == w.nodes[n].fields = Fields

\* sectionEnd()
SectionEnd(w, n) ==
  IF w.nodes[n].section # "Image" THEN w
  ELSE IF Complete(w, n) THEN Parsed(w, n) ELSE GenerateError(w, n)

\* The object and those that included it.
Includers(w, n) ==
  LET up[k \in 0..Len(w.nodes)] ==
        IF k = 0 THEN n ELSE LET m == up[k-1]
                             IN IF m = 0 THEN 0 ELSE w.nodes[m].parent
  IN {up[k] : k \in 0..Len(w.nodes)} \ {0}

\* MakeImageDl::childFor and the new JigdoIO.  What is partly in the cache
\* yields no child (the assertion in childForSemiCompleted() does not stop
\* the graphical program), nor does a file that cannot be created.
Start(w, n, url, canOpen) ==
  LET child == Len(w.nodes) + 1
      With(source) == NewChild(
        [w EXCEPT !.nodes = Append(@, Node(url, n, w.nodes[n].line, source))],
        n, child)
  IN CASE w.cache[url] = "u-" -> With("CachedUrl")
       [] w.cache[url] = "u~" -> w
       [] w.cache[url] = "none" ->
            IF canOpen THEN [With("SingleUrl") EXCEPT !.cache[url] = "u~"]
            ELSE MasterError(w)

\* Mutant of IsLoop: only the file itself is compared.
IsLoopSelf(w, n, url) == w.nodes[n].url = url

IsLoop(w, n, url) == \E m \in Includers(w, n) : w.nodes[m].url = url

\* include()
Include(w, n, url, canOpen) ==
  IF IsLoop(w, n, url)
  THEN GenerateError(w, n)
  ELSE Start(w, n, url, canOpen)

\* entry()
Entry(w, n, field) ==
  CASE w.nodes[n].section = "Include" -> GenerateError(w, n)
    [] w.nodes[n].section = "Image" ->
         IF field \in w.nodes[n].fields \ {"Template"} THEN GenerateError(w, n)
         ELSE [w EXCEPT !.nodes[n].fields = @ \union {field}]
    [] OTHER -> w

\* A "[Section]" line
Section(w, n, line, canOpen) ==
  LET e == SectionEnd(w, n)
      first == e.nodes[n].imageLine = 0
      Set(name) == [e EXCEPT !.nodes[n].section = name]
  IN IF e.nodes[n].failed THEN e
     ELSE CASE line.kind = "section" -> Set("other")
            [] line.kind = "include" ->
                 Include(Set("Include"), n, line.what, canOpen)
            [] line.kind = "Image" /\ first ->
                 [Set("Image") EXCEPT !.nodes[n].imageLine = e.nodes[n].line]
            [] line.kind = "Image" /\ ~first -> Set("Image(ignored)")

\* jigdoLine()
JigdoLine(w, n, canOpen) ==
  LET w1 == [w EXCEPT !.nodes[n].line = @ + 1]
      line == www[w.nodes[n].url][w.nodes[n].line + 1]
  IN CASE line.kind = "bad" -> GenerateError(w1, n)
       [] line.kind = "entry" -> Entry(w1, n, line.what)
       [] OTHER -> Section(w1, n, line, canOpen)

-----------------------------------------------------------------------------
(* What happens to object n *)

Active(n) == master # "crashed" /\ nodes[n].source \in {"SingleUrl", "CachedUrl"}
LinesLeft(n) == Len(www[nodes[n].url]) - nodes[n].line

\* dataSource_data(), gunzip_data()
Data(n) ==
  /\ Active(n) /\ LinesLeft(n) > 0
  /\ \E w \in {JigdoLine(World, n, canOpen) : canOpen \in {TRUE, ~MayFail}} :
       Becomes(w)

\* job_succeeded() of the Child: the cache entry is complete, the source is
\* deleted.
ChildSucceeded(w, n) ==
  IF w.nodes[n].source = "deleted" THEN w
  ELSE [w EXCEPT !.cache[w.nodes[n].url] = "u-", !.nodes[n].source = "deleted"]

\* job_succeeded() of the JigdoIO: there may be a line without newline.
Succeeded(n, canOpen) ==
  LET w1 == IF LinesLeft(n) = 0 THEN World ELSE JigdoLine(World, n, canOpen)
      w2 == IF w1.nodes[n].failed THEN w1 ELSE SectionEnd(w1, n)
  IN IF w2.nodes[n].failed THEN w2
     ELSE Eof([w2 EXCEPT !.nodes[n].finished = TRUE], n)

\* The source sends job_succeeded.
Success(n) ==
  /\ Active(n) /\ LinesLeft(n) \in {0, 1}
  /\ \E w \in {Succeeded(n, canOpen) : canOpen \in {TRUE, ~MayFail}} :
       Becomes(ChildSucceeded(w, n))

\* The source sends job_failed.
Failure(n) == MayFail /\ Active(n) /\ Becomes(SourceFails(World, n))

\* jigdoFinished_callback(), jigdoFinished2()
Callback ==
  /\ master # "crashed" /\ calls > 0
  /\ calls' = calls - 1
  /\ master' = IF Final(World) THEN master ELSE "template"
  /\ UNCHANGED <<www, nodes, candidate, image, cache, told, dangling>>

\* What follows the use of a deleted object is undefined: the program goes
\* on, or this.
Crash ==
  /\ dangling /\ master' = "crashed"
  /\ UNCHANGED <<www, nodes, candidate, image, cache, told, calls, dangling>>

Ended ==
  /\ calls = 0 \/ master = "crashed"
  /\ \A n \in DOMAIN nodes : ~Active(n)
  /\ UNCHANGED vars

Deliver == \E n \in DOMAIN nodes : Data(n) \/ Success(n) \/ Failure(n)

Next == Deliver \/ Callback \/ Crash \/ Ended

\* Each download gets to an end, glib calls callbacks.
Spec == Init /\ [][Next]_vars
FairSpec == Spec /\ WF_vars(Deliver) /\ WF_vars(Callback)

-----------------------------------------------------------------------------
(* Properties *)

TypeOK ==
  /\ www \in Webs /\ candidate \in DOMAIN nodes
  /\ \A n \in DOMAIN nodes :
       /\ nodes[n].parent \in 0..(n - 1) /\ nodes[n].url \in Urls
       /\ nodes[n].fields \subseteq Fields
       /\ nodes[n].source \in {"SingleUrl", "CachedUrl", "deleted"}
  /\ image.from \in {0} \union DOMAIN nodes /\ image.fields \subseteq Fields
  /\ master \in {"jigdo", "template", "error", "crashed"}
  /\ cache \in [Urls -> {"none", "u~", "u-"}]
  /\ told \in Nat /\ calls \in Nat /\ dangling \in BOOLEAN

\* "The effect will be the same as copying the included file's contents into
\* the file": the lines of a file with what it includes, as URL and number.
RECURSIVE Expanded(_, _)
Expanded(url, above) ==
  LET Of(i) == LET line == www[url][i]
               IN IF line.kind = "include" /\ line.what \notin above
                  THEN Expanded(line.what, above \union {line.what})
                  ELSE << <<url, i>> >>
      upto[i \in 0..Len(www[url])] ==
        IF i = 0 THEN << >> ELSE upto[i-1] \o Of(i)
  IN upto[Len(www[url])]

IsImage(p) == www[p[1]][p[2]].kind = "Image"

FirstSection ==
  LET text == Expanded(Root, {Root}) IN text[SelectInSeq(text, IsImage)]

\* "Only the first [Image] section is relevant": whatever arrives first, the
\* section passed on is the first of the whole tree.
FirstImage ==
  image.from # 0 =>
    FirstSection = <<nodes[image.from].url, nodes[image.from].imageLine>>

\* Of two objects, is a before b in depth-first order, neither above the
\* other?
Before(a, b) ==
  \E x \in Includers(World, a), y \in Includers(World, b) :
    nodes[x].parent = nodes[y].parent /\ x < y

\* The candidate is where the first text is still missing: all objects that
\* are not finished come after it or will go on after it.
CandidateIsFirst ==
  master = "jigdo" /\ calls = 0 =>
    /\ ~nodes[candidate].finished
    /\ \A n \in DOMAIN nodes \ {candidate} : ~nodes[n].finished =>
         n \in Includers(World, candidate) \/ Before(candidate, n)

\* "All JigdoIOs have finished" is noticed once, when they have, and never
\* without an [Image].
FinishedRightly ==
  calls > 0 \/ master = "template" =>
    /\ calls + (IF master = "template" THEN 1 ELSE 0) = 1
    /\ HaveImage(World) /\ \A n \in DOMAIN nodes : nodes[n].finished

\* "It is an error to create a loop of include directives."
NoLoop ==
  \A n \in DOMAIN nodes : \A m \in Includers(World, n) \ {n} :
    nodes[m].url # nodes[n].url

\* The image gets all that is known about it: no field is left in the object.
WholeImage == image.from # 0 => image.fields = Fields

\* The lines are read as the documentation of the format says: if the
\* sections are complete and nothing fails, there is no error.
GoodFile(url) ==
  \A i \in DOMAIN www[url] : LET line == www[url][i] IN
    /\ line.kind # "bad"
    /\ line.kind = "Image" =>
         /\ i + 3 =< Len(www[url])
         /\ {www[url][j].kind : j \in i+1..i+3} = {"entry"}
         /\ {www[url][j].what : j \in i+1..i+3} = Fields
SomeLoop ==
  \E n \in DOMAIN nodes : \E m \in Includers(World, n), i \in DOMAIN www[nodes[n].url] :
    LET line == www[nodes[n].url][i]
    IN line.kind = "include" /\ line.what = nodes[m].url
NoSpuriousError ==
  master = "error" /\ ~MayFail =>
    \/ \E u \in Urls : ~GoodFile(u)
    \/ SomeLoop
    \/ \A p \in ToSet(Expanded(Root, {Root})) : ~IsImage(p)

\* The download comes to a decision.
Decided == master # "jigdo"

\* When all files have been read and no callback is due, it has.
EndDecided == calls = 0 /\ (\A n \in DOMAIN nodes : ~Active(n)) => Decided

\* "The only remaining sensible action after getting this is probably to
\* delete the job object": the listeners are told of a failure once.
ToldOnce == told =< 1

\* A Child that has deleted itself is not used any more.
NotDangling == ~dangling

\* "Maximum allowed [Include] directives in a .jigdo file and the files it
\* includes.  Once exceeded, io->job_failed() is called."
IncludesLimited == Len(nodes) - 1 > MaxIncludes => told > 0
=============================================================================
