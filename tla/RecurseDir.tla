----------------------------- MODULE RecurseDir -----------------------------
(***************************************************************************)
(* RecurseDir (src/recursedir.hh, src/recursedir.cc): turns names of files *)
(* and directories, given as arguments or read from lists of names, into   *)
(* the names of all files that can be reached, one name for each inode.    *)
(*                                                                         *)
(* A step is one round of the loop in getName() or getNextObjectName().    *)
(* The order in which readdir() returns the entries of a directory is left *)
(* open.  A name is the entry it was taken from, and a flag that says that *)
(* a symlink found while recursing is on the path to it.                   *)
(***************************************************************************)
EXTENDS Naturals, Sequences, FiniteSets

CONSTANTS
  Dirs,             \* inodes of directories
  Regular,          \* inodes of files
  Names,
  Tree,             \* [Dirs -> [Names -> entry]], see Entry
  Args,             \* sequence of arguments, each with an entry of its own
  Lists,            \* --files-from: a sequence of sequences of arguments
  MaxErrors         \* bound: failures of lstat, stat, opendir, getline

Broken == "broken"  \* what a dangling symlink leads to
Absent == "absent"
Inodes == Dirs \union Regular

\* An entry is absent or a (hard or symbolic) link to an inode.
Entry == [link : BOOLEAN, to : Inodes \union {Broken, Absent}]

TreeAssumption ==
  /\ Tree \in [Dirs -> [Names -> Entry]]
  /\ \A d \in Dirs, n \in Names : Tree[d][n].to = Broken => Tree[d][n].link
  /\ Args \in Seq(Entry) /\ Lists \in Seq(Seq(Entry))
  /\ MaxErrors \in Nat

VARIABLES
  checkFiles,       \* FALSE: --no-check-files
  recurseStack,     \* the open directories, innermost last
  objects,          \* queue of names to output or to recurse into
  objectsFrom,      \* what is left of the lists of names
  beenThere,
  output,           \* the names returned so far
  done,
  errors,           \* exceptions thrown
  lost              \* the inodes they were about, for the properties

errorVars == <<errors, lost>>
vars == <<checkFiles, recurseStack, objects, objectsFrom, beenThere, output,
          done, errorVars>>

\* A name: the entry, and what it leads to.
Arg(e, where) == [entry |-> where, via |-> FALSE, to |-> e.to]

Init ==
  /\ checkFiles \in BOOLEAN
  /\ recurseStack = << >>
  /\ objects = [i \in DOMAIN Args |-> Arg(Args[i], <<"arg", i>>)]
  /\ objectsFrom = [k \in DOMAIN Lists |->
       [i \in DOMAIN Lists[k] |-> Arg(Lists[k][i], <<"list", k, i>>)]]
  /\ beenThere = {} /\ output = {} /\ done = FALSE
  /\ errors = 0 /\ lost = {}

Top == recurseStack[Len(recurseStack)]

\* Mutant of Popped: the directories above are forgotten.
PoppedAll(s) == << >>

Popped(s) == SubSeq(s, 1, Len(s) - 1)

\* An exception is thrown and the caller calls again.
Throw(inodes) ==
  /\ errors < MaxErrors /\ errors' = errors + 1
  /\ lost' = lost \union inodes

-----------------------------------------------------------------------------
(* Within a directory *)

\* Mutant of AlreadyVisited: files are not remembered.
AlreadyVisitedDirs(inode) == inode \in beenThere \ Regular
AlreadyVisited(inode) == inode \in beenThere

\* Mutant of Level: "." is an entry like any other.
LevelWithDot(name) ==
  [dir |-> name.to, via |-> name.via,
   left |-> {n \in Names : Tree[name.to][n].to # Absent} \union {"."}]

Level(name) ==
  [dir |-> name.to, via |-> name.via,
   left |-> {n \in Names : Tree[name.to][n].to # Absent}]

\* A directory is opened, or cannot be; anything else is returned.
Visit(name, stack) ==
  IF name.to \in Dirs
  THEN /\ UNCHANGED output
       /\ \/ recurseStack' = Append(stack, Level(name)) /\ UNCHANGED errorVars
          \/ recurseStack' = stack /\ Throw({name.to})
  ELSE /\ output' = output \union {name}
       /\ recurseStack' = stack /\ UNCHANGED errorVars

\* Mutant of Deferred: a symlink is followed before the other arguments.
DeferredNot(name) == <<name>> \o objects

Deferred(name) == Append(objects, name)

\* readdir() returns an entry: symlinks are put off, what was seen before is
\* skipped.
NextEntry ==
  /\ recurseStack # << >> /\ \E n \in Top.left :
       LET e == Tree[Top.dir][n]
           name == [entry |-> <<Top.dir, n>>, via |-> Top.via \/ e.link,
                   to |-> e.to]
           stack == [recurseStack EXCEPT ![Len(recurseStack)].left = @ \ {n}]
       IN \/ /\ e.link
             /\ objects' = Deferred(name) /\ recurseStack' = stack
             /\ UNCHANGED <<beenThere, output, errorVars>>
          \/ /\ ~e.link
             /\ beenThere' = beenThere \union {e.to}
             /\ IF AlreadyVisited(e.to)
                THEN recurseStack' = stack /\ UNCHANGED <<output, errorVars>>
                ELSE Visit(name, stack)
             /\ UNCHANGED objects
          \/ /\ Throw({e.to})   \* lstat()
             /\ recurseStack' = stack
             /\ UNCHANGED <<objects, beenThere, output>>
  /\ UNCHANGED <<checkFiles, objectsFrom, done>>

EndOfDirectory ==
  /\ recurseStack # << >> /\ Top.left = {}
  /\ recurseStack' = Popped(recurseStack)
  /\ UNCHANGED <<checkFiles, objects, objectsFrom, beenThere, output, done,
                 errorVars>>

-----------------------------------------------------------------------------
(* Between directories *)

\* What getName() does with a name from the queue or from a list: here there
\* is no difference between symlinks and others.  stat() of a dangling symlink
\* always fails and is not counted as an error.
Handle(name) ==
  IF ~checkFiles
  THEN /\ output' = output \union {name}
       /\ UNCHANGED <<recurseStack, beenThere, errorVars>>
  ELSE \/ /\ name.to # Broken
          /\ beenThere' = beenThere \union {name.to}
          /\ IF AlreadyVisited(name.to)
             THEN UNCHANGED <<recurseStack, output, errorVars>>
             ELSE Visit(name, recurseStack)
       \/ /\ IF name.to = Broken THEN UNCHANGED errorVars
             ELSE Throw({name.to})   \* stat()
          /\ UNCHANGED <<recurseStack, beenThere, output>>

Idle == recurseStack = << >> /\ ~done

TakeObject ==
  /\ Idle /\ objects # << >>
  /\ objects' = Tail(objects)
  /\ Handle(Head(objects))
  /\ UNCHANGED <<checkFiles, objectsFrom, done>>

\* Mutant of Closed: the name of the list stays in the queue.
ClosedOnly(lists) == lists

\* The list that is open is closed, and no longer wanted.
Closed(lists) == Tail(lists)

\* A line of the list that is open.  The list ends with an empty line or with
\* the file; if reading fails the rest of it is lost.
TakeLine ==
  /\ Idle /\ objects = << >> /\ objectsFrom # << >>
  /\ LET list == Head(objectsFrom)
     IN \/ /\ list # << >>
           /\ objectsFrom' = <<Tail(list)>> \o Tail(objectsFrom)
           /\ Handle(Head(list))
        \/ /\ list = << >>
           /\ objectsFrom' = Closed(objectsFrom)
           /\ UNCHANGED <<recurseStack, beenThere, output, errorVars>>
        \/ /\ Throw({list[i].to : i \in DOMAIN list})
           /\ objectsFrom' = Closed(objectsFrom)
           /\ UNCHANGED <<recurseStack, beenThere, output>>
  /\ UNCHANGED <<checkFiles, objects, done>>

\* FAILURE: no more names.
NoMoreNames ==
  /\ Idle /\ objects = << >> /\ objectsFrom = << >>
  /\ done' = TRUE
  /\ UNCHANGED <<checkFiles, recurseStack, objects, objectsFrom, beenThere,
                 output, errorVars>>

Finished == done /\ UNCHANGED vars

Step == NextEntry \/ EndOfDirectory \/ TakeObject \/ TakeLine \/ NoMoreNames
Next == Step \/ Finished

Spec == Init /\ [][Next]_vars
FairSpec == Spec /\ WF_vars(Step)

-----------------------------------------------------------------------------
(* Properties *)

\* Types, and that the stack is no deeper than there are directories.
TypeOK ==
  /\ checkFiles \in BOOLEAN /\ done \in BOOLEAN /\ errors \in 0..MaxErrors
  /\ beenThere \subseteq Inodes
  /\ Len(recurseStack) =< Cardinality(Dirs)
  /\ \A i \in DOMAIN recurseStack : /\ recurseStack[i].dir \in beenThere
                                    /\ recurseStack[i].left \subseteq Names

\* "It will not output more than one name for an inode" (recursedir.hh),
\* however many links there are to it.
OneNameEach ==
  checkFiles => \A o, p \in output : o.to = p.to => o = p

\* The inodes that can be reached from those of S without help from those of
\* without, and maybe without symlinks.
Children(S, links) ==
  {i \in Inodes : \E d \in S \intersect Dirs, n \in Names :
     Tree[d][n].to = i /\ (links \/ ~Tree[d][n].link)}

Reach(S, links, without) ==
  LET r[k \in 0..Cardinality(Inodes)] ==
        IF k = 0 THEN S \ without
        ELSE LET S1 == r[k-1] IN S1 \union (Children(S1, links) \ without)
  IN r[Cardinality(Inodes)]

Given == {Args[i].to : i \in DOMAIN Args}
           \union UNION {{Lists[k][i].to : i \in DOMAIN Lists[k]} :
                         k \in DOMAIN Lists}

\* In the end all files have been returned that can be reached, be it through
\* symlinks and in spite of loops; an error costs only what it keeps from
\* being read ("it is no problem to continue using the object").
AllAreReached ==
  done /\ checkFiles =>
    Reach(Given \ {Broken}, TRUE, lost) \intersect Regular
      \subseteq {o.to : o \in output}

\* "If an inode can be reached both through its normal name and through
\* symlinks during recursion into one directory, it is guaranteed that the
\* normal name will be listed" (recursedir.hh).
NormalNames ==
  checkFiles =>
    \A o \in output : \A i \in DOMAIN Args :
      o.to \in Reach({Args[i].to}, FALSE, lost) => ~o.via

\* Each call returns, and in the end there are no more names.
Exhausted == done
Terminates == <>Exhausted
=============================================================================
