------------------------------- MODULE MkJigdo -------------------------------
(***************************************************************************)
(* How make-template writes the .jigdo file (src/mkjigdo.cc; the labels of *)
(* locations: src/scan.hh, scan.cc, jigdo-file-cmd.cc): prepareJigdo()     *)
(* takes the [Parts] out of the file given with --merge, files are found   *)
(* in the image, and finalizeJigdo() adds [Image], [Servers] and [Parts].  *)
(*                                                                         *)
(* A line is [kind, label, value], of kind "section", "entry", "comment",  *)
(* "blank" or "junk" (an error in the file).  The value of a part is       *)
(* <<label, leafname>>.  Quotes and the order the parts are written in,    *)
(* which is that of their values, are left out.                            *)
(***************************************************************************)
EXTENDS Integers, SequencesExt, FiniteSetsExt

CONSTANTS
  MergeFiles,       \* what --merge may read: sequences of lines
  Labelings,        \* arguments of --label and --uri: sequences of [label, path, uri]
  Files,            \* the files of the cache: [path, leaf, csum]
  AutoNames,        \* the names that are made up: "A", "B" ... "Z", "AA" ...
  AddServers,       \* what addServersSection may be
  MaxMatches        \* bound: files found in the image

VARIABLES
  merged,           \* history: the file as it was read
  labeling,         \* the arguments that were given
  addImageSection, addServersSection,
  phase,            \* "start", "scan", "image", "servers", "parts", "done"
  lines,            \* of the ConfigFile
  locations,        \* path -> [label, uri]
  jigdoParts,       \* set of [label, value]
  matchedParts,     \* the files found
  servers,          \* an iterator: the place lines are inserted at
  locName,          \* the number of the made up name that is tried next
  locPaths,         \* the paths that were looked at for [Servers]
  added             \* history: the parts that were added, [file, label]

vars == <<merged, labeling, addImageSection, addServersSection, phase, lines, locations,
          jigdoParts, matchedParts, servers, locName, locPaths, added>>

Line(kind, label, value) == [kind |-> kind, label |-> label, value |-> value]
Sect(name) == Line("section", name, << >>)
Entry(label, value) == Line("entry", label, value)
Blank == Line("blank", "", << >>)
Comment == Line("comment", "", << >>)

Init ==
  /\ merged \in MergeFiles /\ lines = merged
  /\ labeling \in Labelings
  /\ addImageSection \in BOOLEAN /\ addServersSection \in AddServers
  /\ phase = "start" /\ locations = << >>
  /\ jigdoParts = {} /\ matchedParts = << >>
  /\ servers = 0 /\ locName = 1 /\ locPaths = {} /\ added = << >>

-----------------------------------------------------------------------------
(* Sections of a file *)

\* The name of the section a line is in; a section line is in its own.
InSection(file, n) ==
  LET before == {m \in 1..n : file[m].kind = "section"}
  IN IF before = {} THEN "" ELSE file[Max(before)].label

Has(file, name) == Sect(name) \in ToSet(file)

\* The entries of all sections of a name
EntriesOf(file, name) ==
  {file[n] : n \in {n \in DOMAIN file : file[n].kind = "entry" /\ InSection(file, n) = name}}

\* The file without the lines at these places
Without(file, places) ==
  LET keep == SelectSeq([n \in DOMAIN file |-> n], LAMBDA n : n \notin places)
  IN [n \in DOMAIN keep |-> file[keep[n]]]

\* With an empty line before what is added
Spaced(file) == IF file = << >> \/ Last(file) = Blank THEN file ELSE Append(file, Blank)

-----------------------------------------------------------------------------
(* Labels *)

\* addLabels(), addLabel() for each argument: an entry that is there is kept, as
\* what is assigned to is a copy.  Then addFile() for each file.
Labeled(arguments) ==
  FoldLeft(LAMBDA locs, a : IF a.path \in DOMAIN locs THEN locs
                            ELSE [p \in DOMAIN locs \cup {a.path} |->
                                    IF p = a.path THEN [label |-> a.label, uri |-> a.uri]
                                    ELSE locs[p]],
           << >>, arguments)

WithFiles(locs) ==
  [p \in DOMAIN locs \cup {f.path : f \in Files} |->
     IF p \in DOMAIN locs THEN locs[p] ELSE [label |-> "", uri |-> "file:" \o p]]

-----------------------------------------------------------------------------
(* prepareJigdo() *)

\* Mutant of Doomed: comments, too.
DoomedAll(file, n) == InSection(file, n) = "Parts"

\* Mutant of Doomed: of the first section only
DoomedFirst(file, n) ==
  /\ InSection(file, n) = "Parts" /\ file[n].kind # "comment"
  /\ Cardinality({m \in 1..n : file[m] = Sect("Parts")}) = 1

\* The lines of [Parts] sections that are removed
Doomed(file, n) ==
  /\ InSection(file, n) = "Parts"
  /\ file[n].kind # "comment"

\* A line that is no entry is made one with an empty checksum.
PartLine(l) == [label |-> IF l.kind = "entry" THEN l.label ELSE "", value |-> l.value]

TakenParts(file) ==
  {PartLine(file[n]) : n \in {n \in DOMAIN file : Doomed(file, n)
                                                  /\ file[n].kind \in {"entry", "junk"}}}

\* [Jigdo] is inserted before the first section and the comments before it, or
\* at the end, where a file without lines gets a comment.
WithHeader(file) ==
  LET head == IF file = << >> THEN <<Comment, Comment, Blank>> ELSE file
      first == {n \in DOMAIN head : head[n].kind = "section"}
      place == IF first = {} THEN Len(head) + 1 ELSE Min(first)
      comments == {n \in 1..place : \A m \in n..(place - 1) : head[m].kind = "comment"}
      at == Min(comments)
  IN IF Has(file, "Jigdo") THEN file
     ELSE SubSeq(head, 1, at - 1)
          \o <<Sect("Jigdo"), Entry("Version", <<"1.2">>), Entry("Generator", << >>), Blank>>
          \o SubSeq(head, at, Len(head))

PrepareJigdo ==
  /\ phase = "start" /\ phase' = "scan"
  /\ locations' = WithFiles(Labeled(labeling))
  /\ jigdoParts' = TakenParts(lines)
  /\ lines' = WithHeader(Without(lines, {n \in DOMAIN lines : Doomed(lines, n)}))
  /\ matchedParts' = << >>
  /\ UNCHANGED <<merged, labeling, addImageSection, addServersSection, servers, locName,
                 locPaths, added>>

\* A file is found in the image.
Match(f) ==
  /\ phase = "scan" /\ Len(matchedParts) < MaxMatches
  /\ matchedParts' = Append(matchedParts, f)
  /\ UNCHANGED <<merged, labeling, addImageSection, addServersSection, phase, lines,
                 locations, jigdoParts, servers, locName, locPaths, added>>

ScanEnds ==
  /\ phase = "scan" /\ phase' = "image"
  /\ UNCHANGED <<merged, labeling, addImageSection, addServersSection, lines, locations,
                 jigdoParts, matchedParts, servers, locName, locPaths, added>>

-----------------------------------------------------------------------------
(* finalizeJigdo() *)

Sum == "Template-MD5Sum"
Filled == Entry(Sum, <<"T">>)

\* Mutant of WithImage: only the first line of the label is looked at.
WithImageFirst(file) ==
  LET sums == {n \in DOMAIN file : InSection(file, n) = "Image"
                                   /\ file[n].kind = "entry" /\ file[n].label = Sum}
  IN IF sums # {} /\ file[Min(sums)].value = << >>
     THEN [file EXCEPT ![Min(sums)] = Filled]
     ELSE IF sums # {} THEN file
     ELSE Spaced(file) \o <<Sect("Image"), Entry("Filename", <<"i">>),
                            Entry("Template", <<"t">>), Filled>>

\* The first line for the checksum without a value gets it; else [Image] is added.
WithImage(file) ==
  LET empty == {n \in DOMAIN file : InSection(file, n) = "Image"
                                    /\ file[n] = Entry(Sum, << >>)}
  IN IF empty # {} THEN [file EXCEPT ![Min(empty)] = Filled]
     ELSE Spaced(file) \o <<Sect("Image"), Entry("Filename", <<"i">>),
                            Entry("Template", <<"t">>), Filled>>

AddImage ==
  /\ phase = "image" /\ phase' = "servers"
  /\ lines' = IF addImageSection THEN WithImage(lines) ELSE lines
  /\ UNCHANGED <<merged, labeling, addImageSection, addServersSection, locations,
                 jigdoParts, matchedParts, servers, locName, locPaths, added>>

\* Mutant of ServersPlace: after the last line of the section, if it has one.
ServersPlaceLate(file) ==
  LET last == Max({n \in DOMAIN file : file[n] = Sect("Servers")})
      next == {n \in (last + 1)..Len(file) : file[n].kind = "section"}
  IN (IF next = {} THEN Len(file) + 1 ELSE Min(next)) + 1

\* After the last entry (or junk) of the last [Servers] section, or its first line
ServersPlace(file) ==
  LET last == Max({n \in DOMAIN file : file[n] = Sect("Servers")})
      own == {n \in last..Len(file) : \A m \in (last + 1)..n : file[m].kind # "section"}
  IN Max({n \in own : file[n].kind \in {"section", "entry", "junk"}}) + 1

\* Mutant of FindServers: lines are inserted before the section that was added.
FindServersEarly ==
  /\ phase = "servers" /\ phase' = "parts"
  /\ lines' = IF addServersSection /\ ~Has(lines, "Servers")
              THEN Append(Spaced(lines), Sect("Servers")) ELSE lines
  /\ servers' = IF addServersSection /\ Has(lines, "Servers") THEN ServersPlace(lines)
                ELSE Len(lines) + 1
  /\ UNCHANGED <<merged, labeling, addImageSection, addServersSection, locations,
                 jigdoParts, matchedParts, locName, locPaths, added>>

FindServers ==
  /\ phase = "servers" /\ phase' = "parts"
  /\ lines' = IF addServersSection /\ ~Has(lines, "Servers")
              THEN Append(Spaced(lines), Sect("Servers")) ELSE lines
  /\ servers' = IF addServersSection THEN ServersPlace(lines') ELSE Len(lines) + 1
  /\ UNCHANGED <<merged, labeling, addImageSection, addServersSection, locations,
                 jigdoParts, matchedParts, locName, locPaths, added>>

ServerLabels == {l.label : l \in EntriesOf(lines, "Servers")}

\* Mutant of FreeName: it is not looked whether the label is there.
FreeNameSame(n) == n

\* The first made up name from that one on that is no label in [Servers]
FreeName(n) == Min({m \in n..Len(AutoNames) : AutoNames[m] \notin ServerLabels})

\* Mutant of Listed: the file has to be listed from the same place.
ListedHere(f) == [label |-> f.csum, value |-> <<locations[f.path].label, f.leaf>>] \in jigdoParts

Listed(f) == \E p \in jigdoParts : p.label = f.csum

SkipPart ==
  /\ phase = "parts" /\ matchedParts # << >> /\ Listed(Head(matchedParts))
  /\ matchedParts' = Tail(matchedParts)
  /\ UNCHANGED <<merged, labeling, addImageSection, addServersSection, phase, lines,
                 locations, jigdoParts, servers, locName, locPaths, added>>

\* A file that is not listed yet: its location gets a label, and a line in
\* [Servers], unless the same line is there.
AddPart ==
  /\ phase = "parts" /\ matchedParts # << >> /\ ~Listed(Head(matchedParts))
  /\ LET f == Head(matchedParts)
         auto == locations[f.path].label = ""
     IN /\ locName' = IF auto THEN FreeName(locName) ELSE locName
        /\ locations' = IF auto THEN [locations EXCEPT ![f.path].label = AutoNames[locName']]
                        ELSE locations
        /\ jigdoParts' = jigdoParts \cup
             {[label |-> f.csum, value |-> <<locations'[f.path].label, f.leaf>>]}
        /\ added' = Append(added, [file |-> f, label |-> locations'[f.path].label])
        /\ LET line == Entry(locations'[f.path].label, <<locations'[f.path].uri>>)
           IN IF ~addServersSection \/ f.path \in locPaths
                 \/ line \in EntriesOf(lines, "Servers")
              THEN UNCHANGED <<lines, servers>>
              ELSE lines' = InsertAt(lines, servers, line) /\ servers' = servers + 1
        /\ locPaths' = IF addServersSection THEN locPaths \cup {f.path} ELSE locPaths
  /\ matchedParts' = Tail(matchedParts)
  /\ UNCHANGED <<merged, labeling, addImageSection, addServersSection, phase>>

AddParts ==
  /\ phase = "parts" /\ matchedParts = << >> /\ phase' = "done"
  /\ LET parts == SetToSeq(jigdoParts)
     IN lines' = Append(Spaced(lines), Sect("Parts"))
                 \o [n \in DOMAIN parts |-> Entry(parts[n].label, parts[n].value)]
  /\ jigdoParts' = {}
  /\ UNCHANGED <<merged, labeling, addImageSection, addServersSection, locations,
                 matchedParts, servers, locName, locPaths, added>>

-----------------------------------------------------------------------------

Next ==
  \/ PrepareJigdo \/ ScanEnds \/ AddImage \/ FindServers \/ SkipPart \/ AddPart \/ AddParts
  \/ \E f \in Files : Match(f)
  \/ phase = "done" /\ UNCHANGED vars

Spec == Init /\ [][Next]_vars

-----------------------------------------------------------------------------
(* Properties *)

TypeOK ==
  /\ phase \in {"start", "scan", "image", "servers", "parts", "done"}
  /\ ToSet(matchedParts) \subseteq Files
  /\ DOMAIN locations \subseteq {f.path : f \in Files} \cup {a.path : a \in ToSet(labeling)}
  /\ phase = "parts" => servers \in 1..(Len(lines) + 1)
  /\ locName \in DOMAIN AutoNames

IsSubSeq(s, t) ==
  FoldLeft(LAMBDA rest, x : IF rest # << >> /\ Head(rest) = x THEN Tail(rest) ELSE rest, s, t)
    = << >>

\* Merging keeps all lines outside of [Parts], and the comments in it, in their
\* order, except that one empty checksum of the template may get its value.
MergedKept ==
  phase = "done" =>
    LET kept == Without(merged, {n \in DOMAIN merged : InSection(merged, n) = "Parts"
                                                       /\ merged[n] # Comment})
    IN IsSubSeq(kept, lines)
       \/ \E n \in DOMAIN kept : /\ kept[n] = Entry(Sum, << >>)
                                 /\ IsSubSeq([kept EXCEPT ![n] = Filled], lines)

\* In the file that is written, the parts are in one section, the last, and there
\* are those that were merged, and those that were found.  (A line of [Parts] that
\* was no entry has become one without a checksum.)
PartsLast ==
  phase = "done" =>
    LET first == Min({n \in DOMAIN lines : lines[n] = Sect("Parts")})
    IN /\ \A n \in DOMAIN lines : n > first => lines[n].kind # "section"
       /\ EntriesOf(merged, "Parts") \subseteq EntriesOf(lines, "Parts")
       /\ \A l \in EntriesOf(lines, "Parts") \ EntriesOf(merged, "Parts") :
            l.label = "" \/ \E a \in ToSet(added) : l.label = a.file.csum

\* No part is added for a checksum that is listed.
ListedOnce ==
  phase = "done" =>
    \A a \in ToSet(added) :
      Cardinality({l \in EntriesOf(lines, "Parts") : l.label = a.file.csum}) = 1

\* "The generated template data's checksum is just added after the = of the first
\* line of this form - no whole new [Image] section is appended"; without such a
\* line there is one.
TemplateNamed ==
  phase = "done" /\ addImageSection =>
    LET images(file) == Cardinality({n \in DOMAIN file : file[n] = Sect("Image")})
        sums(file, v) == Cardinality({n \in DOMAIN file :
                           InSection(file, n) = "Image" /\ file[n] = Entry(Sum, v)})
    IN /\ sums(lines, <<"T">>) = 1
       /\ images(lines) = images(merged) + (IF sums(merged, << >>) = 0 THEN 1 ELSE 0)

\* The label of each part that was added is, if [Servers] is written at all,
\* mapped to where the file is, and the line is in no other section.
PartsResolve ==
  phase = "done" /\ addServersSection =>
    \A a \in ToSet(added) :
      Entry(a.label, <<locations[a.file.path].uri>>) \in EntriesOf(lines, "Servers")

\* "A label name appearing multiple times indicates alternative download
\* locations": files of different locations do not get the same label.
LabelsDistinct ==
  phase = "done" =>
    \A a, b \in ToSet(added) : a.label = b.label => a.file.path = b.file.path

\* With --label, the last one given for a path counts: "Overwrite old entry".
LastLabelCounts ==
  phase = "done" =>
    \A a \in ToSet(added) : \A n \in DOMAIN labeling :
      /\ labeling[n].path = a.file.path
      /\ \A m \in (n + 1)..Len(labeling) : labeling[m].path # a.file.path
      => a.label = labeling[n].label
===============================================================================
