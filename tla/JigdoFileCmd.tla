---------------------------- MODULE JigdoFileCmd ----------------------------
(***************************************************************************)
(* The commands of jigdo-file (src/jigdo-file-cmd.cc) as one sees them     *)
(* from a shell: each is one run of the program, which finds the files     *)
(* that earlier runs (and people with an editor) have left, and ends with  *)
(* an exit status.  What the commands do inside is in other modules        *)
(* (MkTemplate, MkJigdo, MkImage, JigdoConfig, JigdoCache); this one is    *)
(* about the files between them: image, .template, .jigdo and .tmp.        *)
(***************************************************************************)
EXTENDS Naturals, FiniteSets, SequencesExt

CONSTANTS
  Images,           \* contents that an image can have
  PartsOf,          \* PartsOf[i]: the files that image i is made of
  Sums,             \* kinds of checksums: "md5", "sha256"
  Labels,           \* of servers
  Uris,             \* that can be given with --uri, or in a .jigdo file
  None,             \* no content
  NoWord,           \* value of a line "checksum=" with nothing after it
  MaxFaults,        \* bound: I/O errors, names that cannot be read, kills
  MaxEdits,         \* bound: changes that somebody else makes to the files
  Edits,            \* which of them
  LateErrors,       \* may a write error show in the destructor only?
  EmptyValues       \* may a line in [Parts] have nothing after the "="?

Parts == UNION {PartsOf[i] : i \in Images}

CmdAssumption ==
  /\ "md5" \in Sums /\ None \notin Images /\ NoWord \notin Labels
  /\ MaxFaults \in Nat /\ MaxEdits \in Nat
  /\ Edits \subseteq {"parts", "servers", "remove", "damage", "replace",
                    "create"}
  /\ LateErrors \in BOOLEAN /\ EmptyValues \in BOOLEAN

NoImage == [of |-> None, end |-> "exact"]
NoTemplate == [kind |-> "none", of |-> None, needs |-> {}, sum |-> "md5"]
BrokenTemplate == [NoTemplate EXCEPT !.kind = "broken"]
NoTmp == [kind |-> "none", of |-> NoTemplate, have |-> {}]
NoLines == [p \in Parts |-> << >>]
NoServers == [l \in Labels |-> << >>]
NoJigdo == [exists |-> FALSE, parts |-> NoLines, servers |-> NoServers]
EmptyJigdo == [NoJigdo EXCEPT !.exists = TRUE]

Running == 4        \* values of exit besides the exit statuses 0 to 3
Killed == 5

VARIABLES
  image, tmp,       \* <image>, <image>.tmp
  templ, jigdo,     \* <image>.template, <image>.jigdo
  pc,               \* "idle": no command runs; else where makeTemplate is
  args,             \* the options: [cmd, force, sum, files, labels,
                    \* uri], of which each command uses some
  names,            \* files that are still to be entered into the cache
  cached,           \* files in it
  out,              \* for each missing file, what print-missing shows
  exit,             \* exit status of the last command, Running or Killed
  faults, edits

disk == <<image, tmp, templ, jigdo>>
vars == <<disk, pc, args, names, cached, out, exit, faults, edits>>

Options(cmd) ==
  [cmd |-> cmd, force |-> FALSE, sum |-> "md5", files |-> {},
   labels |-> TRUE, uri |-> << >>]

Init ==
  /\ image \in {[of |-> i, end |-> "exact"] : i \in Images}
  /\ tmp = NoTmp /\ templ = NoTemplate /\ jigdo = NoJigdo
  /\ pc = "idle" /\ args = Options("none") /\ names = {} /\ cached = {}
  /\ out = << >> /\ exit = 0 /\ faults = 0 /\ edits = 0

Return(status) == pc' = "idle" /\ exit' = status

Fault == faults < MaxFaults /\ faults' = faults + 1

-----------------------------------------------------------------------------
(* make-template *)

\* Mutant of WillOutputTo: the template is not checked.
WillOutputToJigdo(force) == force \/ ~jigdo.exists

\* willOutputTo(), for both files; TRUE if there is no reason to stop.
WillOutputTo(force) == force \/ (~jigdo.exists /\ templ.kind = "none")

\* All that comes before the template is opened: the names are checked, the
\* image and the file for --merge are opened, the latter is read.
RefuseTemplate(a) ==
  /\ pc = "idle" /\ a.cmd = "make-template"
  /\ \/ (~WillOutputTo(a.force) \/ image = NoImage) /\ UNCHANGED faults
     \/ Fault
  /\ Return(3) /\ args' = a /\ out' = << >>
  /\ UNCHANGED <<disk, names, cached, edits>>

\* openForOutput() truncates the template; addLabels() may refuse --label.
OpenTemplate(a) ==
  /\ pc = "idle" /\ a.cmd = "make-template"
  /\ WillOutputTo(a.force) /\ image # NoImage
  /\ templ' = BrokenTemplate
  /\ IF a.labels THEN pc' = "names" /\ exit' = Running ELSE Return(3)
  /\ names' = IF a.labels THEN a.files ELSE {}
  /\ args' = a /\ out' = << >> /\ cached' = {}
  /\ UNCHANGED <<image, tmp, jigdo, faults, edits>>

\* Mutant of AfterRecurseError: the rest of the names is forgotten.
AfterRecurseErrorStop(f) == {}

\* The exception ends readFilenames(), and the loop calls it again.
AfterRecurseError(f) == names \ {f}

ReadFilenames ==
  /\ pc = "names" /\ names # {}
  /\ \E f \in names :
       \/ /\ cached' = cached \union {f} /\ names' = names \ {f}
          /\ UNCHANGED faults
       \/ Fault /\ names' = AfterRecurseError(f) /\ UNCHANGED cached
  /\ UNCHANGED <<disk, pc, args, out, exit, edits>>

\* Mutant of Found: a template is made without looking at the files.
FoundNone(i) == {}

\* What MkTemplate makes of it (see there for what it may miss).
Found(i) == PartsOf[i] \intersect cached

RunOperation ==
  /\ pc = "names" /\ names = {}
  /\ \/ /\ templ' = [kind |-> "whole", of |-> image.of,
                     needs |-> Found(image.of), sum |-> args.sum]
        /\ pc' = "write" /\ UNCHANGED <<exit, faults>>
     \/ Fault /\ Return(3) /\ UNCHANGED templ
  /\ cached' = {}
  /\ UNCHANGED <<image, tmp, jigdo, args, names, out, edits>>

\* The .jigdo file that MkTemplate has built in memory.
JigdoOf(t) ==
  [exists |-> TRUE,
   parts |-> [p \in Parts |-> IF p \in t.needs
                              THEN <<CHOOSE l \in Labels : TRUE>> ELSE << >>],
   servers |-> NoServers]

\* Mutant of WriteStatus: an error is not looked for.
WriteStatusZero(bad) == 0

WriteStatus(bad) == IF bad THEN 3 ELSE 0

\* The file is opened only now, long after its name was checked.  An error
\* is seen while a long file is written, but not when the rest of it (or all
\* of a short one) is flushed by the destructor.
WriteJigdo ==
  /\ pc = "write"
  /\ \/ /\ jigdo' = JigdoOf(templ) /\ Return(WriteStatus(FALSE))
        /\ UNCHANGED faults
     \/ Fault /\ Return(3) /\ UNCHANGED jigdo                 \* not opened
     \/ Fault /\ Return(WriteStatus(TRUE)) /\ jigdo' = EmptyJigdo
     \/ /\ LateErrors /\ Fault
        /\ Return(WriteStatus(FALSE)) /\ jigdo' = EmptyJigdo
  /\ UNCHANGED <<image, tmp, templ, args, names, cached, out, edits>>

\* The process is killed; the template may be complete by then.
Kill ==
  /\ pc # "idle" /\ Fault /\ Return(Killed)
  /\ names' = {} /\ cached' = {}
  /\ UNCHANGED <<disk, args, out, edits>>

-----------------------------------------------------------------------------
(* make-image *)

\* Mutant of Reusable: the entries of the template are not compared.
ReusableAny == tmp.kind = "desc"

\* readTmpFile(): a DESC section with the entries of the template.
Reusable == tmp.kind = "desc" /\ tmp.of = templ

Have == IF Reusable THEN tmp.have ELSE {}

\* Mutant of Refusal: the image is overwritten.
RefusalTmp(force) ==
  \/ templ.kind # "whole"
  \/ ~force /\ tmp.kind # "none" /\ ~Reusable

\* Reasons for exit status 3, errors of openForInput() and of readTemplate()
\* included.
Refusal(force) ==
  \/ ~force /\ image # NoImage
  \/ templ.kind # "whole"
  \/ ~force /\ tmp.kind # "none" /\ ~Reusable

\* What JigdoDesc::makeImage() does when nothing fails (see MkImage).
MakeImage(a) ==
  /\ pc = "idle" /\ a.cmd = "make-image"
  /\ args' = a /\ out' = << >> /\ pc' = pc
  /\ LET new == (a.files \intersect templ.needs) \ Have
     IN \/ Refusal(a.force) /\ exit' = 3 /\ UNCHANGED <<image, tmp>>
        \/ /\ ~Refusal(a.force) /\ templ.needs \subseteq Have \union new
           /\ exit' = 0 /\ tmp' = NoTmp
           /\ image' = [of |-> templ.of, end |-> "exact"]
        \/ /\ ~Refusal(a.force) /\ ~(templ.needs \subseteq Have \union new)
           /\ exit' = 1 /\ UNCHANGED image
           /\ tmp' = IF new = {} THEN tmp
                     ELSE [kind |-> "desc", of |-> templ,
                           have |-> Have \union new]
  /\ UNCHANGED <<templ, jigdo, names, cached, faults, edits>>

-----------------------------------------------------------------------------
(* verify *)

\* Mutant of Matches: the end of the file is not looked for.
MatchesPrefix(i) == i.of = templ.of /\ i.end # "short"

\* The sum of the first size() bytes, and eof() after one more get().
Matches(i) == i.of = templ.of /\ i.end = "exact"

\* An ImageInfo entry with a SHA256 sum is looked for first, then one with an
\* MD5 sum; a template has one of them.
Verify(a) ==
  /\ pc = "idle" /\ a.cmd = "verify"
  /\ args' = a /\ out' = << >>
  /\ Return(IF image = NoImage \/ templ.kind # "whole" THEN 3
            ELSE IF Matches(image) THEN 0 ELSE 2)
  /\ UNCHANGED <<disk, names, cached, faults, edits>>

-----------------------------------------------------------------------------
(* print-missing, print-missing-all *)

\* Mutant of ListMissing: the temporary file is not looked at.
ListMissingAll(sum) == IF templ.sum = sum THEN templ.needs ELSE {}

\* listMissingMD5(), listMissingSHA256(): entries that are not written yet.
ListMissing(sum) == IF templ.sum = sum THEN templ.needs \ Have ELSE {}

\* Mutant of AddUris: the URI comes last.
AddUrisLast(servers, uri) ==
  IF uri = << >> THEN servers
  ELSE [servers EXCEPT ![uri[1]] = Append(@, uri[2])]

\* addUris(): the lines are inserted at the head of [Servers].
AddUris(servers, uri) ==
  IF uri = << >> THEN servers
  ELSE [servers EXCEPT ![uri[1]] = <<uri[2]>> \o @]

\* A JigdoConfig::Lookup finds at least the query itself, if it has no label
\* that is known.
Lookup(servers, word) ==
  IF word \notin Labels \/ servers[word] = << >> THEN <<word>>
  ELSE servers[word]

\* Mutant of Fallback: a file that is not in [Parts] is left out.
FallbackNone(lines, sum) == << >>

\* "MD5Sum:<checksum>", if there is no line for the file.
Fallback(lines, sum) == IF lines = << >> THEN <<sum>> ELSE << >>

\* PRINT_MISSING: the first URI of the first line, or the fallback.
FirstUri(servers, lines, sum) ==
  IF lines = << >> THEN Fallback(lines, sum)
  ELSE SubSeq(Lookup(servers, lines[1]), 1, 1)

\* PRINT_MISSING_ALL: all URIs of all lines, and the fallback.
AllUris(servers, lines, sum) ==
  FlattenSeq([i \in DOMAIN lines |-> Lookup(servers, lines[i])]) \o <<sum>>

\* Files for which a line without a word is used; words[0] does not exist.
Wordless(missing, all) ==
  {p \in missing : \E i \in DOMAIN jigdo.parts[p] :
     jigdo.parts[p][i] = NoWord /\ (all \/ i = 1)}

PrintMissing(a) ==
  LET all == a.cmd = "print-missing-all"
      servers == AddUris(jigdo.servers, a.uri)
      missing == UNION {ListMissing(sum) : sum \in Sums}
      Shown(p) == IF all THEN AllUris(servers, jigdo.parts[p], templ.sum)
                  ELSE FirstUri(servers, jigdo.parts[p], templ.sum)
  IN
  /\ pc = "idle" /\ a.cmd \in {"print-missing", "print-missing-all"}
  /\ args' = a /\ pc' = pc
  /\ \/ templ.kind = "none" /\ exit' = 3 /\ out' = << >>
     \/ /\ templ.kind # "none" /\ image # NoImage
        /\ exit' = 0 /\ out' = << >>
     \/ /\ templ.kind # "none" /\ image = NoImage
        /\ ~jigdo.exists \/ templ.kind = "broken"
        /\ exit' = 3 /\ out' = << >>
     \/ /\ templ.kind = "whole" /\ image = NoImage /\ jigdo.exists
        /\ exit' \in {0} \union IF Wordless(missing, all) = {} THEN {}
                               ELSE {Killed}      \* undefined behaviour
        /\ out' = IF exit' = 0 THEN [p \in missing |-> Shown(p)] ELSE << >>
  /\ UNCHANGED <<disk, names, cached, faults, edits>>

-----------------------------------------------------------------------------
(* scan, md5sum, sha256sum, list-template: they change no file but the     *)
(* cache (see JigdoCache).                                                 *)

\* A file that cannot be read is reported and left out; the status is 0.
SumFiles(a) ==
  /\ pc = "idle" /\ a.cmd \in {"scan", "md5sum", "sha256sum"}
  /\ args' = a
  /\ \E read \in SUBSET a.files :
       /\ IF read = a.files THEN UNCHANGED faults ELSE Fault
       /\ out' = IF a.cmd = "scan" THEN << >> ELSE [f \in read |-> <<a.cmd>>]
  /\ IF a.labels \/ a.cmd # "scan" THEN Return(0) ELSE Return(3)
  /\ UNCHANGED <<disk, names, cached, edits>>

\* A file that does not begin like a template causes a warning only.
ListTemplate(a) ==
  /\ pc = "idle" /\ a.cmd = "list-template"
  /\ args' = a
  /\ Return(IF templ.kind = "whole" THEN 0 ELSE 3)
  /\ out' = IF templ.kind = "whole"
            THEN [p \in templ.needs |-> <<templ.sum>>] ELSE << >>
  /\ UNCHANGED <<disk, names, cached, faults, edits>>

-----------------------------------------------------------------------------
(* Other people *)

Edit(what) ==
  /\ what \in Edits /\ edits < MaxEdits /\ edits' = edits + 1
  /\ UNCHANGED <<pc, args, names, cached, out, exit, faults>>

EditParts ==
  /\ pc = "idle" /\ jigdo.exists /\ Edit("parts")
  /\ \E p \in Parts, w \in Labels \union {NoWord} :
       \E lines \in {<< >>, <<w>>} \union {Append(jigdo.parts[p], w)} :
         /\ w = NoWord => EmptyValues
         /\ Len(lines) <= 2
         /\ jigdo' = [jigdo EXCEPT !.parts[p] = lines]
  /\ UNCHANGED <<image, tmp, templ>>

EditServers ==
  /\ pc = "idle" /\ jigdo.exists /\ Edit("servers")
  /\ \E l \in Labels, u \in Uris :
       jigdo' = [jigdo EXCEPT !.servers[l] = <<u>>]
  /\ UNCHANGED <<image, tmp, templ>>

Delete ==
  /\ pc = "idle" /\ Edit("remove")
  /\ \/ image' = NoImage /\ UNCHANGED <<tmp, templ, jigdo>>
     \/ templ' = NoTemplate /\ UNCHANGED <<image, tmp, jigdo>>
     \/ jigdo' = NoJigdo /\ UNCHANGED <<image, tmp, templ>>

Damage ==
  /\ pc = "idle" /\ Edit("damage")
  /\ \/ /\ image # NoImage /\ UNCHANGED <<tmp, templ, jigdo>>
        /\ \E i \in Images, e \in {"exact", "short", "long"} :
             image' = [of |-> i, end |-> e]
     \/ tmp' = [NoTmp EXCEPT !.kind = "junk"]
        /\ UNCHANGED <<image, templ, jigdo>>

\* The template is replaced by that of another release of the image.
Replace ==
  /\ pc = "idle" /\ templ.kind # "none" /\ Edit("replace")
  /\ \E i \in Images, sum \in Sums :
       templ' = [kind |-> "whole", of |-> i, needs |-> PartsOf[i], sum |-> sum]
  /\ UNCHANGED <<image, tmp, jigdo>>

\* Another program writes to the name while a command runs.
Create ==
  /\ Edit("create") /\ ~jigdo.exists /\ jigdo' = EmptyJigdo
  /\ UNCHANGED <<image, tmp, templ>>

-----------------------------------------------------------------------------

CommandLines ==
  [cmd : {"make-template"}, force : BOOLEAN, sum : Sums,
   files : SUBSET Parts, labels : BOOLEAN, uri : {<< >>}]
  \union [cmd : {"make-image"}, force : BOOLEAN, sum : {"md5"},
          files : SUBSET Parts, labels : {TRUE}, uri : {<< >>}]
  \union [cmd : {"print-missing", "print-missing-all"}, force : {FALSE},
          sum : {"md5"}, files : {{}}, labels : {TRUE},
          uri : {<< >>} \union (Labels \X Uris)]
  \union [cmd : {"scan", "md5sum", "sha256sum"}, force : {FALSE},
          sum : {"md5"}, files : {Parts}, labels : BOOLEAN, uri : {<< >>}]
  \union {Options("verify"), Options("list-template")}

\* main()
Command(a) ==
  \/ RefuseTemplate(a) \/ OpenTemplate(a) \/ MakeImage(a) \/ Verify(a)
  \/ PrintMissing(a) \/ SumFiles(a) \/ ListTemplate(a)

Continue == ReadFilenames \/ RunOperation \/ WriteJigdo

Other == EditParts \/ EditServers \/ Delete \/ Damage \/ Replace \/ Create

Next == (\E a \in CommandLines : Command(a)) \/ Continue \/ Kill \/ Other

Spec == Init /\ [][Next]_vars

-----------------------------------------------------------------------------

ImageFiles == [of : Images \union {None}, end : {"exact", "short", "long"}]
Templates == [kind : {"none", "broken", "whole"}, of : Images \union {None},
              needs : SUBSET Parts, sum : Sums]

TypeOK ==
  /\ image \in ImageFiles /\ templ \in Templates
  /\ tmp.kind \in {"none", "junk", "desc"} /\ tmp.of \in Templates
  /\ tmp.have \subseteq tmp.of.needs
  /\ jigdo.exists \in BOOLEAN /\ DOMAIN jigdo.parts = Parts
  /\ pc \in {"idle", "names", "write"} /\ exit \in 0..5
  /\ names \subseteq Parts /\ cached \subseteq Parts
  /\ pc # "idle" <=> exit = Running

\* Without --force, no command changes an image, a template or a .jigdo file
\* that is there when the step is done (willOutputTo).
NoSilentOverwrite ==
  edits' = edits /\ ~args'.force =>
    /\ image # NoImage => image' = image
    /\ templ.kind # "none" /\ pc = "idle" => templ' = templ
    /\ jigdo.exists => jigdo' = jigdo

\* When make-template ends with status 0, both files are there, and the
\* .jigdo file lists each file that the template needs.
ZeroMeansWritten ==
  pc # "idle" /\ pc' = "idle" /\ exit' = 0 =>
    /\ templ'.kind = "whole" /\ jigdo'.exists
    /\ \A p \in templ'.needs : jigdo'.parts[p] # << >>

\* Names that cannot be read do not keep other files out of the template: it
\* needs all files of the image but as many as there were faults (the loop
\* around readFilenames).
OthersStillFound ==
  pc = "names" /\ pc' = "write" =>
    \E bad \in SUBSET args.files :
      /\ Cardinality(bad) <= faults
      /\ templ'.needs = (PartsOf[image.of] \intersect args.files) \ bad

\* verify succeeds for the image of the template, as a whole and with nothing
\* after it, and for no other.
VerifyExact ==
  args'.cmd = "verify" /\ pc = "idle" /\ edits' = edits /\ disk' = disk =>
    (exit' = 0 <=> /\ templ.kind = "whole"
                   /\ image = [of |-> templ.of, end |-> "exact"])

\* The files that print-missing asks for are those that make-image still
\* needs: with all of them it succeeds, without one of them it does not.
MissingIsNeeded ==
  args'.cmd = "make-image" /\ edits' = edits /\ ~Refusal(args'.force) =>
    (exit' = 0 <=> UNION {ListMissing(s) : s \in Sums}
                     \subseteq args'.files)

\* print-missing shows something for each file that neither the image nor the
\* temporary file has, also if the .jigdo file is not the one made together
\* with the template, and nothing for others.
AllMissingShown ==
  args'.cmd \in {"print-missing", "print-missing-all"} /\ edits' = edits
    /\ exit' = 0 /\ image = NoImage =>
    /\ DOMAIN out' = templ.needs \ (IF tmp.kind = "desc" /\ tmp.of = templ
                                    THEN tmp.have ELSE {})
    /\ \A p \in DOMAIN out' : out'[p] # << >>

\* A URI that is given with --uri is the first that is shown for each part
\* whose line has that label.
GivenUriFirst ==
  args'.uri # << >> /\ edits' = edits =>
    \A p \in DOMAIN out' :
      jigdo.parts[p] # << >> /\ jigdo.parts[p][1] = args'.uri[1]
        => out'[p][1] = args'.uri[2]

\* With --uri, other locations for that label are not shown.
GivenUriOverrides ==
  args'.uri # << >> /\ edits' = edits =>
    \A p \in DOMAIN out' :
      jigdo.parts[p] = <<args'.uri[1]>> =>
        \A u \in Range(out'[p]) \intersect Uris : u = args'.uri[2]

\* print-missing ends by itself.
NeverDies ==
  args'.cmd \in {"print-missing", "print-missing-all"} /\ edits' = edits
    => exit' # Killed

\* A template that is not there is a recoverable error of make-image.
NotFoundIsTwo ==
  args'.cmd = "make-image" /\ edits' = edits /\ templ.kind = "none"
    /\ image = NoImage => exit' = 2
=============================================================================
