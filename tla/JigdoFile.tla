----------------------------- MODULE JigdoFile ------------------------------
(***************************************************************************)
(* The outside of the program jigdo-file (src/jigdo-file.cc).              *)
(*                                                                         *)
(* cmdOptions(), what it makes of its command line: the arguments are      *)
(* taken one by one, as getopt_long() returns them; then sizes are         *)
(* corrected, the command is looked up, and names of files that were not   *)
(* given are deduced from one that was.                                    *)
(*                                                                         *)
(* MyProgressReporter, what it says while the command runs: progress       *)
(* messages on standard error overwrite each other on one line of the      *)
(* terminal, other messages stay, and lines for standard output come in    *)
(* between, which may be the same terminal or a file.  Only what differs   *)
(* from the message before is drawn; prevLine is what the program believes *)
(* to be on the line.                                                      *)
(*                                                                         *)
(* Numbers are as in the program, but smaller: size_t has Word values,     *)
(* unsigned int has Half values.  The line is a sequence of characters,    *)
(* and every message begins at its first column.                           *)
(***************************************************************************)
EXTENDS Integers, SequencesExt

CONSTANTS
  Word, Half,       \* number of values of size_t and of unsigned int
  Unit, Rest,       \* sums are made of k * Unit + Rest bytes (64, 55)
  Kilo,             \* what the suffix k stands for (1024)
  MinimumBlockLength,
  DefaultBlock, DefaultCsum, DefaultRead,
  Numbers,          \* the digits of size arguments
  Stems,            \* file names, without their extensions
  Extensions,       \* that the user may type
  MaxArgs,          \* bound: arguments on the command line
  Messages,         \* texts of messages that stay, and for standard output
  Reports,          \* texts of progress messages, maybe longer than the line
  ScreenWidth,      \* ttyWidth() - 1
  ProgressWidth,    \* PROGRESS_WIDTH: where the name of a file can begin
  Digits,           \* number of digits of an offset or a size, in kB
  Redirected        \* is standard output a file?

OptionsAssumption ==
  /\ Word \in Nat /\ Half \in 1..Word /\ Unit \in 1..Half
  /\ Half % Unit = 0 /\ Word % Half = 0 /\ Rest \in 0..Unit - 1
  /\ Numbers \subseteq Nat /\ MaxArgs \in Nat
  /\ DefaultBlock < DefaultCsum

LineAssumption ==
  /\ Messages \subseteq Seq(STRING) /\ Reports \subseteq Seq(STRING)
  /\ << >> \notin Messages
  /\ \A s \in Messages : Len(s) <= ScreenWidth
  /\ ScreenWidth \in Nat \ {0} /\ Redirected \in BOOLEAN

Empty == << >>
Stdio == <<"-">>
Name(stem, ext) == <<stem, ext>>
Names == {Empty, Stdio} \union {Name(s, e) : s \in Stems,
                                e \in Extensions \union {"jigdo", "template"}}

\* make-template, make-image, print-missing, verify, list-template, scan, ...
Commands == {"mt", "mi", "pm", "ver", "ls", "sc", "md5"}

Blank == " "
Nul == "nul"        \* never equal to a character that is drawn

VARIABLES
  nr,               \* arguments seen
  opts,             \* the static members that options set
  given,            \* the names as they were given
  error, help,
  pc,               \* "options", "run", or how the program ended
  prevLine,
  row,              \* the line of the terminal with the cursor in column 1
  above,            \* the line above it
  file,             \* the last line of the file standard output goes to
  told,             \* the last message, and where it was to appear
  prefix            \* length of the figures before a progress message

optionVars == <<nr, opts, given, error, help, pc>>
lineVars == <<prevLine, row, above, file, told, prefix>>
vars == <<optionVars, lineVars>>

OptionsInit ==
  /\ nr = 0 /\ error = FALSE /\ help = FALSE /\ pc = "options"
  /\ opts = [block |-> DefaultBlock, csum |-> DefaultCsum,
             read |-> DefaultRead, image |-> Empty, jigdo |-> Empty,
             templ |-> Empty, cache |-> FALSE, on |-> {}, cmd |-> "none"]
  /\ given = [image |-> Empty, jigdo |-> Empty, templ |-> Empty]

LineInit ==
  /\ prevLine = << >> /\ row = << >> /\ above = << >> /\ file = << >>
  /\ told = [text |-> << >>, where |-> "row"] /\ prefix = 29

Init == OptionsInit /\ LineInit

-----------------------------------------------------------------------------
(* The command line *)

\* scanMemSize(): the factor for a suffix; the cases fall through.
Factor(suffix) == CASE suffix = "" -> 1
                    [] suffix = "k" -> Kilo
                    [] suffix = "m" -> Kilo * Kilo
                    [] suffix = "g" -> Kilo * Kilo * Kilo

ScanMemSize(n, suffix) == (n * Factor(suffix)) % Word

Argument == pc = "options" /\ nr < MaxArgs /\ nr' = nr + 1

\* --min-length, --checksum-block-size, --readbuffer
SizeOption ==
  /\ Argument
  /\ \E o \in {"block", "csum", "read"}, n \in Numbers,
        suffix \in {"", "k", "m", "g"} :
       opts' = [opts EXCEPT ![o] = ScanMemSize(n, suffix)]
  /\ UNCHANGED <<given, error, help, pc>>

\* --image, --jigdo, --template
NameOption ==
  /\ Argument
  /\ \E o \in {"image", "jigdo", "templ"}, name \in Names \ {Empty} :
       /\ opts' = [opts EXCEPT ![o] = name]
       /\ given' = [given EXCEPT ![o] = name]
  /\ UNCHANGED <<error, help, pc>>

\* --force, --no-force and other pairs; --cache and --no-cache
SwitchOption ==
  /\ Argument
  /\ \/ \E o \in {"force", "hex"} :
          opts' \in {[opts EXCEPT !.on = @ \union {o}],
                     [opts EXCEPT !.on = @ \ {o}]}
     \/ \E c \in BOOLEAN : opts' = [opts EXCEPT !.cache = c]
  /\ UNCHANGED <<given, error, help, pc>>

HelpOption ==
  /\ Argument /\ help' = TRUE /\ UNCHANGED <<opts, given, error, pc>>

\* An unknown option, or an argument of -C or -r that is not allowed.
WrongOption ==
  /\ Argument /\ error' = TRUE /\ UNCHANGED <<opts, given, help, pc>>

\* scanMemSize(), scanTimespan(): a wrong number ends the program at once.
WrongNumber ==
  /\ Argument /\ pc' = "failed" /\ UNCHANGED <<opts, given, error, help>>

-----------------------------------------------------------------------------
(* After the last option *)

\* Mutant of RoundUp: to the multiple below.
RoundDown(n) == ((n % Half) \div Unit) * Unit

\* & ~63U, where the mask is an unsigned int
RoundUp(n) == (((n + Unit - 1) % Half) \div Unit) * Unit

\* Mutant of Corrected: the minimum is applied last.
CorrectedLate(block, csum) ==
  LET c == IF block >= csum THEN block + 1 ELSE csum
      b == IF block < MinimumBlockLength THEN MinimumBlockLength ELSE block
  IN <<b, (RoundUp(c + Word - Rest) + Rest) % Word>>

Corrected(block, csum) ==
  LET b == IF block < MinimumBlockLength THEN MinimumBlockLength ELSE block
      c == IF b >= csum THEN (b + 1) % Word ELSE csum
  IN <<b, (RoundUp(c + Word - Rest) + Rest) % Word>>

\* Mutant of Deduced: the name deduced may be that of the source.
DeducedSame(dest, ext, src) ==
  IF dest # Empty THEN dest ELSE Name(src[1], ext)

\* deduceName(), deduceName2(): the extension of src is replaced.
Deduced(dest, ext, src) ==
  IF dest # Empty THEN dest
  ELSE IF Name(src[1], ext) = src THEN Empty ELSE Name(src[1], ext)

\* Mutant of IsFile: names are deduced from that of a stream.
IsFileAny(name) == name # Empty

IsFile(name) == name \notin {Empty, Stdio}

\* The first of the names that is a file gives names to the others.
WithNames(o) ==
  IF IsFile(o.image) THEN
    [o EXCEPT !.jigdo = Deduced(@, "jigdo", o.image),
              !.templ = Deduced(@, "template", o.image)]
  ELSE IF IsFile(o.jigdo) THEN
    [o EXCEPT !.image = Deduced(@, "", o.jigdo),
              !.templ = Deduced(@, "template", o.jigdo)]
  ELSE IF IsFile(o.templ) THEN
    [o EXCEPT !.image = Deduced(@, "", o.templ),
              !.jigdo = Deduced(@, "jigdo", o.templ)]
  ELSE o

\* Mutant of Needs: print-missing goes without the .jigdo file.
NeedsLess(cmd) ==
  CASE cmd = "mt" -> {"image", "jigdo", "templ"}
    [] cmd \in {"pm", "mi", "ver"} -> {"image", "templ"}
    [] cmd = "ls" -> {"templ"}
    [] OTHER -> {}

\* The names without which a command ends with exit_tryHelp().
Needs(cmd) ==
  CASE cmd \in {"mt", "pm"} -> {"image", "jigdo", "templ"}
    [] cmd \in {"mi", "ver"} -> {"image", "templ"}
    [] cmd = "ls" -> {"templ"}
    [] OTHER -> {}

\* The checks at the head of the functions of JigdoFileCmd.
Runs(cmd, o) ==
  /\ \A n \in Needs(cmd) : o[n] # Empty
  /\ cmd = "ls" => o.templ # Stdio
  /\ cmd = "sc" => o.cache

\* Mutant of Ending: help is given in any case.
EndingHelp == IF help THEN "helped" ELSE IF error THEN "failed" ELSE "go"

Ending == IF error THEN "failed" ELSE IF help THEN "helped" ELSE "go"

Stop ==
  /\ pc = "options" /\ Ending # "go" /\ pc' = Ending
  /\ UNCHANGED <<nr, opts, given, error, help>>

NoCommand ==
  /\ pc = "options" /\ Ending = "go" /\ pc' = "failed"
  /\ UNCHANGED <<nr, opts, given, error, help>>

Run(cmd) ==
  /\ pc = "options" /\ Ending = "go"
  /\ LET lengths == Corrected(opts.block, opts.csum)
         o == WithNames([opts EXCEPT !.block = lengths[1],
                                     !.csum = lengths[2], !.cmd = cmd])
     IN /\ opts' = o
        /\ pc' = IF Runs(cmd, o) THEN "run" ELSE "failed"
  /\ UNCHANGED <<nr, given, error, help>>

Option == SizeOption \/ NameOption \/ SwitchOption \/ HelpOption
          \/ WrongOption \/ WrongNumber

Arguments == Option \/ Stop \/ NoCommand \/ \E cmd \in Commands : Run(cmd)

-----------------------------------------------------------------------------
(* Messages *)

Blanks(n) == [i \in 1..n |-> Blank]
Less(a, b) == IF a > b THEN a - b ELSE 0

\* A terminal on which s is written from column 1.
Drawn(line, s) == s \o SubSeq(line, Len(s) + 1, Len(line))

\* What one sees of a line.
RECURSIVE Visible(_)
Visible(line) ==
  IF line # << >> /\ Last(line) \in {Blank, Nul} THEN Visible(Front(line))
  ELSE line


\* Mutant of Tick: any quote is the beginning of a file name.
TickAny(s) ==
  LET ticks == {i \in DOMAIN s : s[i] = "quote"}
  IN IF ticks = {} THEN 0
     ELSE CHOOSE i \in ticks : \A j \in ticks : i <= j

\* "`file name'" is shortened in the middle.
Tick(s) ==
  LET ticks == {i \in DOMAIN s : i > ProgressWidth /\ s[i] = "quote"}
  IN IF ticks = {} THEN 0
     ELSE CHOOSE i \in ticks : \A j \in ticks : i <= j

Shortened(s) ==
  IF Tick(s) = 0 THEN s
  ELSE SubSeq(s, 1, Tick(s)) \o <<".", ".", ".">>
         \o SubSeq(s, Tick(s) + Len(s) - ScreenWidth + 4, Len(s))

\* Mutant of Truncated: names that are too long are only shortened.
TruncatedName(s) == IF Len(s) <= ScreenWidth THEN s ELSE Shortened(s)

Truncated(s) ==
  IF Len(s) <= ScreenWidth THEN s
  ELSE IF Len(Shortened(s)) <= ScreenWidth THEN Shortened(s)
  ELSE Append(SubSeq(Shortened(s), 1, ScreenWidth - 1), "$")

\* Mutant of Padding: the rest of the old message is not overwritten.
PaddingNone(s) == << >>

Padding(s) == Blanks(Less(Len(prevLine), Len(s)))

\* The characters of s that print() draws.
Redrawn(s) ==
  IF Len(s) # Len(prevLine) THEN s \o Padding(s)
  ELSE LET differs == {i \in DOMAIN s : s[i] # prevLine[i]}
       IN SubSeq(s, 1, IF differs = {} THEN 0
                       ELSE CHOOSE i \in differs : \A j \in differs : j <= i)

\* print(s, true): errors, infos, matches.
PrintLine(s) ==
  /\ above' = Drawn(row, Redrawn(s)) /\ row' = << >>
  /\ prevLine' = << >>
  /\ told' = [text |-> s, where |-> "above"]
  /\ UNCHANGED <<file, prefix>>

\* print(s, false)
PrintReport(s) ==
  /\ row' = Drawn(row, Redrawn(Truncated(s)))
  /\ prevLine' = Truncated(s)
  /\ told' = [text |-> s, where |-> "row"]
  /\ UNCHANGED <<above, file>>

\* The length of "100% 9999k/9999k ", from numbers of a and b digits.
AtLeast(a, n) == IF a > n THEN a ELSE n

PrefixLength(op, a, b) ==
  CASE op = "scanningFile" ->
         3 + 1 + AtLeast(a, 10) + 2 + AtLeast(b, 10) + 3
    [] op = "scanningImage" ->
         AtLeast(3 + 1 + AtLeast(a, 8) + 1 + 1 + b + 1, 23)
    [] op = "scanningStdin" -> AtLeast(4 + AtLeast(a, 8) + 1, 23)
    [] OTHER -> AtLeast(3 + 1 + AtLeast(a, 8) + 2 + b + 1, 23)

\* scanningFile(), scanningImage(), readingChecksum(), writingImage()
Report(op, s) ==
  /\ \E a, b \in Digits : prefix' = PrefixLength(op, a, b)
  /\ PrintReport(s)

\* Mutant of Forgotten: prevLine is not changed.
ForgottenNot(s) == prevLine

\* The last character of prevLine is spoilt, so that a message of its length
\* is drawn as a whole.
Forgotten(s) ==
  IF Len(s) > Len(prevLine)
  THEN prevLine \o [i \in 1..Len(s) - Len(prevLine) |-> Nul]
  ELSE [prevLine EXCEPT ![Len(prevLine)] = Nul]

\* Mutant of FileLine: the spaces go to standard output, too.
FileLinePadded(s) == s \o Padding(s)

FileLine(s) == s

\* coutInfo(): a line of standard output.
CoutInfo(s) ==
  LET padding == Padding(s)
  IN /\ IF Redirected
        THEN /\ file' = FileLine(s) /\ row' = Drawn(row, padding)
             /\ UNCHANGED above
        ELSE /\ above' = Drawn(Drawn(row, s \o padding), << >>)
             /\ row' = << >> /\ UNCHANGED file
     /\ prevLine' = Forgotten(s)
     /\ told' = [text |-> s, where |-> IF Redirected THEN "file" ELSE "above"]
     /\ UNCHANGED prefix

Ops == {"scanningFile", "scanningImage", "scanningStdin", "readingChecksum"}

\* What the command says while it runs
Says ==
  \/ \E s \in Messages : PrintLine(s) \/ CoutInfo(s)
  \/ \E op \in Ops, s \in Reports : Report(op, s)

Next ==
  \/ Arguments /\ UNCHANGED lineVars
  \/ pc = "run" /\ Says /\ UNCHANGED optionVars

Spec == Init /\ [][Next]_vars

-----------------------------------------------------------------------------
(* Properties *)

TypeOK ==
  /\ nr \in 0..MaxArgs /\ error \in BOOLEAN /\ help \in BOOLEAN
  /\ opts.block \in 0..Word - 1 /\ opts.csum \in 0..Word - 1
  /\ opts.read \in 0..Word - 1
  /\ opts.image \in Names \union {Name(s, "") : s \in Stems}
  /\ opts.jigdo \in Names /\ opts.templ \in Names
  /\ pc \in {"options", "run", "failed", "helped"}
  /\ Len(prevLine) <= ScreenWidth /\ Len(row) <= ScreenWidth
  /\ told.where \in {"row", "above", "file"}
  /\ prefix \in Nat

\* A command gets a block length that is not below the minimum, and blocks
\* for checksums which are longer, whatever sizes below 4 GB (jigdo-file.cc:664)
\* were given in whatever order, and as long as the sums like them.
LengthsLegal ==
  pc = "run" => /\ opts.block >= MinimumBlockLength
                /\ opts.block < opts.csum
                /\ opts.csum % Unit = Rest

\* A command gets the names that were given, and those it does without
\* which were not; names that were deduced from the only one that was given
\* are not that name, nor each other.
NamesApart ==
  pc = "run" =>
    /\ \A n \in DOMAIN given : given[n] # Empty => opts[n] = given[n]
    /\ \A k \in DOMAIN given :
         (\A n \in DOMAIN given \ {k} : given[n] = Empty) =>
           \A n, m \in DOMAIN given :
             n # m /\ IsFile(opts[n]) => opts[n] # opts[m]

\* No command runs without the files that it goes on to open.
NoNameMissing ==
  pc = "run" => /\ opts.cmd \in {"mt", "pm"} => opts.jigdo # Empty
                /\ opts.cmd \in {"mt", "pm", "mi", "ver"} =>
                     opts.image # Empty /\ opts.templ # Empty

\* After an argument that is not understood, no help is given and no command
\* is run; the program fails.
ErrorWins == error => pc \in {"options", "failed"}

\* Each command reads something at a time.
ReadsSomething == pc = "run" => opts.read > 0

\* What one sees is the last message, with nothing left of those before it,
\* whatever came before: progress messages of any length, and lines of
\* standard output.
LastIsSeen ==
  /\ told.where = "above" => Visible(above) = Visible(told.text)
  /\ told.where = "row" /\ Len(told.text) <= ScreenWidth =>
       Visible(row) = Visible(told.text)

\* "If stdout is redirected to a file, the file should just contain the
\* progress reports, none of the padding space chars."
FileIsClean == told.where = "file" => file = told.text

\* A progress message that is too long for the line does not wrap, and keeps
\* the beginning up to the name of the file.
LongIsCut ==
  told.where = "row" /\ Len(told.text) > ScreenWidth =>
    /\ Len(Visible(row)) <= ScreenWidth
    /\ SubSeq(row, 1, ProgressWidth) = SubSeq(told.text, 1, ProgressWidth)

\* The figures before a progress message take PROGRESS_WIDTH columns.
PrefixAligned == prefix = 29
=============================================================================
