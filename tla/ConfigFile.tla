------------------------------- MODULE ConfigFile -------------------------------
(***************************************************************************)
(* A configuration file as a list of lines (src/util/configfile.cc,        *)
(* configfile.hh).  The lines that start a section are also linked with    *)
(* each other, in a ring that rescan() sets up; to go to the next section, *)
(* only the ring is followed.  Class Find goes through the entries of a    *)
(* name in the sections of a name.  The value of an entry is split into    *)
(* words, which quote() has prepared.                                      *)
(*                                                                         *)
(* A line is [kind, name, form].  Kinds are "section", "label" and         *)
(* "blank", which is also any comment.  The form of a section line is      *)
(* "good"; "spaces": the name has several words; "open": nothing follows   *)
(* the bracket; "tail": something follows the closing bracket.  The form   *)
(* of a label line is "good" or "bad".                                     *)
(***************************************************************************)
EXTENDS Integers, SequencesExt, FiniteSetsExt

CONSTANTS
  Texts,            \* the lines there can be
  Sections, Labels, \* the names that are searched for
  MaxLines          \* bound on the lines ever made

VARIABLES
  text,             \* of each line that was made
  list,             \* the lines in the file, from first to last
  nextSect,         \* of endElem, which is 0, and each line
  reported,         \* the lines the reporter was told about
  clean,            \* history: no section changed since the last rescan(),
  checked,          \* and no line since the last one that printed errors
  find,             \* the object of class Find, or None
  found,            \* history: the labels it has pointed to
  asserted          \* an assertion has failed

vars == <<text, list, nextSect, reported, clean, checked, find, found, asserted>>

Null == -1
None == [sect |-> "", label |-> ""]
Freed == [kind |-> "freed", name |-> "", form |-> ""]

Init ==
  /\ text = << >> /\ list = << >> /\ nextSect = [x \in {0} |-> 0]
  /\ reported = {} /\ clean = TRUE /\ checked = FALSE
  /\ find = None /\ found = << >> /\ asserted = FALSE

-----------------------------------------------------------------------------
(* rescan() *)

IsBracket(t) == t.kind = "section"

\* Lines that start with a bracket and are left out because of an error; the
\* check is made only if errors are printed.
Refused(t) == IsBracket(t) /\ t.form # "good"

\* Where the sections of [Comment] begin and end.  After another section of
\* seven letters that starts with C they end, after any other they go on.
Comments(lines, texts, before) ==
  FoldLeft(LAMBDA in, x : IF IsBracket(texts[x]) /\ ~Refused(texts[x])
                             /\ texts[x].name \in {"Comment", "Content"}
                          THEN texts[x].name = "Comment" ELSE in,
           FALSE, SubSeq(lines, 1, before))

Errors(lines, texts) ==
  {lines[n] : n \in {n \in DOMAIN lines :
     \/ Refused(texts[lines[n]])
     \/ /\ texts[lines[n]].kind = "label" /\ texts[lines[n]].form = "bad"
        /\ ~Comments(lines, texts, n)}}

\* Mutant of Ring: what was a section before remains linked.
RingStale(lines, texts, printErrors) ==
  LET sects == SelectSeq(lines, LAMBDA x : IsBracket(texts[x])
                                           /\ ~(printErrors /\ Refused(texts[x])))
      place(x) == CHOOSE n \in DOMAIN sects : sects[n] = x
  IN [x \in {0} \cup DOMAIN texts |->
        IF x = 0 THEN IF sects = << >> THEN 0 ELSE Head(sects)
        ELSE IF x \notin ToSet(sects)
        THEN IF x \in DOMAIN nextSect /\ ~Refused(texts[x]) THEN nextSect[x] ELSE Null
        ELSE IF place(x) = Len(sects) THEN 0 ELSE sects[place(x) + 1]]

\* The ring of sections, as rescan() links it
Ring(lines, texts, printErrors) ==
  LET sects == SelectSeq(lines, LAMBDA x : IsBracket(texts[x])
                                           /\ ~(printErrors /\ Refused(texts[x])))
      place(x) == CHOOSE n \in DOMAIN sects : sects[n] = x
  IN [x \in {0} \cup DOMAIN texts |->
        IF x = 0 THEN IF sects = << >> THEN 0 ELSE Head(sects)
        ELSE IF x \notin ToSet(sects) THEN Null
        ELSE IF place(x) = Len(sects) THEN 0 ELSE sects[place(x) + 1]]

Rescan(printErrors) ==
  /\ find = None
  /\ nextSect' = Ring(list, text, printErrors) /\ clean' = TRUE
  /\ IF printErrors THEN reported' = Errors(list, text) /\ checked' = TRUE
     ELSE UNCHANGED <<reported, checked>>
  /\ UNCHANGED <<text, list, find, found, asserted>>

\* get(): lines are appended, and rescan(true) follows.  Whether a line ends in
\* '\r' is asked of an empty one, too; the byte in front of it, part of what
\* std::string keeps for itself, is taken to be another.
Get(lines) ==
  /\ find = None /\ Len(text) + Len(lines) <= MaxLines
  /\ text' = text \o lines
  /\ list' = list \o [n \in DOMAIN lines |-> Len(text) + n]
  /\ nextSect' = Ring(list', text', TRUE) /\ reported' = Errors(list', text')
  /\ clean' = TRUE /\ checked' = TRUE
  /\ UNCHANGED <<find, found, asserted>>

-----------------------------------------------------------------------------
(* Lines are changed *)

\* Mutant of Insert: the new line is not given a link.
InsertUnlinked(n, t) ==
  /\ find = None /\ Len(text) < MaxLines
  /\ text' = Append(text, t) /\ list' = InsertAt(list, n, Len(text'))
  /\ checked' = FALSE /\ clean' = (clean /\ ~IsBracket(t))
  /\ UNCHANGED <<nextSect, reported, find, found, asserted>>

\* insert(): before the line at place n, or before end(); push_back()
Insert(n, t) ==
  /\ find = None /\ Len(text) < MaxLines
  /\ text' = Append(text, t)
  /\ list' = InsertAt(list, n, Len(text'))
  /\ nextSect' = [x \in DOMAIN nextSect \cup {Len(text')} |->
                    IF x \in DOMAIN nextSect THEN nextSect[x] ELSE Null]
  /\ checked' = FALSE /\ clean' = (clean /\ ~IsBracket(t))
  /\ UNCHANGED <<reported, find, found, asserted>>

\* erase()
Erase(n) ==
  /\ find = None
  /\ list' = RemoveAt(list, n) /\ text' = [text EXCEPT ![list[n]] = Freed]
  /\ checked' = FALSE /\ clean' = (clean /\ nextSect[list[n]] = Null)
  /\ UNCHANGED <<nextSect, reported, find, found, asserted>>

\* An assignment to the line an iterator points to
Assign(n, t) ==
  /\ find = None /\ t # text[list[n]]
  /\ text' = [text EXCEPT ![list[n]] = t]
  /\ checked' = FALSE /\ clean' = (clean /\ nextSect[list[n]] = Null /\ ~IsBracket(t))
  /\ UNCHANGED <<list, nextSect, reported, find, found, asserted>>

-----------------------------------------------------------------------------
(* Iterators *)

\* The file as a ring of lines
Place(x) == IF x = 0 THEN 0 ELSE CHOOSE n \in DOMAIN list : list[n] = x
At(n) == IF n \in DOMAIN list THEN list[n] ELSE 0
After(x) == At(Place(x) + 1)
Before(x) == IF x = 0 THEN At(Len(list)) ELSE At(Place(x) - 1)

IsSection(x) == nextSect[x] # Null

\* isSection(sectName): the name is followed by nothing but the bracket.
Named(x, name) == x # 0 /\ text[x].form = "good" /\ text[x].name = name

\* What isSection(sectName) asserts of the line
AssertsHold(x, name) ==
  x # 0 => ~(text[x].form = "open" \/ (text[x].form = "tail" /\ text[x].name = name))

\* nextSection()
NextSection(x) ==
  IF IsSection(x) THEN nextSect[x]
  ELSE LET later == {n \in (Place(x) + 1)..Len(list) : IsSection(list[n])}
       IN IF later = {} THEN 0 ELSE list[Min(later)]

RECURSIVE NextNamed(_, _)
\* nextSection(sectName): the line it stops at, and whether its assertions held
NextNamed(x, name) ==
  LET y == NextSection(x) IN
  IF y = 0 THEN [at |-> 0, ok |-> TRUE]
  ELSE IF Named(y, name) THEN [at |-> y, ok |-> AssertsHold(y, name)]
  ELSE LET rest == NextNamed(y, name)
       IN [at |-> rest.at, ok |-> rest.ok /\ AssertsHold(y, name)]

\* nextLabel(labelName): the next line of that name or the end of the section
NextLabel(x, label) ==
  LET stops(n) == n = Len(list) + 1 \/ IsSection(list[n])
                    \/ (text[list[n]].kind = "label" /\ text[list[n]].form = "good"
                        /\ text[list[n]].name = label)
  IN At(Min({n \in (Place(x) + 1)..(Len(list) + 1) : stops(n)}))

-----------------------------------------------------------------------------
(* Find *)

\* Mutant of Search: after the last entry of a section the search is over.
SearchOnce(f) ==
  LET s == IF f.right THEN [at |-> f.section, ok |-> TRUE]
           ELSE NextNamed(f.section, f.sect)
      l == NextLabel(IF f.right THEN f.at ELSE s.at, f.label)
  IN IF ~f.right /\ s.at = 0 THEN [f EXCEPT !.section = 0, !.at = 0, !.ok = s.ok]
     ELSE [f EXCEPT !.section = s.at, !.right = TRUE, !.ok = s.ok,
                    !.at = IF IsSection(l) THEN 0 ELSE l]

RECURSIVE Search(_)
\* next(): to the next section of the name, unless in one; there to the next
\* label; if there is none, again.
Search(f) ==
  LET s == IF f.right THEN [at |-> f.section, ok |-> TRUE]
           ELSE NextNamed(f.section, f.sect)
      l == NextLabel(IF f.right THEN f.at ELSE s.at, f.label)
      g == [f EXCEPT !.section = s.at, !.right = TRUE, !.ok = f.ok /\ s.ok, !.at = l]
  IN IF ~f.right /\ s.at = 0 THEN [g EXCEPT !.right = FALSE, !.at = 0]
     ELSE IF ~IsSection(l) \/ l = 0 THEN g
     ELSE Search([g EXCEPT !.right = FALSE])

Becomes(f) ==
  /\ find' = f /\ asserted' = (asserted \/ ~f.ok)
  /\ found' = IF f.at = 0 THEN found ELSE Append(found, f.at)

\* The constructor, for a search from the line at place n on; the section
\* before the first has an empty name.
Find(sect, label, n) ==
  /\ find = None /\ clean /\ (sect = "" => n = 1)
  /\ \E x \in {Before(At(n))} :
       \E f \in {Search([sect |-> sect, label |-> label, section |-> x, at |-> x,
                         right |-> x = 0 /\ sect = "", from |-> n, ok |-> TRUE])} :
         /\ find' = f /\ asserted' = (asserted \/ ~f.ok)
         /\ found' = IF f.at = 0 THEN << >> ELSE <<f.at>>
  /\ UNCHANGED <<text, list, nextSect, reported, clean, checked>>

FindNext ==
  /\ find # None /\ find.at # 0
  /\ \E f \in {Search(find)} : Becomes(f)
  /\ UNCHANGED <<text, list, nextSect, reported, clean, checked>>

\* The Find object goes out of scope.
FindEnds ==
  /\ find # None /\ find' = None /\ found' = << >>
  /\ UNCHANGED <<text, list, nextSect, reported, clean, checked, asserted>>

-----------------------------------------------------------------------------
(* The value of an entry is split into words as a shell would do it        *)
(* (src/util/configfile.cc, split()), and quote() prepares a string to be  *)
(* one of them.  A string is a sequence of characters.                     *)

White == {" ", "TAB"}

\* Where split1Word() is: before a word, in one, after a backslash in one, or
\* behind the last
Begin == [at |-> "before", quotes |-> "none", word |-> << >>, words |-> << >>]

Add(w, c) == [w EXCEPT !.at = "in", !.word = Append(@, c)]
Quotes(w, q) == [w EXCEPT !.at = "in", !.quotes = q]
Ends(w, where) == [w EXCEPT !.at = where, !.words = Append(@, w.word), !.word = << >>]

\* Mutant of Step: a backslash inside "" is a backslash.
StepLiteral(w, c) ==
  CASE w.at = "after" -> w
    [] w.at = "escaped" -> Add(w, c)
    [] w.at = "before" /\ c \in White -> w
    [] w.at = "before" /\ c = "#" -> [w EXCEPT !.at = "after"]
    [] OTHER ->
         CASE c = "DQ" -> IF w.quotes = "single" THEN Add(w, c)
                          ELSE Quotes(w, IF w.quotes = "none" THEN "dbl" ELSE "none")
           [] c = "SQ" -> IF w.quotes = "dbl" THEN Add(w, c)
                          ELSE Quotes(w, IF w.quotes = "none" THEN "single" ELSE "none")
           [] c \in White \cup {"#"} /\ w.quotes = "none" ->
                Ends(w, IF c = "#" THEN "after" ELSE "before")
           [] c = "BS" /\ w.quotes = "none" -> [w EXCEPT !.at = "escaped"]
           [] OTHER -> Add(w, c)

\* split1Word(), one character
Step(w, c) ==
  CASE w.at = "after" -> w
    [] w.at = "escaped" -> Add(w, c)
    [] w.at = "before" /\ c \in White -> w
    [] w.at = "before" /\ c = "#" -> [w EXCEPT !.at = "after"]
    [] OTHER ->
         CASE c = "DQ" -> IF w.quotes = "single" THEN Add(w, c)
                          ELSE Quotes(w, IF w.quotes = "none" THEN "dbl" ELSE "none")
           [] c = "SQ" -> IF w.quotes = "dbl" THEN Add(w, c)
                          ELSE Quotes(w, IF w.quotes = "none" THEN "single" ELSE "none")
           [] c \in White \cup {"#"} /\ w.quotes = "none" ->
                Ends(w, IF c = "#" THEN "after" ELSE "before")
           [] c = "BS" /\ w.quotes # "single" -> [w EXCEPT !.at = "escaped"]
           [] OTHER -> Add(w, c)

Split(string) ==
  LET w == FoldLeft(Step, Begin, string)
  IN IF w.at \in {"before", "after"} THEN w.words ELSE Append(w.words, w.word)

-----------------------------------------------------------------------------
(* quote() *)

Special == {"DQ", "BS"}

\* With a backslash before each of the characters of a set
Escape(string, chars) ==
  FoldLeft(LAMBDA out, c : IF c \in chars THEN out \o <<"BS", c>> ELSE Append(out, c),
           << >>, string)

\* Mutant of Quote: a comment sign alone needs no quotes.
QuoteComment(string) ==
  IF ToSet(string) \cap ({"SQ"} \cup White \cup Special) = {} THEN string
  ELSE IF "SQ" \notin ToSet(string) THEN <<"SQ">> \o string \o <<"SQ">>
  ELSE <<"DQ">> \o Escape(string, Special) \o <<"DQ">>

Quote(string) ==
  IF ToSet(string) \cap ({"SQ", "#"} \cup White \cup Special) = {} THEN string
  ELSE IF "SQ" \notin ToSet(string) THEN <<"SQ">> \o string \o <<"SQ">>
  ELSE <<"DQ">> \o Escape(string, Special) \o <<"DQ">>

-----------------------------------------------------------------------------

Next ==
  \/ text = << >> /\ \E lines \in SeqOf(Texts, MaxLines) \ {<< >>} : Get(lines)
  \/ \E t \in Texts : Get(<<t>>)
  \/ \E n \in 1..(Len(list) + 1), t \in Texts : Insert(n, t)
  \/ \E n \in DOMAIN list : Erase(n)
  \/ \E n \in DOMAIN list, t \in Texts : Assign(n, t)
  \/ \E printErrors \in BOOLEAN : Rescan(printErrors)
  \/ \E sect \in Sections, label \in Labels, n \in 1..(Len(list) + 1) :
       Find(sect, label, n)
  \/ FindNext \/ FindEnds

Spec == Init /\ [][Next]_vars

-----------------------------------------------------------------------------
(* Properties *)

TypeOK ==
  /\ ToSet(text) \subseteq Texts \cup {Freed} /\ ToSet(list) \subseteq DOMAIN text
  /\ DOMAIN nextSect = {0} \cup DOMAIN text
  /\ reported \subseteq DOMAIN text
  /\ clean \in BOOLEAN /\ checked \in BOOLEAN /\ asserted \in BOOLEAN

RECURSIVE Walk(_)
Walk(x) == IF nextSect[x] = 0 THEN << >> ELSE <<nextSect[x]>> \o Walk(nextSect[x])

\* Unless sections were changed, the ring goes through the sections that are in
\* the file, in their order, whatever else was done to its lines.
RingInOrder ==
  clean => LET sects == SelectSeq(list, LAMBDA x : nextSect[x] # Null)
           IN /\ Walk(0) = sects
              /\ \A x \in ToSet(list) : nextSect[x] # Null => text[x].kind = "section"

\* The section line a line is under, or 0
Under(n) ==
  LET before == {m \in 1..(n - 1) : nextSect[list[m]] # Null}
  IN IF before = {} THEN 0 ELSE list[Max(before)]

\* The lines a search has to find: those of the name, in sections of the name
\* that do not begin before the search did
Wanted(f) ==
  SelectSeq(list, LAMBDA x :
    LET n == CHOOSE n \in DOMAIN list : list[n] = x
        u == Under(n)
    IN /\ nextSect[x] = Null /\ text[x].kind = "label" /\ text[x].form = "good"
       /\ text[x].name = f.label
       /\ IF u = 0 THEN f.sect = ""
          ELSE /\ text[u].form = "good" /\ text[u].name = f.sect
               /\ (CHOOSE m \in DOMAIN list : list[m] = u) >= f.from)

\* A search that has finished has found each of them once, in order.
FindsAll == find # None => IF find.at = 0 THEN found = Wanted(find)
                           ELSE IsPrefix(found, Wanted(find))

\* "Assumes that rescan() has been called, if it hasn't then assertions will fail."
\* - if it has, they hold.
AssertionsHold == ~asserted

\* "true if currently inside a [Comment] section": incorrect labels in other
\* sections are reported.
ErrorsReported ==
  checked => \A n \in DOMAIN list :
    text[list[n]].kind = "label" /\ text[list[n]].form = "bad"
      => list[n] \in reported \/ (Under(n) # 0 /\ text[Under(n)].name = "Comment")

\* "This means that a section name or label may contain spaces".
SpacesAllowed ==
  checked => \A x \in ToSet(list) : text[x].form = "spaces" => nextSect[x] # Null

\* Whatever strings s and t were quoted, on a line with spaces between them,
\* and a comment at its end, they are its words.
QuotedAreWords(s, t) ==
  s # << >> /\ t # << >> =>
    Split(Quote(s) \o <<" ">> \o Quote(t) \o <<" ", "#">> \o s) = <<s, t>>

\* "Except inside '', escaping double quote, space, # or backslash with \ is
\* possible" - as it is for any character outside of quotes, and for these
\* inside "".
EscapedIsOneWord(s, t) ==
  s # << >> => /\ Split(Escape(s, ToSet(s))) = <<s>>
               /\ Split(<<"DQ">> \o Escape(s, Special) \o <<"DQ">> \o Escape(t, ToSet(t)))
                    = <<s \o t>>

\* Claimed: quote() "modifies s in such a way that it stays one word".
AnyIsOneWord(s) == Split(Quote(s)) = <<s>>
=============================================================================
