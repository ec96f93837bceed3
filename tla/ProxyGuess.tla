----------------------------- MODULE ProxyGuess -----------------------------
(***************************************************************************)
(* proxyGuess() (src/net/proxyguess.cc) for Unix: the configuration files  *)
(* of browsers are looked at, the most recent one first, until one is      *)
(* found that sets a proxy.                                                *)
(*                                                                         *)
(* A file is a sequence of lines.  Those of Lynx, Wget and KDE name a      *)
(* protocol and its proxy, or hosts for which no proxy is to be used; they *)
(* may be indented.  Those of the Mozilla family name host and port        *)
(* separately and are looked at together at the end of the file.           *)
(***************************************************************************)
EXTENDS Integers, Sequences, SequencesExt

CONSTANTS
  Files,            \* the names proxyGuess() knows, in their order
  IsMozilla,        \* those of the Mozilla family: preferences
  Proxies,          \* URLs
  Hosts,
  Contents,         \* what may be in a file: sequences of lines with a key
                    \* and a value: for proxies <<URL>>, << >> or <<"#">> if
                    \* there is none or a comment, for hosts their sequence
  NoNewline,        \* may the last line lack its newline?
  Stamps,           \* modification times; 0 stands for no file
  Now,
  SameAge,          \* may two files be of the same age?
  Word,             \* time_t has the values 0..Word-1
  OldProxy          \* what may have been set before

Protocols == {"http", "ftp"}
NoProxy == <<"no proxy">>


ProxyGuessAssumption ==
  /\ IsMozilla \subseteq Range(Files)
  /\ Stamps \subseteq 0..(Word - 1) /\ Now \in 1..(Word - 1)
  /\ \A x \in Contents : \A i \in DOMAIN x : x[i].key \in
       Protocols \union {"no", "other", "host", "port"}

VARIABLES
  content,          \* [names -> lines], as getline() returns them
  stamp,            \* [names -> time of the last modification]
  added,            \* how many of Files have been looked for
  c,                \* the set of BrowserConfigs, sorted by age
  current,          \* the one that is read, or << >>
  rest,             \* the lines of it that are left
  prefs,            \* of a Mozilla file: hosts, ports and no_proxies_on
  setProxy,         \* has it set a proxy?
  finished,
  proxy,            \* what glibcurl_add_proxy was told last
  noproxy           \* what glibcurl_add_noproxy was told

vars == <<content, stamp, added, c, current, rest, prefs, setProxy, finished,
          proxy, noproxy>>

Names == Range(Files)
NoPrefs == [host |-> [p \in Protocols |-> << >>], port |-> [p \in Protocols |-> << >>],
            no |-> << >>]

\* The stream sees the end of the file only when it reads on: a last line
\* without a newline is left in the variable and is looked at twice.
AsRead(lines, newline) ==
  IF newline \/ lines = << >> THEN lines ELSE Append(lines, Last(lines))

Init ==
  /\ content \in [Names -> {AsRead(x, n) : x \in Contents,
                                           n \in {TRUE, ~NoNewline}}]
  /\ \A f \in Names : \A i \in DOMAIN content[f] :
       /\ content[f][i].key \in {"host", "port"} => f \in IsMozilla
       /\ content[f][i].key \in Protocols => f \notin IsMozilla
  /\ stamp \in [Names -> Stamps]
  /\ SameAge \/ \A f, g \in Names : f # g => stamp[f] # stamp[g] \/ stamp[f] = 0
  /\ added = 0 /\ c = {} /\ current = << >> /\ rest = << >>
  /\ prefs = NoPrefs /\ setProxy = FALSE /\ finished = FALSE
  /\ proxy \in [Protocols -> OldProxy] /\ noproxy = << >>

-----------------------------------------------------------------------------
(* The set of files *)

\* Mutant of Age: times are compared, not ages.
AgeAbsolute(t) == Now - t

\* now - timestamp, as a signed number.
Age(t) ==
  LET d == (Now - t) % Word IN IF d < Word \div 2 THEN d ELSE d - Word

\* add<>(): to the set, files of the same age are the same.
Add ==
  /\ added < Len(Files)
  /\ added' = added + 1
  /\ LET f == Files[added + 1]
     IN c' = IF stamp[f] = 0 \/ \E g \in c : Age(stamp[g]) = Age(stamp[f])
             THEN c ELSE c \union {f}
  /\ UNCHANGED <<content, stamp, current, rest, prefs, setProxy, finished,
                 proxy, noproxy>>

Youngest == CHOOSE f \in c : \A g \in c : Age(stamp[f]) =< Age(stamp[g])

Reading == current # << >>

\* Mutant of Scan: the pointer is taken out of the set first.
ScanErases ==
  /\ added = Len(Files) /\ ~Reading /\ ~finished /\ c # {}
  /\ current' = <<Youngest>> /\ rest' = content[Youngest]
  /\ c' = c \ {Youngest} /\ prefs' = NoPrefs /\ setProxy' = FALSE
  /\ UNCHANGED <<content, stamp, added, finished, proxy, noproxy>>

\* bc->read() begins.
Scan ==
  /\ added = Len(Files) /\ ~Reading /\ ~finished /\ c # {}
  /\ current' = <<Youngest>> /\ rest' = content[Youngest]
  /\ prefs' = NoPrefs /\ setProxy' = FALSE
  /\ UNCHANGED <<content, stamp, added, c, finished, proxy, noproxy>>

-----------------------------------------------------------------------------
(* Lines *)

\* What is left of the keyword if the value is looked for at the place where
\* it would be without spaces in front of the keyword.
KeywordTail == "tail of the keyword"
Mangled(v) == <<KeywordTail>> \o v

\* Does addProxy() take it?
IsSet(v) == v # << >> /\ v[1] # "#"

\* Mutant of Value: the value begins too early.
ValueEarly(line) == Mangled(line.value)

Value(line) == IF line.indented THEN Mangled(line.value) ELSE line.value

\* addProxy() and addNoProxy() for a line of Lynx, Wget or KDE.
ReadProxyLine ==
  LET line == Head(rest)
  IN /\ line.key \in Protocols
     /\ IF IsSet(Value(line))
        THEN /\ proxy' = [proxy EXCEPT ![line.key] = Value(line)]
             /\ setProxy' = TRUE
        ELSE UNCHANGED <<proxy, setProxy>>
     /\ UNCHANGED <<prefs, noproxy>>

\* The tail of an indented keyword counts as one more host.
ReadNoProxyLine ==
  LET line == Head(rest)
  IN /\ line.key = "no"
     /\ IF current[1] \in IsMozilla
        THEN prefs' = [prefs EXCEPT !.no = line.value] /\ UNCHANGED noproxy
        ELSE /\ noproxy' = noproxy \o
                  (IF line.indented THEN Mangled(line.value) ELSE line.value)
             /\ UNCHANGED prefs
     /\ UNCHANGED <<proxy, setProxy>>

\* A preference of a Mozilla file: the last one counts.
ReadPref ==
  LET line == Head(rest)
  IN /\ line.key \in {"host", "port"}
     /\ prefs' = [prefs EXCEPT ![line.key][line.of] = line.value]
     /\ UNCHANGED <<proxy, noproxy, setProxy>>

IgnoreLine ==
  /\ Head(rest).key = "other"
  /\ UNCHANGED <<prefs, proxy, noproxy, setProxy>>

ReadLine ==
  /\ Reading /\ rest # << >>
  /\ ReadProxyLine \/ ReadNoProxyLine \/ ReadPref \/ IgnoreLine
  /\ rest' = Tail(rest)
  /\ UNCHANGED <<content, stamp, added, c, current, finished>>

\* Mutant of Complete: a host is enough.
CompleteHost(pr, p) == pr.host[p] # << >>

Complete(pr, p) == pr.host[p] # << >> /\ pr.port[p] # << >>

Joined(pr, p) == pr.host[p] \o pr.port[p]

\* The end of read(), for all files, and of the loop's body.
EndOfFile ==
  /\ Reading /\ rest = << >>
  /\ proxy' = [p \in Protocols |-> IF Complete(prefs, p) THEN Joined(prefs, p)
                                   ELSE proxy[p]]
  /\ noproxy' = noproxy \o prefs.no
  /\ finished' = (setProxy \/ \E p \in Protocols : Complete(prefs, p))
  /\ c' = c \ {current[1]} /\ current' = << >>
  /\ UNCHANGED <<content, stamp, added, rest, prefs, setProxy>>

\* "Most recent browser config was found, just delete rest"
DeleteRest ==
  /\ finished /\ c # {}
  /\ c' = {}
  /\ UNCHANGED <<content, stamp, added, current, rest, prefs, setProxy,
                 finished, proxy, noproxy>>

Done == added = Len(Files) /\ ~Reading /\ c = {}

Next == Add \/ Scan \/ ReadLine \/ EndOfFile \/ DeleteRest
          \/ (Done /\ UNCHANGED vars)

Spec == Init /\ [][Next]_vars

-----------------------------------------------------------------------------
(* Properties *)

\* Reference definitions: the last line of file f that sets p, as a person
\* would read it; a file of the Mozilla family needs both host and port.
Setting(f, p) ==
  LET l == SelectSeq(content[f], LAMBDA x : x.key = p /\ x.value # << >> /\ x.value # <<"#">>)
      last(key) == LET s == SelectSeq(content[f],
                              LAMBDA x : x.key = key /\ x.of = p)
                   IN IF s = << >> THEN << >> ELSE Last(s).value
  IN IF last("host") # << >> /\ last("port") # << >>
     THEN last("host") \o last("port")
     ELSE IF l = << >> THEN NoProxy ELSE Last(l).value

Sets(f) == \E p \in Protocols : Setting(f, p) # NoProxy
Present == {f \in Names : stamp[f] # 0}

\* The time between two files, for times that lie less than half a turn of
\* the clock from now; positive if f is the older one.
Older(f, g) ==
  LET ago(h) == (Now + Word \div 2 - 1 - stamp[h]) % Word IN ago(f) > ago(g)

\* Types.  The file that is read is in the set until it has been read.
TypeOK ==
  /\ added \in 0..Len(Files) /\ c \subseteq Names /\ finished \in BOOLEAN
  /\ Reading => current[1] \in c
  /\ Range(noproxy) \subseteq Hosts \union {KeywordTail}

\* The proxies are those of the most recent file that sets any, "Most recent
\* browser config was found", and never a mixture of two files.
NewestWins ==
  Done /\ finished =>
    \E f \in Present :
      /\ Sets(f)
      /\ \A g \in Present : Sets(g) => ~Older(f, g)
      /\ \A p \in Protocols : IF Setting(f, p) = NoProxy
                              THEN proxy[p] \in OldProxy
                              ELSE proxy[p] = Setting(f, p)

\* If some file sets a proxy, one is used; otherwise none is set.
FoundIfAny ==
  Done => /\ finished <=> \E f \in Present : Sets(f)
          /\ ~finished => \A p \in Protocols : proxy[p] \in OldProxy

\* "proxy must start with a scheme like http:" (addProxy()).
ProxyIsNamed ==
  \A p \in Protocols :
    proxy[p] \in OldProxy \/ Range(proxy[p]) \subseteq Proxies

\* "Sets http and ftp to the selected proxy, or clears it if using direct
\* internet connection."
Cleared ==
  Done /\ ~finished => \A p \in Protocols : proxy[p] = NoProxy

\* "Accumulates noproxy entries from all sources."
AllSources ==
  Done => \A f \in Present : \A i \in DOMAIN content[f] :
            content[f][i].key = "no" /\ f \notin IsMozilla =>
              Range(content[f][i].value) \subseteq Range(noproxy)
=============================================================================
