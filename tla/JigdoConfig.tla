----------------------------- MODULE JigdoConfig -----------------------------
(***************************************************************************)
(* JigdoConfig (src/jigdoconfig.cc, jigdoconfig.hh): rescan() expands the  *)
(* lines of the [Servers] sections to a map from labels to URIs, and       *)
(* Lookup enumerates the URIs of a query "Label:path".                     *)
(*                                                                         *)
(* A line is [label, ref, text] for "Label=Ref:text"; ref is NoLabel for a *)
(* value without a colon, and text is "" for an empty value; a line with   *)
(* label NoLabel is no entry.  A URI is the sequence of the texts it was   *)
(* put together from, a reference that was not replaced being <<label>>.   *)
(***************************************************************************)
EXTENDS Naturals, SequencesExt

CONSTANTS
  Labels, NoLabel,
  Files,            \* what the file may be: a sequence of [name, lines, version]
  Queries,          \* [ref, text]
  FILEFORMAT_MAJOR,
  Word,             \* 2^32: the range of the version number
  MaxRescans        \* bound: changes of the file that are followed by a rescan

JigdoConfigAssumption ==
  /\ NoLabel \notin Labels
  /\ FILEFORMAT_MAJOR \in Nat /\ Word \in Nat \ {0} /\ FILEFORMAT_MAJOR < Word

VARIABLES
  config,           \* the file
  entries,          \* the list of lines not handled yet: their numbers
  serverMap,        \* label -> sequence of URIs
  stack,            \* the calls of rescan_addLabel(), the outermost first
  state,            \* "rescan", "ready", "error" (thrown), "undefined"
  lookup,           \* the Lookup object, or None
  results,          \* history: what its next() returned
  rescans

vars == <<config, entries, serverMap, stack, state, lookup, results, rescans>>

None == [query |-> << >>, uri |-> FALSE, cur |-> 0]

\* All lines of the sections of a name, in order
LinesOf(file, name) ==
  FlattenSeq([n \in DOMAIN file |-> IF file[n].name = name THEN file[n].lines ELSE << >>])

\* The entries among them
Servers == SelectSeq(LinesOf(config, "Servers"), LAMBDA l : l.label # NoLabel)

Uri(l) == (IF l.ref = NoLabel THEN << >> ELSE <<<<l.ref>>>>) \o <<l.text>>

-----------------------------------------------------------------------------
(* rescan() *)

Init ==
  /\ config \in Files
  /\ entries = [n \in DOMAIN Servers |-> n]
  /\ serverMap = << >> /\ stack = << >>
  /\ state = "rescan" /\ lookup = None /\ results = << >> /\ rescans = 0

\* The first entry with a label, or 0
Found(label) ==
  LET some == SelectSeq(entries, LAMBDA n : Servers[n].label = label)
  IN IF some = << >> THEN 0 ELSE Head(some)

\* Mutant of Calls: no entry is created before the lines are handled.
CallsLate(label) ==
  stack' = Append(stack, [label |-> label, line |-> Found(label)])
  /\ serverMap' = serverMap

\* rescan_addLabel() is called for a label that is not in the map: the entry in
\* the map is created, and the first line of the label looked for.
Calls(label) ==
  /\ serverMap' = [l \in DOMAIN serverMap \cup {label} |->
                     IF l = label THEN << >> ELSE serverMap[l]]
  /\ stack' = Append(stack, [label |-> label, line |-> Found(label)])

\* The loop of rescan(): with the label of the entry in front
RescanCalls ==
  /\ state = "rescan" /\ stack = << >> /\ entries # << >>
  /\ IF Servers[Head(entries)].label \in DOMAIN serverMap THEN UNCHANGED <<serverMap, stack>>
     ELSE Calls(Servers[Head(entries)].label)
  /\ UNCHANGED <<config, entries, state, lookup, results, rescans>>

Top == Last(stack)
Line == Servers[Top.line]
InCall == state = "rescan" /\ stack # << >>

\* Mutant of Recurse: it is not looked whether the label is in the map.
RecurseAlways ==
  /\ InCall /\ Top.line # 0 /\ Line.ref # NoLabel
  /\ Calls(Line.ref)
  /\ UNCHANGED <<config, entries, state, lookup, results, rescans>>

\* rescan_makeSubst(): the label referred to has to be in the map first.
Recurse ==
  /\ InCall /\ Top.line # 0
  /\ Line.ref # NoLabel /\ Line.ref \notin DOMAIN serverMap
  /\ Calls(Line.ref)
  /\ UNCHANGED <<config, entries, state, lookup, results, rescans>>

\* Mutant of Substitutes: only the first URI of the label is made use of.
SubstitutesOne(uris) ==
  IF uris = << >> THEN <<Uri(Line)>> ELSE <<Append(uris[1], Line.text)>>

\* What a line adds to the URIs of its label, given those of its reference
Substitutes(uris) ==
  IF uris = << >> THEN <<Uri(Line)>>
  ELSE [n \in DOMAIN uris |-> Append(uris[n], Line.text)]

\* Mutant of Substitute: only the first line of the label is handled.
SubstituteFirst ==
  /\ InCall /\ Top.line # 0
  /\ Line.ref = NoLabel
     \/ (Line.ref \in DOMAIN serverMap
         /\ (Line.ref = Top.label => serverMap[Line.ref] = << >>))
  /\ serverMap' = [serverMap EXCEPT ![Top.label] =
                     @ \o Substitutes(IF Line.ref = NoLabel THEN << >>
                                      ELSE serverMap[Line.ref])]
  /\ entries' = SelectSeq(entries, LAMBDA n : n # Top.line)
  /\ stack' = Append(Front(stack), [Top EXCEPT !.line = 0])
  /\ UNCHANGED <<config, state, lookup, results, rescans>>

\* The URIs of the line are appended, the entry is erased, and the next one of
\* the label looked for, from the beginning of the list.
Substitute ==
  /\ InCall /\ Top.line # 0
  /\ Line.ref = NoLabel
     \/ (Line.ref \in DOMAIN serverMap
         /\ (Line.ref = Top.label => serverMap[Line.ref] = << >>))
  /\ serverMap' = [serverMap EXCEPT ![Top.label] =
                     @ \o Substitutes(IF Line.ref = NoLabel THEN << >>
                                      ELSE serverMap[Line.ref])]
  /\ entries' = SelectSeq(entries, LAMBDA n : n # Top.line)
  /\ stack' = Append(Front(stack),
                [Top EXCEPT !.line =
                   LET some == SelectSeq(entries', LAMBDA n : Servers[n].label = Top.label)
                   IN IF some = << >> THEN 0 ELSE Head(some)])
  /\ UNCHANGED <<config, state, lookup, results, rescans>>

\* The label refers to itself and has URIs: the vector is appended to while its
\* iterators are in use.
SubstituteItself ==
  /\ InCall /\ Top.line # 0
  /\ Line.ref = Top.label /\ serverMap[Top.label] # << >>
  /\ state' = "undefined"
  /\ UNCHANGED <<config, entries, serverMap, stack, lookup, results, rescans>>

Return ==
  /\ InCall /\ Top.line = 0 /\ stack' = Front(stack)
  /\ UNCHANGED <<config, entries, serverMap, state, lookup, results, rescans>>

\* scanVersionInfo(): the first line of the first [Jigdo] section
Version ==
  LET sections == SelectSeq(config, LAMBDA x : x.name = "Jigdo")
      lines == IF sections = << >> THEN << >> ELSE Head(sections).lines
  IN IF lines = << >> THEN 0 ELSE Head(lines).version % Word

Finish ==
  /\ state = "rescan" /\ stack = << >> /\ entries = << >>
  /\ state' = IF Version > FILEFORMAT_MAJOR THEN "error" ELSE "ready"
  /\ UNCHANGED <<config, entries, serverMap, stack, lookup, results, rescans>>

\* Mutant of ChangeAndRescan: the map is not emptied.
ChangeKeeps ==
  /\ state = "ready" /\ lookup = None /\ rescans < MaxRescans
  /\ config' \in Files
  /\ entries' = [n \in DOMAIN Servers' |-> n] /\ serverMap' = serverMap
  /\ state' = "rescan" /\ results' = << >> /\ rescans' = rescans + 1
  /\ UNCHANGED <<stack, lookup>>

\* The user of the class has changed the file and calls rescan() again.  There
\* may be no Lookup.
ChangeAndRescan ==
  /\ state = "ready" /\ lookup = None /\ rescans < MaxRescans
  /\ config' \in Files
  /\ entries' = [n \in DOMAIN Servers' |-> n] /\ serverMap' = << >>
  /\ state' = "rescan" /\ results' = << >> /\ rescans' = rescans + 1
  /\ UNCHANGED <<stack, lookup>>

-----------------------------------------------------------------------------
(* Lookup; cur is 0 for the query itself. *)

UrisFor(query) == IF query.ref \in DOMAIN serverMap THEN serverMap[query.ref] ELSE << >>

NewLookup(query) ==
  /\ state = "ready" /\ lookup = None
  /\ lookup' = [query |-> query, uri |-> TRUE,
                cur |-> IF UrisFor(query) = << >> THEN 0 ELSE 1]
  /\ results' = << >>
  /\ UNCHANGED <<config, entries, serverMap, stack, state, rescans>>

Result ==
  IF lookup.cur = 0 THEN Uri(lookup.query)
  ELSE Append(UrisFor(lookup.query)[lookup.cur], lookup.query.text)

\* Mutant of LookupNext: the last URI is not returned.
LookupNextBefore ==
  /\ lookup.uri /\ results' = Append(results, Result)
  /\ lookup' = [lookup EXCEPT !.cur = @ + 1,
                 !.uri = lookup.cur # 0 /\ lookup.cur + 1 < Len(UrisFor(lookup.query))]
  /\ UNCHANGED <<config, entries, serverMap, stack, state, rescans>>

\* next(); when the last URI is returned, the pointer to the query becomes null.
LookupNext ==
  /\ lookup.uri /\ results' = Append(results, Result)
  /\ lookup' = [lookup EXCEPT !.cur = @ + 1,
                 !.uri = lookup.cur # 0 /\ lookup.cur < Len(UrisFor(lookup.query))]
  /\ UNCHANGED <<config, entries, serverMap, stack, state, rescans>>

\* The Lookup goes out of scope.
LookupEnds ==
  /\ lookup # None /\ lookup' = None
  /\ UNCHANGED <<config, entries, serverMap, stack, state, results, rescans>>

-----------------------------------------------------------------------------

Rescanning ==
  RescanCalls \/ Recurse \/ Substitute \/ SubstituteItself \/ Return \/ Finish

Next ==
  \/ Rescanning \/ ChangeAndRescan
  \/ \E query \in Queries : NewLookup(query)
  \/ LookupNext \/ LookupEnds
  \/ state \in {"error", "undefined"} /\ UNCHANGED vars

\* The program calls nothing else until rescan() returns.
Spec == Init /\ [][Next]_vars /\ WF_vars(Rescanning)

-----------------------------------------------------------------------------
(* Properties *)

Defined == {Servers[n].label : n \in DOMAIN Servers}
Refers(a, b) == \E n \in DOMAIN Servers : Servers[n].label = a /\ Servers[n].ref = b

\* The labels a label depends on, in up to that many steps
RECURSIVE Below(_, _)
Below(label, steps) ==
  IF steps = 0 THEN {}
  ELSE LET next == {b \in Labels : Refers(label, b)}
       IN next \cup UNION {Below(b, steps - 1) : b \in next}

Loops == {l \in Labels : l \in Below(l, Len(Servers))}

RECURSIVE Expansion(_)
\* The URIs of a label: those of its lines, in the order of the file, with each
\* of those of the label a line refers to
Expansion(label) ==
  FlattenSeq([n \in DOMAIN Servers |->
    LET l == Servers[n]
        uris == IF l.ref = NoLabel THEN << >> ELSE Expansion(l.ref)
    IN CASE l.label # label -> << >>
         [] l.label = label /\ uris = << >> -> <<Uri(l)>>
         [] OTHER -> [m \in DOMAIN uris |-> Append(uris[m], l.text)]])

TypeOK ==
  /\ config \in Files /\ ToSet(entries) \subseteq DOMAIN Servers
  /\ DOMAIN serverMap \subseteq Labels
  /\ \A n \in DOMAIN stack : stack[n].label \in DOMAIN serverMap
                             /\ stack[n].line \in 0..Len(Servers)
  /\ state \in {"rescan", "ready", "error", "undefined"} /\ rescans \in 0..MaxRescans

\* A line that a call works on is not erased by the calls it makes, and no label
\* is worked on by two calls.
HeldLinesStay ==
  \A n \in DOMAIN stack :
    /\ stack[n].line # 0 => stack[n].line \in ToSet(entries)
    /\ \A m \in DOMAIN stack : stack[m].label = stack[n].label => m = n

\* If labels do not refer to each other in a loop, each has the URIs it is
\* defined to have, those without lines having none.
MapExpands ==
  state = "ready" /\ Loops = {} =>
    \A l \in Defined \cup DOMAIN serverMap :
      l \in DOMAIN serverMap /\ serverMap[l] = Expansion(l)

\* "The class will enumerate all the possible URIs": a Lookup gives what the
\* query would have been expanded to as a line of the file.
LookupsComplete ==
  lookup # None /\ Loops = {} =>
    LET uris == Expansion(lookup.query.ref)
        all == IF uris = << >> THEN <<Uri(lookup.query)>>
               ELSE [n \in DOMAIN uris |-> Append(uris[n], lookup.query.text)]
    IN IsPrefix(results, all) /\ (results = all <=> ~lookup.uri)

\* rescan() is not at work; "infinite recursion due to a loop of labels
\* referencing each other is not possible", so this is so again and again,
\* whatever the file.
Rescanned == state # "rescan"

\* "In case of loops, ... all the mappings "below" what caused the loop will be
\* omitted": no URI that is left begins with a label that has lines.
LoopsOmitted ==
  state = "ready" => \A l \in DOMAIN serverMap : \A u \in ToSet(serverMap[l]) :
    \A d \in Defined : u[1] # <<d>>

\* "In case of loops, the resulting mapping is undefined", but there is one.
LoopsHarmless == state # "undefined"
===============================================================================
