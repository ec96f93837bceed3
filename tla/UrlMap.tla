------------------------------- MODULE UrlMap -------------------------------
(***************************************************************************)
(* UrlMap and PartUrlMapping (src/job/url-mapping.hh, .cc): the lines of   *)
(* the [Servers] and [Parts] sections of .jigdo files build up a graph,    *)
(* and the URLs of a part are the paths through it, the best one first.    *)
(*                                                                         *)
(* An object is a number, 0 the null pointer; prepend and next point to    *)
(* other objects.  A URL is the sequence of texts on the path, a text a    *)
(* member of Texts or <<label>> for the URL of a dummy, "label:".  What    *)
(* follows a failed call is not modelled: JigdoIO gives up then.           *)
(***************************************************************************)
EXTENDS Integers, Sequences, FiniteSets

CONSTANTS
  Labels,           \* including those that stand for a protocol
  Texts,
  EndsInColon,      \* the texts whose last character is ':'
  NoLabel,          \* of a URL that is not absolute
  ServerLines,      \* lines of [Servers]: label, prepend, text, weight
  PartLines,        \* lines for the part: prepend, text, weight
  BadLines,         \* those with an option that parseOptions() refuses; their
                    \* weight is that of the options before it
  InitialWeights,   \* what the random initial weight may be
  OneLineEach,      \* whether each label has at most one line
  MaxLines,         \* bound: lines read
  MaxCalls,         \* bound: length of the loop that looks for recursion
  MaxReturned       \* bound: calls of enumerate(), more than there are URLs

LineOf(labels) == [label : labels, prepend : Labels \union {NoLabel},
                   text : Texts, weight : Int]

UrlMapAssumption ==
  /\ ServerLines \subseteq LineOf(Labels)
  /\ PartLines \subseteq LineOf({NoLabel}) /\ NoLabel \notin Labels
  /\ BadLines \subseteq ServerLines \union PartLines
  /\ EndsInColon \subseteq Texts /\ InitialWeights \subseteq Int
  /\ OneLineEach \in BOOLEAN
  /\ MaxLines \in Nat /\ MaxCalls \in Nat /\ MaxReturned \in Nat

VARIABLES
  objects,          \* UrlMappings
  servers,          \* label -> head of its list of objects
  part,             \* head of the list of PartUrlMappings
  accepted,         \* the lines read, for the properties
  seen,             \* numbers of the leaves that were enumerated
  returned,         \* what enumerate() has returned: URL, score
  state             \* "lines", "failed", "enumerating", "end"

vars == <<objects, servers, part, accepted, seen, returned, state>>

Init ==
  /\ objects = << >> /\ servers = [l \in Labels |-> 0] /\ part = 0
  /\ accepted = << >> /\ seen = {} /\ returned = << >> /\ state = "lines"

\* The lines read.  The inputs are those that have no line twice and, if
\* OneLineEach, only one line for each label.
Read == {accepted[i] : i \in DOMAIN accepted}
MoreServerLines ==
  {line \in ServerLines \ Read :
    OneLineEach => \A l \in Read : l.label # line.label}

-----------------------------------------------------------------------------
(* Building the graph.  A heap is a pair of objects and servers. *)

\* Mutant of New: the pointer to the next object is not initialised.
NewDangling(text, weight) ==
  [text |-> text, prepend |-> 0, next |-> -1, weight |-> weight]

New(text, weight) ==
  [text |-> text, prepend |-> 0, next |-> 0, weight |-> weight]

\* findOrCreateServerUrlMapping()
FindOrCreate(heap, label, weight) ==
  IF label = NoLabel \/ heap.servers[label] # 0 THEN heap
  ELSE [objects |-> Append(heap.objects, New(<<label>>, weight)),
        servers |-> [heap.servers EXCEPT ![label] = Len(heap.objects) + 1]]

Prepend(heap, label) == IF label = NoLabel THEN 0 ELSE heap.servers[label]

\* insertNext(): n becomes the second of the list, or the only one.
Inserted(heap, head, n) ==
  [heap EXCEPT !.objects[n].next = heap.objects[head].next,
               !.objects[head].next = n]

\* What is linked stays so if the line is refused.
Answer(ok, line) ==
  IF ok THEN accepted' = Append(accepted, line) /\ UNCHANGED state
        ELSE state' = "failed" /\ UNCHANGED accepted

\* addPart()
AddPart ==
  /\ state = "lines" /\ Len(accepted) < MaxLines
  /\ \E line \in PartLines \ Read, w1, w2 \in InitialWeights :
       LET n == Len(objects) + 1
           new == [objects |-> Append(objects, New(line.text, w1)),
                   servers |-> servers]
           heap == FindOrCreate(new, line.prepend, w2)
           set == [heap EXCEPT
                     !.objects[n].prepend = Prepend(heap, line.prepend),
                     !.objects[n].weight = w1 + line.weight]
       IN /\ objects' = IF part = 0 THEN set.objects
                        ELSE Inserted(set, part, n).objects
          /\ servers' = set.servers
          /\ part' = IF part = 0 THEN n ELSE part
          /\ Answer(line \notin BadLines, line)
  /\ UNCHANGED <<seen, returned>>

\* Mutant of Dummy: a dummy is not recognised.
DummyNever(object) == FALSE

\* "Dummy mapping recognizable by trailing ':'"
Dummy(object) == object.text \notin Texts \/ object.text \in EndsInColon

\* Mutant of Recursive: only the label itself is compared.
RecursiveDirect(heap, list, n) == n = list

\* "Check whether this is a recursive definition": from head to head.
Heads(heap, n) ==
  LET h[k \in 0..MaxCalls] ==
        IF k = 0 THEN n
        ELSE LET m == h[k-1] IN IF m = 0 THEN 0 ELSE heap.objects[m].prepend
  IN h

Recursive(heap, list, n) ==
  \E k \in 0..MaxCalls : Heads(heap, n)[k] = list

\* addServer()
AddServer ==
  /\ state = "lines" /\ Len(accepted) < MaxLines
  /\ \E line \in MoreServerLines, w1, w2 \in InitialWeights :
       LET old == servers[line.label]
           heap0 == [objects |-> objects, servers |-> servers]
           new == [objects |-> Append(objects, New(line.text, w1)),
                   servers |-> servers]
           n == Len(objects) + 1
           s == IF old # 0 /\ Dummy(objects[old]) THEN old ELSE n
           heap1 == CASE old = 0 -> [new EXCEPT !.servers[line.label] = n]
                      [] s = old -> heap0
                      [] OTHER -> Inserted(new, old, n)
           list == heap1.servers[line.label]
           heap == FindOrCreate(heap1, line.prepend, w2)
           prep == Prepend(heap, line.prepend)
           bad == prep # 0 /\ Recursive(heap, list, prep)
       IN /\ objects' = [heap.objects EXCEPT
                          ![s].text = line.text,
                          ![s].prepend = IF bad THEN 0
                                         ELSE IF prep = 0 THEN @ ELSE prep,
                          ![s].weight = IF bad THEN @ ELSE @ + line.weight]
          /\ servers' = heap.servers
          /\ Answer(~bad /\ line \notin BadLines, line)
  /\ UNCHANGED <<part, seen, returned>>

\* The last .jigdo file is complete (jigdoFinished2); enumerate() is called
\* if there is the part.
LinesEnd ==
  /\ state = "lines"
  /\ state' = IF part = 0 THEN "end" ELSE "enumerating"
  /\ UNCHANGED <<objects, servers, part, accepted, seen, returned>>

-----------------------------------------------------------------------------
(* PartUrlMapping::enumerate *)

\* The leaves below object n and its peers, in the order of the walk; score
\* and length are those of the path up to there.
RECURSIVE Leaves(_, _, _)
Leaves(n, score, path) ==
  IF n = 0 THEN << >>
  ELSE LET o == objects[n]
           s == score + o.weight
           p == <<o.text>> \o path
       IN (IF o.prepend = 0 THEN << [url |-> p, sum |-> s, len |-> Len(p)] >>
           ELSE Leaves(o.prepend, s, p)) \o Leaves(o.next, score, path)

\* Mutant of Better: the score is the sum and not the mean.
BetterSum(a, b) == a.sum > b.sum

\* The score is the mean of the weights on the path.
Better(a, b) == a.sum * b.len > b.sum * a.len

\* Mutant of Unseen: what was returned before is not left out.
UnseenAny(leaves) == DOMAIN leaves

Unseen(leaves) == DOMAIN leaves \ seen

\* The first of the best leaves that were not returned before.
BestSerialNr(leaves) ==
  CHOOSE i \in Unseen(leaves) :
    \A j \in Unseen(leaves) : /\ ~Better(leaves[j], leaves[i])
                              /\ j < i => Better(leaves[i], leaves[j])

Enumerate ==
  /\ state = "enumerating" /\ Len(returned) < MaxReturned
  /\ LET leaves == Leaves(part, 0, << >>)
     IN IF Unseen(leaves) = {}
        THEN state' = "end" /\ UNCHANGED <<seen, returned>>
        ELSE /\ seen' = seen \union {BestSerialNr(leaves)}
             /\ returned' = Append(returned, leaves[BestSerialNr(leaves)])
             /\ UNCHANGED state
  /\ UNCHANGED <<objects, servers, part, accepted>>

Finished ==
  /\ state \in {"end", "failed"} \/ Len(returned) = MaxReturned
  /\ UNCHANGED vars

Next == AddPart \/ AddServer \/ LinesEnd \/ Enumerate \/ Finished

\* The lines come to an end, and whoever needs the part asks for all its URLs.
Spec == Init /\ [][Next]_vars
FairSpec == Spec /\ WF_vars(Enumerate) /\ WF_vars(LinesEnd)

-----------------------------------------------------------------------------
(* Properties *)

Objects == DOMAIN objects

\* Types, and that pointers point to objects.
TypeOK ==
  /\ \A n \in Objects :
       /\ objects[n].text \in Texts \union {<<l>> : l \in Labels}
       /\ objects[n].prepend \in 0..Len(objects)
       /\ objects[n].next \in 0..Len(objects)
       /\ objects[n].weight \in Int
  /\ servers \in [Labels -> 0..Len(objects)] /\ part \in 0..Len(objects)
  /\ state \in {"lines", "failed", "enumerating", "end"}

\* The loop in addServer() that looks for recursion ends: from the head of a
\* list to the head of what is prepended to it there is no way back.
HeadsEnd ==
  \A n \in Objects : Heads([objects |-> objects], n)[MaxCalls] = 0

\* The objects that enumerate() gets to from object n.
Below(n) ==
  LET r[k \in 0..Len(objects)] ==
        IF k = 0 THEN {objects[n].prepend}
        ELSE LET S == r[k-1]
             IN S \union UNION {{objects[m].next, objects[m].prepend} :
                                m \in S \ {0}}
  IN r[Len(objects)] \ {0}

\* "Representation of the directed, acyclic graph": the recursion in
\* enumerate() ends.
Acyclic == \A n \in Objects : n \notin Below(n)

\* What the lines of a .jigdo file mean, without pointers: the URLs of the
\* label are those of its lines, or "label:" if there are none.
Lines(label) == {i \in DOMAIN accepted : accepted[i].label = label}

RECURSIVE UrlsOf(_)
UrlsOfLine(line) ==
  {u \o <<line.text>> : u \in IF line.prepend = NoLabel THEN {<< >>}
                              ELSE UrlsOf(line.prepend)}
UrlsOf(label) ==
  IF Lines(label) = {} THEN {<< <<label>> >>}
  ELSE UNION {UrlsOfLine(accepted[i]) : i \in Lines(label)}

PartUrls == UNION {UrlsOfLine(accepted[i]) : i \in Lines(NoLabel)}

\* Whatever the order of the lines, and although a label may be used before
\* it is defined, in the end exactly the URLs of the part are returned.
AllUrlsReturned ==
  state = "end" => {returned[i].url : i \in DOMAIN returned} = PartUrls

\* "Ensure this URL is only output once": no path is taken twice.
OnceEach == Len(returned) = Cardinality(seen)

\* "Enumerates all possible URLs, sorted by weight".
BestFirst ==
  \A i \in 2..Len(returned) :
    returned[i].sum * returned[i-1].len =< returned[i-1].sum * returned[i].len

\* Whoever wants all URLs of a part gets to the end of them, unless the lines
\* were refused.
AllEnumerated == state \in {"end", "failed"}
=============================================================================
