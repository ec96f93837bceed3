------------------------------ MODULE ImageInfo ------------------------------
(***************************************************************************)
(* MakeImageDl::imageInfo() (src/job/makeimagedl-info.cc): the entry Info  *)
(* of a .jigdo file is a text with tags that the user interface wants in   *)
(* another markup, or without any; if it is not well-formed, it is shown   *)
(* as it was written.  The parser is that of glib: it hands over one       *)
(* element or one piece of text at a time.                                 *)
(*                                                                         *)
(* Characters of a text are <<c, level>>: on level 0, c is that character; *)
(* "<" is on level 1 if written as "&lt;", on level 2 if written as        *)
(* "&amp;lt;", and so on.                                                  *)
(***************************************************************************)
EXTENDS Integers, Sequences, FiniteSets, SequencesExt

CONSTANTS
  Styles,           \* elements like b
  Strange,          \* elements that there are not
  Chars,            \* what a text may be made up of
  KeepsEntities,    \* does the parser hand over text as it was written?
  MaxInfo           \* bound: length of the entry

Elements == Styles \union Strange \union {"br", "x"}
Tokens ==
  [t : {"start", "end"}, of : Elements] \union [t : {"text"}, c : Chars]
  \union [t : {"attribute"}, of : Elements] \union {[t |-> "comment"]}

ImageInfoAssumption ==
  /\ KeepsEntities \in BOOLEAN /\ MaxInfo \in Nat
  /\ \A c \in Chars : c[2] \in Nat /\ (c[1] = "<" => c[2] > 0)

VARIABLES
  escapedText,      \* is the output to be markup?
  info,             \* the entry, as far as it has been read
  elements,         \* the parser's stack of open elements, the innermost first
  depth,
  output,
  err,              \* has the parser or one of the functions found an error?
  done

vars == <<escapedText, info, elements, depth, output, err, done>>

Before == <<[out |-> "before"]>>

\* The parser has read "<x>".
Init ==
  /\ escapedText \in BOOLEAN /\ info = << >> /\ elements = <<"x">> /\ depth = 1
  /\ output = Before /\ err = FALSE /\ done = FALSE

-----------------------------------------------------------------------------
(* The functions that the parser calls *)

Fails == err' = TRUE /\ UNCHANGED output
Put(o) == output' = Append(output, o) /\ err' = FALSE

ParseStartElem(e, attribute) ==
  /\ depth' = depth + 1
  /\ IF attribute THEN Fails
     ELSE IF e = "x" /\ depth + 1 = 1 THEN UNCHANGED <<output, err>>
     ELSE IF e \in Strange \union {"x"} THEN Fails
     ELSE Put([out |-> "start", of |-> e])

\* Mutant of ParseEndElem: br returns before anything else.
ParseEndElemBr(e) ==
  IF e = "br" THEN UNCHANGED <<depth, output, err>>
  ELSE /\ depth' = depth - 1
       /\ IF e = "x" /\ depth - 1 = 0 THEN UNCHANGED <<output, err>>
          ELSE IF e \in Strange \union {"x"} THEN Fails
          ELSE Put([out |-> "end", of |-> e])

ParseEndElem(e) ==
  /\ depth' = depth - 1
  /\ IF (e = "x" /\ depth - 1 = 0) \/ e = "br" THEN UNCHANGED <<output, err>>
     ELSE IF e \in Strange \union {"x"} THEN Fails
     ELSE Put([out |-> "end", of |-> e])

\* Mutant of Unescaped: what it put out is read again.
UnescapedTwice(c) == <<c[1], 0>>

Unescaped(c) == IF c[2] = 0 THEN c ELSE <<c[1], c[2] - 1>>

\* What the parser hands over.
HandedOver(c) == IF KeepsEntities THEN c ELSE Unescaped(c)

\* Mutant of TextOut: markup and plain text are swapped.
TextOutSwapped(c) == IF escapedText THEN Unescaped(c) ELSE c

\* "Leave escaped", or unescape.
TextOut(c) == IF escapedText THEN c ELSE Unescaped(c)

ParseText(c) ==
  /\ IF elements[1] = "br" THEN Fails
     ELSE Put([out |-> "text", c |-> TextOut(HandedOver(c))])
  /\ UNCHANGED depth

\* Comments, processing instructions and CDATA sections.
ParseComment == Fails /\ UNCHANGED depth

-----------------------------------------------------------------------------
(* The parser *)

\* What is a matter for the parser: elements that overlap, text after the last
\* end tag.
Rejects == err' = TRUE /\ UNCHANGED <<elements, depth, output>>

Parse(tok) ==
  \/ /\ tok.t \in {"start", "attribute"}
     /\ elements' = <<tok.of>> \o elements
     /\ ParseStartElem(tok.of, tok.t = "attribute")
  \/ /\ tok.t = "end"
     /\ IF elements # << >> /\ elements[1] = tok.of
        THEN elements' = Tail(elements) /\ ParseEndElem(tok.of)
        ELSE Rejects
  \/ /\ tok.t \in {"text", "comment"}
     /\ IF elements = << >> THEN Rejects
        ELSE UNCHANGED elements /\ IF tok.t = "text" THEN ParseText(tok.c)
                                   ELSE ParseComment

\* One more element or character of the entry; after an error the parser is
\* not called any more.
Feed(tok) ==
  /\ ~done /\ Len(info) < MaxInfo
  /\ info' = Append(info, tok)
  /\ IF err THEN UNCHANGED <<elements, depth, output, err>> ELSE Parse(tok)
  /\ UNCHANGED <<escapedText, done>>

\* Mutant of Whole: what was output before the error remains.
WholeAfter == output \o [i \in DOMAIN info |-> [out |-> "whole", tok |-> info[i],
                                                escaped |-> escapedText]]

\* The entry as it was written, escaped if the output is to be markup.
Whole == Before \o [i \in DOMAIN info |-> [out |-> "whole", tok |-> info[i],
                                           escaped |-> escapedText]]

\* "</x>" and the end of the text.
Finish ==
  /\ ~done /\ done' = TRUE
  /\ LET fails == err \/ elements # <<"x">> \/ depth # 1
     IN /\ err' = fails
        /\ output' = IF fails THEN Whole ELSE output
  /\ UNCHANGED <<escapedText, info, elements, depth>>

Next ==
  \/ \E tok \in Tokens : Feed(tok)
  \/ Finish
  \/ done /\ UNCHANGED vars

Spec == Init /\ [][Next]_vars

-----------------------------------------------------------------------------
(* Properties *)

\* The open elements after each part of the output; "bad" if there is no sense
\* in it.
Nesting(out) ==
  LET after[n \in 0..Len(out)] ==
        IF n = 0 THEN << >>
        ELSE LET s == after[n - 1]
                 o == out[n]
             IN CASE o.out = "start" /\ o.of # "br" -> <<o.of>> \o s
                  [] o.out = "end" -> IF s # << >> /\ s[1] = o.of THEN Tail(s)
                                      ELSE <<"bad">> \o s
                  [] OTHER -> s
  IN after[Len(out)]

\* Types.
TypeOK ==
  /\ escapedText \in BOOLEAN /\ err \in BOOLEAN /\ done \in BOOLEAN
  /\ info \in Seq(Tokens) /\ depth \in 0..(MaxInfo + 1)
  /\ Range(elements) \subseteq Elements
  /\ ~err => depth = Len(elements)

\* The user interface can show what it gets: the tags are nested as in the
\* entry, and no character of the text is taken for one.
IsMarkup ==
  done /\ escapedText =>
    /\ Nesting(output) = << >>
    /\ \A i \in DOMAIN output :
         /\ output[i].out = "text" => (output[i].c[1] = "<" => output[i].c[2] > 0)
         /\ output[i].out = "whole" => output[i].escaped

Meant(c) == <<c[1], IF c[2] = 0 THEN 0 ELSE c[2] - 1>>

\* "any "&lt;" in the normal text should be kept escaped as "&lt;"", and
\* without markup is "<": the text says what the entry says.
TextIsKept ==
  done /\ ~err =>
    LET written == SelectSeq(info, LAMBDA tok : tok.t = "text")
        shown == SelectSeq(output, LAMBDA o : o.out = "text")
    IN shown = [i \in DOMAIN written |->
                  [out |-> "text", c |-> IF escapedText THEN written[i].c
                                         ELSE Meant(written[i].c)]]

\* With an error, the entry is shown as it was written and nothing else; what
\* was in the string before remains.
AllOrNothing ==
  /\ output[1].out = "before"
  /\ done => LET whole == SelectSeq(output, LAMBDA o : o.out = "whole")
             IN IF err THEN Len(output) = 1 + Len(info) /\ Len(whole) = Len(info)
                ELSE whole = << >>

\* "<br> element must be empty"
BrIsEmpty ==
  done /\ ~err => \A i \in DOMAIN info :
    info[i].t = "start" /\ info[i].of = "br" =>
      i < Len(info) /\ info[i + 1].t = "end"

\* "XML-style string, with markup containing tags named: b i tt u big small br
\* p": none of them is an error by itself.
TagsAreKnown ==
  done /\ info = <<[t |-> "start", of |-> "p"], [t |-> "end", of |-> "p"]>> => ~err
=============================================================================
