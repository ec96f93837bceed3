-------------------------------- MODULE Subst --------------------------------
(***************************************************************************)
(* subst() (src/util/string-utf.cc): arguments are put into a format in    *)
(* the place of "%1" to "%9", with flags that say how a string is to be    *)
(* treated.  Everything the user interface and the log show goes through   *)
(* it, among it text from .jigdo files that anybody may have written.      *)
(*                                                                         *)
(* A string is a sequence of bytes: "hi" and "lo" are the first and the    *)
(* second byte of a character outside ASCII, and "<" stands for the three  *)
(* characters < > & that mean something in markup.                         *)
(***************************************************************************)
EXTENDS Integers, Sequences, FiniteSets, SequencesExt

CONSTANTS
  Alphabet,         \* characters of formats
  Args,             \* choices of arguments: sequences of [type, val]
  MaxFormat         \* bound: length of the format

Types == {"number", "char", "string"}
Bytes == {"a", "<", "hi", "lo"}
Digits == <<"1", "2", "3">>
Flags == {"F", "L", "E"}

SubstAssumption ==
  /\ \A args \in Args : \A i \in DOMAIN args :
       args[i].type \in Types /\ args[i].val \in Seq(Bytes)
  /\ MaxFormat \in Nat

VARIABLES
  format,           \* as far as it has been read
  args,
  escape,           \* position of the '%' of an escape, or 0
  flags,
  result,           \* bytes, with the argument they are from (0: the format),
                    \* its flags and the place of the digit in the format
  ended

vars == <<format, args, escape, flags, result, ended>>

Init ==
  /\ args \in Args /\ format = << >> /\ escape = 0 /\ flags = {}
  /\ result = << >> /\ ended = FALSE

-----------------------------------------------------------------------------
(* Bytes *)

\* Length of the longest prefix that is UTF-8.
ValidLength(s) ==
  LET ok(n) == \A i \in 1..n :
                 /\ s[i] = "hi" => i < n /\ s[i + 1] = "lo"
                 /\ s[i] = "lo" => i > 1 /\ s[i - 1] = "hi"
  IN CHOOSE n \in 0..Len(s) : ok(n) /\ \A m \in (n + 1)..Len(s) : ~ok(m)

IsUtf8(s) == ValidLength(s) = Len(s)

\* Mutant of Valid: unchanged.
ValidAll(s) == s

\* g_utf8_validate(): the prefix that is.
Valid(s) == SubSeq(s, 1, ValidLength(s))

\* localeToUTF8() in a locale of UTF-8: what is not is taken as ISO-8859-1.
LocaleToUTF8(s) ==
  IF IsUtf8(s) THEN s
  ELSE FlattenSeq([i \in DOMAIN s |-> IF s[i] \in {"hi", "lo"} THEN <<"hi", "lo">>
                                      ELSE <<s[i]>>])

Escape(s) == [i \in DOMAIN s |-> IF s[i] = "<" THEN "&lt;" ELSE s[i]]

\* Mutant of StrSubst: what need not be checked is not escaped either.
StrSubstFast(s, f) ==
  LET utf8 == IF "L" \in f THEN LocaleToUTF8(s) ELSE IF "F" \in f THEN s ELSE Valid(s)
  IN IF "E" \in f /\ "F" \notin f THEN Escape(utf8) ELSE utf8

\* strSubst(), and the strings that doSubst() copies.
StrSubst(s, f) ==
  LET utf8 == IF "L" \in f THEN LocaleToUTF8(s) ELSE IF "F" \in f THEN s ELSE Valid(s)
  IN IF "E" \in f THEN Escape(utf8) ELSE utf8

\* doSubst(): the flags are for strings.
DoSubst(n, f) ==
  LET arg == args[n]
      bytes == IF arg.type = "string" THEN StrSubst(arg.val, f) ELSE arg.val
  IN [i \in DOMAIN bytes |-> [b |-> bytes[i], arg |-> n, type |-> arg.type,
                              flags |-> f, at |-> Len(format) + 1]]

Literal(c) == [b |-> c, arg |-> 0, type |-> "format", flags |-> {},
               at |-> Len(format) + 1]

-----------------------------------------------------------------------------
(* The format *)

Read(c) == ~ended /\ Len(format) < MaxFormat /\ format' = Append(format, c)

\* A character outside of an escape.
Text(c) ==
  /\ escape = 0 /\ c # "%" /\ Read(c)
  /\ result' = Append(result, Literal(c))
  /\ UNCHANGED <<args, escape, flags, ended>>

\* Mutant of StartEscape: with the flags of the one before.
StartEscapeFlags ==
  /\ escape = 0 /\ Read("%")
  /\ escape' = Len(format) + 1
  /\ UNCHANGED <<args, flags, result, ended>>

StartEscape ==
  /\ escape = 0 /\ Read("%")
  /\ escape' = Len(format) + 1 /\ flags' = {}
  /\ UNCHANGED <<args, result, ended>>

\* A flag, or any other character, which is ignored.
Flag(c) ==
  /\ escape # 0 /\ c # "%" /\ c \notin Range(Digits) /\ Read(c)
  /\ flags' = flags \union ({c} \intersect Flags)
  /\ UNCHANGED <<args, escape, result, ended>>

Percent ==
  /\ escape # 0 /\ Read("%")
  /\ result' = Append(result, Literal("%")) /\ escape' = 0
  /\ UNCHANGED <<args, flags, ended>>

\* Mutant of Given: the last digit, '1' + args, is one too many.
GivenToo(n) == n =< Len(args) + 1

\* Is there an argument with that number?
Given(n) == n < 1 + Len(args)

\* Another object is behind the last argument.
Argument(c) ==
  /\ escape # 0 /\ c \in Range(Digits) /\ Read(c)
  /\ LET n == CHOOSE n \in DOMAIN Digits : Digits[n] = c
     IN result' = IF ~Given(n) THEN result
                  ELSE IF n > Len(args) THEN Append(result, Literal("garbage"))
                  ELSE result \o DoSubst(n, flags)
  /\ escape' = 0
  /\ UNCHANGED <<args, flags, ended>>

\* The final null byte; an escape that has no end is dropped.
End ==
  /\ ~ended /\ ended' = TRUE
  /\ UNCHANGED <<format, args, escape, flags, result>>

Next ==
  \/ \E c \in Alphabet : Text(c) \/ Flag(c) \/ Argument(c)
  \/ StartEscape \/ Percent \/ End
  \/ ended /\ UNCHANGED vars

Spec == Init /\ [][Next]_vars

-----------------------------------------------------------------------------
(* Properties *)

Output == [i \in DOMAIN result |-> result[i].b]

\* Types; what is read was given.
TypeOK ==
  /\ escape \in 0..Len(format) /\ flags \subseteq Flags /\ ended \in BOOLEAN
  /\ \A i \in DOMAIN result :
       /\ result[i].b \in Bytes \union Alphabet \union {"&lt;"}
       /\ result[i].arg \in 0..Len(args)

\* "Output string is always valid UTF-8" - if arguments with F are ("assumed to
\* be in valid UTF-8") and single characters are ASCII.
OutputIsUtf8 ==
  (\A i \in DOMAIN result :
     LET r == result[i]
         trusted == r.type = "string" /\ "F" \in r.flags /\ "L" \notin r.flags
     IN (trusted \/ r.type = "char") => IsUtf8(args[r.arg].val))
  => IsUtf8(Output)

\* "always valid UTF-8", for what the program really passes to it.
AlwaysUtf8 == IsUtf8(Output)

\* "the characters <>& are escaped with their entities" in a string with E,
\* whatever other flags it has.
EscapedIsText ==
  \A i \in DOMAIN result :
    result[i].type = "string" /\ "E" \in result[i].flags => result[i].b # "<"

\* An argument is treated as its own escape says, not as another one does:
\* its flags are those between its '%' and its digit.
FlagsAreItsOwn ==
  \A i \in DOMAIN result :
    result[i].arg # 0 =>
      LET at == result[i].at
          start == CHOOSE k \in 1..at : /\ format[k] = "%"
                                        /\ \A j \in (k + 1)..at : format[j] # "%"
      IN /\ format[at] = Digits[result[i].arg]
         /\ result[i].flags = {format[k] : k \in start..at} \intersect Flags
=============================================================================
