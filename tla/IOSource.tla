------------------------------ MODULE IOSource ------------------------------
(***************************************************************************)
(* Intrusive lists (src/util/ilist.hh) and the listeners of a job that     *)
(* are on one (src/job/job.hh): class IOSource, and the loop of the macro  *)
(* IOSOURCE_SEND that calls a method of each.                              *)
(*                                                                         *)
(* What makes this delicate is that the methods do as they like: they      *)
(* delete the listener, register another one, send something through the   *)
(* same source, or delete the job, with loops under way further up in the  *)
(* stack.  The links of the list are modelled one by one.                  *)
(***************************************************************************)
EXTENDS Integers, Sequences, FiniteSets, SequencesExt

CONSTANTS
  Listeners,
  E,                \* the member e of class IList, end() of the list
  Null,
  Acts,             \* what a called method may do: "self", "add", "send",
                    \* "source"
  MaxDepth,         \* bound: loops in the stack
  MaxSends,         \* bound: calls of IOSOURCE_SEND
  MaxAdds           \* bound: registrations

IOSourceAssumption ==
  /\ E \notin Listeners /\ Null \notin Listeners \union {E} /\ E # Null
  /\ Acts \subseteq {"self", "add", "send", "source"}
  /\ MaxDepth \in Nat \ {0} /\ MaxSends \in Nat /\ MaxAdds \in Nat

VARIABLES
  next, prev,       \* iListBase_next, iListBase_prev of each object
  alive,            \* objects that exist; E is the source
  stack,            \* the loops under way, the innermost one first
  crashed,          \* has a pointer been followed that was null or stale?
  sends,
  adds,             \* number of registrations
  since             \* the registration of each listener: a history variable

vars == <<next, prev, alive, stack, crashed, sends, adds, since>>

Objects == Listeners \union {E}
Linked(o) == prev[o] # Null

Init ==
  /\ next = [o \in Objects |-> IF o = E THEN E ELSE Null] /\ prev = next
  /\ alive = {E} /\ stack = << >> /\ crashed = FALSE /\ sends = 0 /\ adds = 0
  /\ since = [l \in Listeners |-> 0]

\* Bound: what the outside world does is done with an empty stack.
Outside == stack = << >> /\ ~crashed
Inside == stack # << >> /\ stack[1].callee # Null /\ ~crashed

-----------------------------------------------------------------------------
(* IListBase and IList *)

\* Mutant of PushedFront: at the back.
PushedBack(l) ==
  /\ next' = [next EXCEPT ![l] = E, ![prev[E]] = l]
  /\ prev' = [prev EXCEPT ![l] = prev[E], ![E] = l]

\* Mutant of PushedFront: the former first member is not told.
PushedBlind(l) ==
  /\ next' = [next EXCEPT ![l] = next[E], ![E] = l]
  /\ prev' = [prev EXCEPT ![l] = E]

\* Mutant of PushedFront: its own link to the next member is forgotten.
PushedOpen(l) ==
  /\ next' = [next EXCEPT ![E] = l]
  /\ prev' = [prev EXCEPT ![l] = E, ![next[E]] = l]

\* push_front()
PushedFront(l) ==
  /\ next' = [next EXCEPT ![l] = next[E], ![E] = l]
  /\ prev' = [prev EXCEPT ![l] = E, ![next[E]] = l]

\* Mutant of Unlinked: one of the neighbours is not told.
UnlinkedHalf(l) ==
  IF ~Linked(l) THEN UNCHANGED <<next, prev>>
  ELSE /\ next' = [next EXCEPT ![prev[l]] = next[l], ![l] = Null]
       /\ prev' = [prev EXCEPT ![l] = Null]

\* Mutant of Unlinked: only one link is cleared.
UnlinkedNext(l) ==
  IF ~Linked(l) THEN UNCHANGED <<next, prev>>
  ELSE /\ next' = [next EXCEPT ![prev[l]] = next[l]]
       /\ prev' = [prev EXCEPT ![next[l]] = prev[l], ![l] = Null]

\* iList_remove()
Unlinked(l) ==
  IF ~Linked(l) THEN UNCHANGED <<next, prev>>
  ELSE /\ next' = [next EXCEPT ![prev[l]] = next[l], ![l] = Null]
       /\ prev' = [prev EXCEPT ![next[l]] = prev[l], ![l] = Null]

\* The members from the front to the back, by next, and the other way round.
Chain(link) ==
  LET walk[n \in 0..Cardinality(Listeners)] ==
        IF n = 0 THEN << >>
        ELSE LET w == walk[n - 1]
                 o == link[IF w = << >> THEN E ELSE Last(w)]
             IN IF Len(w) < n - 1 \/ o \notin Listeners THEN w ELSE Append(w, o)
  IN walk[Cardinality(Listeners)]

Members == {l \in Listeners : Linked(l)}

\* Mutant of Released: the list forgets its members, they do not forget it.
ReleasedOnly ==
  /\ next' = [next EXCEPT ![E] = Null] /\ prev' = [prev EXCEPT ![E] = Null]

\* ~IList(): releases all members.
Released ==
  LET gone == Range(Chain(next)) \union {E}
  IN /\ next' = [o \in Objects |-> IF o \in gone THEN Null ELSE next[o]]
     /\ prev' = [o \in Objects |-> IF o \in gone THEN Null ELSE prev[o]]

-----------------------------------------------------------------------------
(* Listeners come and go *)

\* A new object registers: addListener().
AddListener(l) ==
  /\ E \in alive /\ l \notin alive /\ adds < MaxAdds
  /\ alive' = alive \union {l} /\ PushedFront(l)
  /\ adds' = adds + 1 /\ since' = [since EXCEPT ![l] = adds + 1]
  /\ UNCHANGED <<stack, crashed, sends>>

\* delete this, or removeListener()
Delete(l) ==
  /\ l \in alive
  /\ Unlinked(l)
  /\ alive' = alive \ {l}
  /\ UNCHANGED <<stack, crashed, sends, adds, since>>

-----------------------------------------------------------------------------
(* IOSOURCE_SEND *)

Frame(what) == [what |-> what, i |-> next[E], callee |-> Null,
                due |-> {since[l] : l \in Members}, called |-> << >>]

Start(what) ==
  /\ E \in alive /\ Len(stack) < MaxDepth
  /\ stack' = <<Frame(what)>> \o stack
  /\ UNCHANGED <<next, prev, alive, crashed, adds, since>>

Send == sends < MaxSends /\ sends' = sends + 1 /\ Start("call")

\* ~IOSource() sends as well.
DeleteSource ==
  /\ \A n \in DOMAIN stack : stack[n].what # "job_deleted"
  /\ sends' = sends /\ Start("job_deleted")

\* Mutant of Advance: the iterator is advanced after the call.
AdvanceLate(f) == f.i

\* Mutant of Advance: twice.
AdvanceTwice(f) == IF next[f.i] = E THEN E ELSE next[next[f.i]]

\* ++_i
Advance(f) == next[f.i]

\* One turn of the loop up to the call.
Call ==
  /\ stack # << >> /\ ~crashed /\ stack[1].callee = Null
  /\ stack[1].i # E
  /\ IF stack[1].i \notin alive
     THEN crashed' = TRUE /\ UNCHANGED stack
     ELSE /\ stack' = [stack EXCEPT ![1].callee = stack[1].i,
                                    ![1].i = Advance(stack[1]),
                                    ![1].called = Append(@, since[stack[1].i])]
          /\ UNCHANGED crashed
  /\ UNCHANGED <<next, prev, alive, sends, adds, since>>

Return ==
  /\ Inside
  /\ stack' = [stack EXCEPT ![1].callee = Null]
  /\ UNCHANGED <<next, prev, alive, crashed, sends, adds, since>>

\* The loop ends: with job_deleted the source and its list are destroyed.
EndLoop ==
  /\ stack # << >> /\ ~crashed /\ stack[1].callee = Null /\ stack[1].i = E
  /\ stack' = Tail(stack)
  /\ IF stack[1].what = "job_deleted"
     THEN Released /\ alive' = alive \ {E}
     ELSE UNCHANGED <<next, prev, alive>>
  /\ UNCHANGED <<crashed, sends, adds, since>>

\* What the method that is called does before it returns.
Act ==
  /\ Inside
  /\ \/ "self" \in Acts /\ Delete(stack[1].callee)
     \/ "add" \in Acts /\ \E l \in Listeners : AddListener(l)
     \/ "send" \in Acts /\ Send
     \/ "source" \in Acts /\ DeleteSource

Next ==
  \/ Outside /\ \/ \E l \in Listeners : AddListener(l) \/ Delete(l)
                \/ Send \/ DeleteSource
  \/ Call \/ Return \/ EndLoop \/ Act

Spec == Init /\ [][Next]_vars

-----------------------------------------------------------------------------
(* Properties *)

Reversed(s) == [i \in DOMAIN s |-> s[Len(s) + 1 - i]]

\* Types; an object has both links or none.
TypeOK ==
  /\ next \in [Objects -> Objects \union {Null}]
  /\ prev \in [Objects -> Objects \union {Null}]
  /\ alive \subseteq Objects /\ crashed \in BOOLEAN
  /\ Len(stack) =< MaxDepth /\ sends \in 0..MaxSends
  /\ \A o \in Objects : (next[o] = Null) = (prev[o] = Null)
  /\ \A n \in DOMAIN stack : stack[n].i \in Objects \union {Null}

\* The list is the same from both ends and has just those listeners on it
\* that are registered and still exist; all of them, as long as the source
\* does.
ListIsRight ==
  E \in alive => /\ Chain(prev) = Reversed(Chain(next))
                 /\ Range(Chain(next)) = Members
                 /\ Members = alive \ {E}

\* "It is OK if any called object deletes itself in response to the call":
\* no object is called that does not exist any more, and no null pointer.
NoStaleCall == ~crashed

\* A loop that has ended has called each listener that was registered when it
\* began and has not gone meanwhile; a listener that has come meanwhile is not
\* called.
EachIsCalled ==
  stack # << >> =>
    LET f == stack[1]
    IN /\ Range(f.called) \subseteq f.due
       /\ f.i = E /\ f.callee = Null =>
            f.due \intersect {since[l] : l \in Members} \subseteq Range(f.called)

\* "it will be called before listeners that were registered earlier"
\* (addListener()), and only once.
NewestFirst ==
  \A n \in DOMAIN stack :
    LET s == stack[n].called IN \A i, j \in DOMAIN s : i < j => s[i] > s[j]

\* A listener that outlives the source is on no list and can be registered
\* with another one, or destroyed.
FreeAfterSource == E \notin alive => Members = {}
=============================================================================
