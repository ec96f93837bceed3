------------------------------- MODULE SmartPtr -------------------------------
(***************************************************************************)
(* Pointers that count the references to an object and delete it with the  *)
(* last one (src/util/smartptr.hh), and pointers that become null when     *)
(* their object goes (src/util/autonullptr.hh).                            *)
(*                                                                         *)
(* An object has counting pointers of its own, like prepVal and nextVal of *)
(* class UrlMapping (src/job/url-mapping.hh), so that the end of one       *)
(* object may be the end of others - and of the pointers they hold.        *)
(***************************************************************************)
EXTENDS Integers, Sequences, FiniteSets, SequencesExt

CONSTANTS
  Objects, Null,
  Roots,            \* counting pointers that are variables
  Fields,           \* counting pointers that are members of each object
  Weaks             \* pointers of class AutoNullPtr

SmartPtrAssumption ==
  Null \notin Objects /\ IsFiniteSet(Objects) /\ IsFiniteSet(Fields)

Members == Objects \X Fields
Pointers == Roots \union Members

VARIABLES
  mem,              \* alive: the objects that exist; count: smartPtr_refCount
                    \* of each; ptr: of each counting pointer; weak: p of each
                    \* AutoNullPtr; list: that of each object
  bare,             \* objects that the program has a plain pointer to
  locked,           \* objects with a SmartPtr_lockStatic
  wild              \* has an object been used that does not exist any more?

vars == <<mem, bare, locked, wild>>

Init ==
  /\ mem = [alive |-> {}, count |-> [o \in Objects |-> 0],
            ptr |-> [p \in Pointers |-> Null],
            weak |-> [w \in Weaks |-> Null], list |-> [o \in Objects |-> << >>]]
  /\ bare = {} /\ locked = {} /\ wild = FALSE

\* A counting pointer exists as long as the object it is a member of.
Exists(p, m) == p \in Members => p[1] \in m.alive

\* What the program can get at, given where it starts.
From(start) ==
  LET reach[n \in 0..Cardinality(Objects)] ==
        IF n = 0 THEN start
        ELSE reach[n - 1] \union
             {mem.ptr[x] : x \in {y \in Members : y[1] \in reach[n - 1]}}
  IN reach[Cardinality(Objects)] \ {Null}

Reachable == From({mem.ptr[p] : p \in Roots} \union bare \union locked)
Usable(p) == p \in Members => p[1] \in Reachable

-----------------------------------------------------------------------------
(* Counting *)

\* decRef(): has the last reference been given up?
IsLast(n) == n =< 0

\* Mutant of Cleared: the pointers are taken off the list only.
ClearedList(m, o) == [m EXCEPT !.list[o] = << >>]

\* ~AutoNullPtrBase(): the pointers on the list become null and leave it.
Cleared(m, o) ==
  [m EXCEPT !.list[o] = << >>,
            !.weak = [w \in Weaks |-> IF w \in Range(m.list[o]) THEN Null
                                      ELSE m.weak[w]]]

\* The memory without o and its members.
Without(m, o) ==
  Cleared([m EXCEPT !.alive = @ \ {o}, !.count[o] = 0,
                    !.ptr = [p \in Pointers |-> IF p \in {o} \X Fields THEN Null
                                                ELSE m.ptr[p]]], o)

\* Mutant of Held: the members are not destroyed with their object.
HeldNot(m, o) == << >>

\* What the members of o refer to.
Held(m, o) ==
  LET fields == SetToSeq({f \in Fields : m.ptr[<<o, f>>] # Null})
  IN [i \in DOMAIN fields |-> m.ptr[<<o, fields[i]>>]]

\* One turn of giving up a sequence of references.  An object that goes gives
\* up those of its members.
GiveUpOne(s) ==
  LET o == Head(s.todo)
      n == s.m.count[o] - 1
  IN IF IsLast(n)
     THEN [m |-> Without(s.m, o), todo |-> Held(s.m, o) \o Tail(s.todo)]
     ELSE [m |-> [s.m EXCEPT !.count[o] = n], todo |-> Tail(s.todo)]

\* decRef() of a pointer to o.
GivenUp(m, o) ==
  LET turn[n \in 0..(1 + Cardinality(Members))] ==
        IF n = 0 THEN [m |-> m, todo |-> IF o = Null THEN << >> ELSE <<o>>]
        ELSE IF turn[n - 1].todo = << >> THEN turn[n - 1]
        ELSE GiveUpOne(turn[n - 1])
  IN turn[1 + Cardinality(Members)].m

\* ptr = o; incRef(), which writes to o whether it exists or not.
Taken(m, p, o) ==
  IF o \in m.alive THEN [m EXCEPT !.ptr[p] = o, !.count[o] = @ + 1]
  ELSE [m EXCEPT !.ptr[p] = o]

\* Mutant of Assigned: the same object again is not looked for.
AssignedAlways(m, p, o) == Taken(GivenUp(m, m.ptr[p]), p, o)

\* operator=
Assigned(m, p, o) ==
  IF m.ptr[p] = o THEN m ELSE Taken(GivenUp(m, m.ptr[p]), p, o)

\* Something is used of an object that has gone, if any of these has.
Becomes(m, used) ==
  /\ mem' = m
  /\ bare' = bare \intersect m.alive
  /\ wild' = ~(used \subseteq m.alive \union {Null})
  /\ UNCHANGED locked

-----------------------------------------------------------------------------
(* Operations *)

\* X* x = new X
New(o) ==
  /\ o \notin mem.alive
  /\ mem' = [mem EXCEPT !.alive = @ \union {o}] /\ bare' = bare \union {o}
  /\ UNCHANGED <<locked, wild>>

\* A static object with its SmartPtr_lockStatic.
LockStatic(o) ==
  /\ o \notin mem.alive
  /\ mem' = [mem EXCEPT !.alive = @ \union {o}, !.count[o] = 1]
  /\ locked' = locked \union {o} /\ UNCHANGED <<bare, wild>>

\* The object that p is a member of, if any.
Holder(p) == IF p \in Members THEN {p[1]} ELSE {}

\* p = x, from a plain pointer or from p.get().
AssignPlain(p, o) ==
  /\ Usable(p) /\ o \in bare
  /\ Becomes(Assigned(mem, p, o),
             IF mem.ptr[p] = o THEN {} ELSE Holder(p) \union {o})

\* Plain pointers go out of scope.  Bound: not before the object is owned.
Forget(o) ==
  /\ o \in bare /\ mem.count[o] > 0
  /\ bare' = bare \ {o} /\ UNCHANGED <<mem, locked, wild>>

\* p = q: q is read again after the old value of p has been given up, and may
\* be a member of an object that is gone then.
Assign(p, q) ==
  /\ Usable(p) /\ Usable(q)
  /\ Becomes(Assigned(mem, p, mem.ptr[q]),
             IF mem.ptr[p] = mem.ptr[q] THEN {}
             ELSE Holder(p) \union Holder(q) \union {mem.ptr[q]})

\* ~SmartPtr() or clear()
Clear(p) ==
  /\ Usable(p)
  /\ Becomes([GivenUp(mem, mem.ptr[p]) EXCEPT !.ptr[p] = Null], Holder(p))

\* swap()
Swap(p, q) ==
  /\ Usable(p) /\ Usable(q)
  /\ Becomes([mem EXCEPT !.ptr[p] = mem.ptr[q], !.ptr[q] = mem.ptr[p]], {})

\* Mutant of Release: the object may be deleted.
ReleaseCleared(p) ==
  /\ Usable(p) /\ mem.ptr[p] # Null
  /\ mem' = [GivenUp(mem, mem.ptr[p]) EXCEPT !.ptr[p] = Null]
  /\ bare' = bare \union {mem.ptr[p]} /\ UNCHANGED <<locked, wild>>

\* Mutant of Release: the reference goes on being counted.
ReleaseUncounted(p) ==
  /\ Usable(p) /\ mem.ptr[p] # Null
  /\ mem' = [mem EXCEPT !.ptr[p] = Null]
  /\ bare' = bare \union {mem.ptr[p]} /\ UNCHANGED <<locked, wild>>

\* release(): the object is never deleted.
Release(p) ==
  /\ Usable(p) /\ mem.ptr[p] # Null
  /\ mem' = [mem EXCEPT !.ptr[p] = Null, !.count[mem.ptr[p]] = @ - 1]
  /\ bare' = bare \union {mem.ptr[p]} /\ UNCHANGED <<locked, wild>>

\* deleteSmart(): like a temporary SmartPtr.
DeleteSmart(o) ==
  /\ o \in bare /\ mem.count[o] =< 0
  /\ Becomes(GivenUp([mem EXCEPT !.count[o] = @ + 1], o), {})

\* Mutant of SetWeak: the pointer stays on the list it is on.
SetWeakAdd(w, o) ==
  /\ mem' = [mem EXCEPT !.weak[w] = o,
                        !.list = [x \in Objects |-> IF x = o THEN Append(@[x], w)
                                                    ELSE @[x]]]
  /\ UNCHANGED <<bare, locked, wild>>

\* operator= and ~AutoNullPtr(), which is like an assignment of null.
SetWeak(w, o) ==
  /\ mem' = [mem EXCEPT !.weak[w] = o,
                        !.list = [x \in Objects |->
                                    LET without == Remove(@[x], w)
                                    IN IF x = o THEN Append(without, w)
                                       ELSE without]]
  /\ UNCHANGED <<bare, locked, wild>>

Next ==
  /\ ~wild
  /\ \/ \E o \in Objects :
          \/ New(o) \/ LockStatic(o) \/ Forget(o) \/ DeleteSmart(o)
          \/ \E p \in Pointers : AssignPlain(p, o)
     \/ \E p \in Pointers : Clear(p) \/ Release(p)
     \/ \E p, q \in Pointers : Assign(p, q) \/ Swap(p, q)
     \/ \E w \in Weaks : \E o \in Reachable \union {Null} : SetWeak(w, o)

Spec == Init /\ [][Next]_vars

-----------------------------------------------------------------------------
(* Properties *)

\* Types.
TypeOK ==
  /\ mem.alive \subseteq Objects /\ mem.count \in [Objects -> Nat]
  /\ mem.ptr \in [Pointers -> Objects \union {Null}]
  /\ mem.weak \in [Weaks -> Objects \union {Null}]
  /\ bare \union locked \subseteq mem.alive /\ wild \in BOOLEAN

\* A pointer refers to an object that exists, or to none.
PointsToLife ==
  /\ \A p \in Pointers : Exists(p, mem) => mem.ptr[p] \in mem.alive \union {Null}
  /\ \A w \in Weaks : mem.weak[w] \in mem.alive \union {Null}

\* As long as the program has not used what it gave up itself, that holds
\* whatever members went with their objects.
NoneDangles == wild \/ PointsToLife

\* "maintains a count for how many times an object is referenced"
CountIsRight ==
  wild \/ \A o \in mem.alive :
    mem.count[o] = Cardinality({p \in Pointers : Exists(p, mem) /\ mem.ptr[p] = o})
                   + (IF o \in locked THEN 1 ELSE 0)

\* An object that the program cannot get at any more still exists only
\* because a cycle of pointers leads to it.
OnlyCyclesLeak ==
  mem.alive \subseteq Reachable \/
    \E o \in mem.alive \ Reachable : o \in From({mem.ptr[<<o, f>>] : f \in Fields})

\* A pointer is on the list of the object it points to, once, and on no other.
ListsAreRight ==
  \A o \in Objects :
    /\ Range(mem.list[o]) = {w \in Weaks : mem.weak[w] = o}
    /\ Len(mem.list[o]) = Cardinality(Range(mem.list[o]))
=============================================================================
