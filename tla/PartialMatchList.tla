--------------------------- MODULE PartialMatchList ---------------------------
(***************************************************************************)
(* MkTemplate::PartialMatchQueue as it is written (src/partialmatch.ih):   *)
(* an array of objects on two linked lists, the queue and the free list.   *)
(* The loops of the methods go from pointer to pointer, one step each.     *)
(*                                                                         *)
(* A pointer to a pointer is the place it points to: the member nextPart   *)
(* of an object, or one of the two heads.                                  *)
(***************************************************************************)
EXTENDS PartialMatchQueue

CONSTANTS
  Null,
  Head1, FreeHead,  \* the members head and freeHead, as places
  Offsets,          \* values of startOff
  Events            \* values of nextEv

Slots == 0..(MaxMatches - 1)
Places == Slots \union {Head1, FreeHead}

ListAssumption ==
  /\ Cardinality({Null, Head1, FreeHead}) = 3
  /\ {Null, Head1, FreeHead} \intersect Slots = {}
  /\ Offsets \union Events \subseteq Nat

VARIABLES
  nextPart,         \* of each object, and head and freeHead
  startOff, nextEv,
  pc,               \* the loop that is under way, or "idle"
  this, x,          \* pointers to objects
  xIndir,           \* pointer to a pointer
  arg,              \* the argument of the method
  sectorLength,
  before            \* the queue and the sector length when the method was
                    \* called: a history variable

lists == <<nextPart, startOff, nextEv>>
locals == <<pc, this, x, xIndir, arg, before>>
vars == <<lists, locals, sectorLength>>

\* The objects of a list, from a head on.
Chain(head) ==
  LET walk[n \in 0..MaxMatches] ==
        IF n = 0 THEN << >>
        ELSE LET w == walk[n - 1]
                 y == nextPart[IF w = << >> THEN head ELSE Last(w)]
             IN IF Len(w) < n - 1 \/ y = Null THEN w ELSE Append(w, y)
  IN walk[MaxMatches]

Entry(s) == [startOff |-> startOff[s], nextEv |-> nextEv[s]]
Listed == [i \in DOMAIN Chain(Head1) |-> Entry(Chain(Head1)[i])]

\* erase(): all objects are on the free list.
Chained ==
  [p \in Places |-> IF p = Head1 \/ p = MaxMatches - 1 THEN Null
                    ELSE IF p = FreeHead THEN 0 ELSE p + 1]

NoCall == [queue |-> << >>, length |-> InitialSectorLength]

Init ==
  /\ nextPart = Chained
  /\ startOff = [s \in Slots |-> 0] /\ nextEv = [s \in Slots |-> 0]
  /\ pc = "idle" /\ this = Null /\ x = Null /\ xIndir = Head1 /\ arg = 0
  /\ before = NoCall /\ sectorLength = InitialSectorLength

Idle == pc = "idle"

\* A method is called, and is at the beginning of a loop.
Call(loop, a, object) ==
  /\ Idle /\ pc' = loop /\ arg' = a /\ this' = object
  /\ xIndir' = Head1 /\ x' = nextPart[Head1] /\ before' = [queue |-> Listed, length |-> sectorLength]

\* Bound: locals that are not used any more have no value.
Return ==
  /\ pc' = "idle" /\ this' = Null /\ x' = Null /\ xIndir' = Head1 /\ arg' = 0
  /\ before' = NoCall

\* xIndir = &(x->nextPart); x = *xIndir
Advance == xIndir' = x /\ x' = nextPart[x]

-----------------------------------------------------------------------------
(* Methods without a loop *)

Erase ==
  /\ Idle /\ nextPart' = Chained
  /\ UNCHANGED <<startOff, nextEv, locals, sectorLength>>

\* Mutant of AddFront: the object remains first of the free list.
AddFrontTwice ==
  /\ Idle /\ nextPart[FreeHead] # Null
  /\ LET s == nextPart[FreeHead]
     IN /\ nextPart' = [nextPart EXCEPT ![s] = nextPart[Head1], ![Head1] = s]
        /\ startOff' = [startOff EXCEPT ![s] = 0]
        /\ nextEv' = [nextEv EXCEPT ![s] = 0]
  /\ UNCHANGED <<locals, sectorLength>>

AddFront ==
  /\ Idle /\ nextPart[FreeHead] # Null
  /\ LET s == nextPart[FreeHead]
     IN /\ nextPart' = [nextPart EXCEPT ![FreeHead] = nextPart[s],
                                        ![s] = nextPart[Head1], ![Head1] = s]
        /\ startOff' = [startOff EXCEPT ![s] = 0]
        /\ nextEv' = [nextEv EXCEPT ![s] = 0]
  /\ UNCHANGED <<locals, sectorLength>>

SetStartOffset(s, o) ==
  /\ Idle /\ s \in Range(Chain(Head1))
  /\ startOff' = [startOff EXCEPT ![s] = o]
  /\ UNCHANGED <<nextPart, nextEv, locals, sectorLength>>

\* The object at a place is moved to the free list.
Freed(place, s) ==
  [nextPart EXCEPT ![place] = nextPart[s], ![s] = nextPart[FreeHead],
                   ![FreeHead] = s]

EraseFrontStep ==
  /\ Idle /\ nextPart[Head1] # Null
  /\ nextPart' = Freed(Head1, nextPart[Head1])
  /\ UNCHANGED <<startOff, nextEv, locals, sectorLength>>

-----------------------------------------------------------------------------
(* eraseStartOffsetLess() *)

EraseLess(o) ==
  Call("less", o, Null) /\ UNCHANGED <<lists, sectorLength>>

\* Mutant of EraseLessStep: x goes on from the object that was removed, which
\* is on the free list now.
EraseLessStepOn ==
  /\ pc = "less" /\ x # Null
  /\ IF startOff[x] >= arg THEN Advance /\ UNCHANGED nextPart
     ELSE /\ nextPart' = Freed(xIndir, x)
          /\ x' = nextPart'[x] /\ UNCHANGED xIndir
  /\ UNCHANGED <<startOff, nextEv, pc, this, arg, before, sectorLength>>

EraseLessStep ==
  /\ pc = "less" /\ x # Null
  /\ IF startOff[x] >= arg THEN Advance /\ UNCHANGED nextPart
     ELSE /\ nextPart' = Freed(xIndir, x)
          /\ x' = nextPart'[xIndir] /\ UNCHANGED xIndir
  /\ UNCHANGED <<startOff, nextEv, pc, this, arg, before, sectorLength>>

EraseLessEnd ==
  /\ pc = "less" /\ x = Null
  /\ Return /\ UNCHANGED <<lists, sectorLength>>

-----------------------------------------------------------------------------
(* setNextEvent() *)

SetEvent(s, ev) ==
  /\ s \in Range(Chain(Head1))
  /\ Call("unlink", ev, s) /\ UNCHANGED <<lists, sectorLength>>

UnlinkStep ==
  /\ pc = "unlink" /\ x # this
  /\ Advance
  /\ UNCHANGED <<lists, pc, this, arg, before, sectorLength>>

Unlink ==
  /\ pc = "unlink" /\ x = this
  /\ nextPart' = [nextPart EXCEPT ![xIndir] = nextPart[x]]
  /\ pc' = "insert" /\ xIndir' = Head1 /\ x' = nextPart'[Head1]
  /\ UNCHANGED <<startOff, nextEv, this, arg, before, sectorLength>>

\* Mutant of Comes: the queue is not searched.
ComesNever(s) == FALSE
\* Does an object of the queue come before the new event?
Comes(s) == nextEv[s] < arg

InsertStep ==
  /\ pc = "insert" /\ x # Null /\ Comes(x)
  /\ Advance
  /\ UNCHANGED <<lists, pc, this, arg, before, sectorLength>>

Insert ==
  /\ pc = "insert" /\ (x # Null => ~Comes(x))
  /\ nextPart' = [nextPart EXCEPT ![this] = x, ![xIndir] = this]
  /\ nextEv' = [nextEv EXCEPT ![this] = arg]
  /\ Return /\ UNCHANGED <<startOff, sectorLength>>

-----------------------------------------------------------------------------
(* findDropCandidate() *)

\* findLowestStartOffset() comes first; this is the lowest one so far.
FindDrop(o) ==
  /\ Full(Listed) /\ Call("lowest", o, nextPart[Head1])
  /\ UNCHANGED <<lists, sectorLength>>

Lower(s) == startOff[this] > startOff[s]

LowestStep ==
  /\ pc = "lowest" /\ x # Null
  /\ this' = IF Lower(x) THEN x ELSE this
  /\ Advance /\ UNCHANGED <<lists, pc, arg, before, sectorLength>>

Aligned(o) == o % sectorLength = 0

\* Mutant of Sector: the sector length is doubled without a limit.
SectorOn ==
  /\ (pc = "lowest" \/ pc = "drop") /\ x = Null
  /\ sectorLength' = IF pc = "lowest" THEN sectorLength ELSE 2 * sectorLength
  /\ IF arg % sectorLength' # 0
     THEN pc' = "found" /\ UNCHANGED <<x, xIndir>>
     ELSE pc' = "drop" /\ x' = nextPart[Head1] /\ xIndir' = Head1
  /\ UNCHANGED <<lists, this, arg, before>>

\* The beginning of the loop over sector lengths.
Sector ==
  /\ (pc = "lowest" \/ pc = "drop") /\ x = Null
  /\ IF pc = "lowest" \/ sectorLength # MaxSectorLength
     THEN /\ sectorLength' = IF pc = "lowest" THEN sectorLength ELSE 2 * sectorLength
          /\ IF arg % sectorLength' # 0
             THEN pc' = "found" /\ UNCHANGED <<x, xIndir>>
             ELSE pc' = "drop" /\ x' = nextPart[Head1] /\ xIndir' = Head1
     ELSE pc' = "found" /\ UNCHANGED <<sectorLength, x, xIndir>>
  /\ UNCHANGED <<lists, this, arg, before>>

\* Mutant of Drops: the oldest match, too.
DropsOldest(s) == ~Aligned(startOff[s])
Drops(s) == s # this /\ ~Aligned(startOff[s])

DropStep ==
  /\ pc = "drop" /\ x # Null
  /\ IF Drops(x) THEN pc' = "found" /\ UNCHANGED <<x, xIndir>>
     ELSE Advance /\ UNCHANGED pc
  /\ UNCHANGED <<lists, this, arg, before, sectorLength>>

FindEnd == pc = "found" /\ Return /\ UNCHANGED <<lists, sectorLength>>

Next ==
  \/ Erase \/ AddFront \/ EraseFrontStep
  \/ \E s \in Slots : \/ \E o \in Offsets : SetStartOffset(s, o)
                      \/ \E ev \in Events : SetEvent(s, ev)
  \/ \E o \in Offsets : EraseLess(o) \/ FindDrop(o)
  \/ EraseLessStep \/ EraseLessEnd \/ UnlinkStep \/ Unlink \/ InsertStep \/ Insert
  \/ LowestStep \/ Sector \/ DropStep \/ FindEnd

Spec == Init /\ [][Next]_vars

\* The loops go on.
Loops == EraseLessStep \/ EraseLessEnd \/ UnlinkStep \/ Unlink \/ InsertStep
         \/ Insert \/ LowestStep \/ Sector \/ DropStep \/ FindEnd
FairSpec == Spec /\ WF_vars(Loops)

-----------------------------------------------------------------------------
(* Properties *)

\* Types.
TypeOK ==
  /\ nextPart \in [Places -> Slots \union {Null}]
  /\ startOff \in [Slots -> Offsets \union {0}]
  /\ nextEv \in [Slots -> Events \union {0}]
  /\ pc \in {"idle", "less", "unlink", "insert", "lowest", "drop", "found"}
  /\ {this, x} \subseteq Slots \union {Null} /\ xIndir \in Slots \union {Head1}
  /\ sectorLength \in SectorLengths

\* Each object is on one of the lists, once - except the one that setNextEvent()
\* has in its hand.
NoneLost ==
  LET used == Chain(Head1)
      free == Chain(FreeHead)
      hand == IF pc = "insert" THEN {this} ELSE {}
  IN /\ Len(used) + Len(free) + Cardinality(hand) = MaxMatches
     /\ Range(used) \union Range(free) \union hand = Slots

\* "always kept sorted by ascending nextEvent" (consistencyCheck())
Sorted ==
  Idle => \A i \in 2..Len(Listed) : Listed[i - 1].nextEv =< Listed[i].nextEv

\* findDropCandidate() finds what the declarative definition says: that entry,
\* at that sector length.
FoundAsDefined ==
  pc = "found" =>
    LET length == DropSectorLength(Listed, before.length, arg)
        candidate == DropCandidate(Listed, length, arg)
    IN /\ sectorLength = length
       /\ IF candidate = 0 THEN x = Null ELSE x = Chain(Head1)[candidate]

\* The queue that the lists stand for; while a method is under way it is what
\* it was before the call.
Queue == IF pc \in {"less", "unlink", "insert"} THEN before.queue ELSE Listed

NewMatch == [startOff |-> 0, nextEv |-> 0]

\* What the class promises: each method changes the queue, a sequence, at once,
\* as the operators of PartialMatchQueue say.
QueueStep ==
  \/ ~Full(Queue) /\ Queue' = <<NewMatch>> \o Queue
  \/ \E k \in DOMAIN Queue, o \in Offsets : Queue' = [Queue EXCEPT ![k].startOff = o]
  \/ \E k \in DOMAIN Queue, ev \in Events :
       Queue' = SetNextEvent(Queue, k, [Queue[k] EXCEPT !.nextEv = ev])
  \/ Queue # << >> /\ Queue' = EraseFront(Queue)
  \/ \E o \in Offsets : Queue' = EraseStartOffsetLess(Queue, o)
  \/ Queue' = << >>

\* The lists implement the queue: the loops over pointers come to what the
\* methods promise.
ListStep == QueueStep \/ UNCHANGED Queue
Implements == [][ListStep]_vars

\* Every method returns: no loop goes round in a circle of pointers.
Returns == []<>Idle

-----------------------------------------------------------------------------
(* Proofs, for any number of objects: the linked lists implement the queue,  *)
(* lose no object and keep it sorted.                                        *)
(*                                                                           *)
(* Lists says what the pointers are when they form the queue and the free    *)
(* list; each method is one or two changes of a pointer after another        *)
(* (SetPointer), and keeps it.  The predicates of loops in ListInv say how   *)
(* far a loop has come: Scanned, for the one that removes entries as it goes.*)

-----------------------------------------------------------------------------
(* Lists of objects, as what follows which place                             *)

\* The place of the i-th pointer of a list, and the object it points to.
PlaceOf(head, q, i) == IF i = 0 THEN head ELSE q[i]
PointsTo(q, i) == IF i < Len(q) THEN q[i + 1] ELSE Null

Linked(np, head, q) == \A i \in 0..Len(q) : np[PlaceOf(head, q, i)] = PointsTo(q, i)

Distinct(q) == \A i, j \in 1..Len(q) : q[i] = q[j] => i = j

In(q, s) == \E i \in 1..Len(q) : q[i] = s

\* The pointers np form the queue q and the free list r, and each object is on
\* one of them or is s; Null stands for none.
Lists(np, q, r, s) ==
  /\ np \in [Places -> Slots \union {Null}]
  /\ q \in Seq(Slots) /\ r \in Seq(Slots)
  /\ Linked(np, Head1, q) /\ Linked(np, FreeHead, r)
  /\ Distinct(q) /\ Distinct(r)
  /\ \A i \in 1..Len(q), j \in 1..Len(r) : q[i] # r[j]
  /\ ~In(q, s) /\ ~In(r, s)
  /\ \A t \in Slots : In(q, t) \/ In(r, t) \/ t = s

\* The heads are places of their own, and Null is none.
LEMMA PlaceFacts ==
  ASSUME ListAssumption
  PROVE  /\ Null # Head1 /\ Null # FreeHead /\ Head1 # FreeHead
         /\ Null \notin Slots /\ Head1 \notin Slots /\ FreeHead \notin Slots
         /\ Null \notin Places
         /\ Offsets \subseteq Nat /\ Events \subseteq Nat
<1>1. /\ Null \notin Slots /\ Head1 \notin Slots /\ FreeHead \notin Slots
      /\ Offsets \subseteq Nat /\ Events \subseteq Nat
  BY DEF ListAssumption
<1>2. Cardinality({Null, Head1, FreeHead}) = 3
  BY DEF ListAssumption
<1>3. ASSUME NEW a, NEW b PROVE Cardinality({a, b}) <= 2 /\ IsFiniteSet({a, b})
  <2>1. IsFiniteSet({a}) /\ Cardinality({a}) = 1
    BY FS_Singleton
  <2>2. {a, b} = {a} \cup {b}
    OBVIOUS
  <2> QED
    BY <2>1, <2>2, FS_AddElement
<1>4. Null # Head1
  <2> SUFFICES ASSUME Null = Head1 PROVE FALSE
    OBVIOUS
  <2>1. {Null, Head1, FreeHead} = {Null, FreeHead}
    OBVIOUS
  <2>2. Cardinality({Null, FreeHead}) <= 2
    BY <1>3
  <2> QED
    BY <1>2, <2>1, <2>2
<1>5. Null # FreeHead
  <2> SUFFICES ASSUME Null = FreeHead PROVE FALSE
    OBVIOUS
  <2>1. {Null, Head1, FreeHead} = {Null, Head1}
    OBVIOUS
  <2>2. Cardinality({Null, Head1}) <= 2
    BY <1>3
  <2> QED
    BY <1>2, <2>1, <2>2
<1>6. Head1 # FreeHead
  <2> SUFFICES ASSUME Head1 = FreeHead PROVE FALSE
    OBVIOUS
  <2>1. {Null, Head1, FreeHead} = {Null, Head1}
    OBVIOUS
  <2>2. Cardinality({Null, Head1}) <= 2
    BY <1>3
  <2> QED
    BY <1>2, <2>1, <2>2
<1> QED
  BY <1>1, <1>4, <1>5, <1>6 DEF Places

\* There are MaxMatches objects.
LEMMA SlotCount == MaxMatches \in Nat /\ IsFiniteSet(Slots) /\ Cardinality(Slots) = MaxMatches
<1>1. MaxMatches \in Nat \ {0}
  BY QueueAssumption
<1>2. 0 \in Int /\ MaxMatches - 1 \in Int /\ ~(0 > MaxMatches - 1)
      /\ (MaxMatches - 1) - 0 + 1 = MaxMatches
  BY <1>1
<1> DEFINE b == MaxMatches - 1
<1> HIDE DEF b
<1>3. 0 \in Int /\ b \in Int /\ ~(0 > b) /\ b - 0 + 1 = MaxMatches
  BY <1>2 DEF b
<1>4. IsFiniteSet(0..b) /\ Cardinality(0..b) = b - 0 + 1
  BY <1>3, FS_Interval
<1> QED
  BY <1>1, <1>3, <1>4 DEF b, Slots

\* A sequence of different objects: how many they are.
LEMMA DistinctCount ==
  ASSUME NEW q \in Seq(Slots), Distinct(q)
  PROVE  /\ IsFiniteSet(Range(q)) /\ Cardinality(Range(q)) = Len(q)
         /\ Len(q) \in Nat /\ Len(q) <= MaxMatches
         /\ Range(q) \subseteq Slots
<1>1. Len(q) \in Nat /\ DOMAIN q = 1..Len(q) /\ \A i \in 1..Len(q) : q[i] \in Slots
  BY LenProperties, ElementOfSeq
<1>2. Range(q) = {q[i] : i \in 1..Len(q)}
  BY <1>1 DEF Range
<1>3. q \in Bijection(1..Len(q), Range(q))
  <2>1. q \in [1..Len(q) -> Range(q)]
    BY <1>1, <1>2
  <2>2. q \in Injection(1..Len(q), Range(q))
    BY <2>1 DEF Injection, IsInjective, Distinct
  <2>3. q \in Surjection(1..Len(q), Range(q))
    BY <1>2, <2>1 DEF Surjection
  <2> QED
    BY <2>2, <2>3 DEF Bijection
<1>4. IsFiniteSet(1..Len(q)) /\ Cardinality(1..Len(q)) = Len(q)
  <2> DEFINE l == Len(q)
  <2>1. 1 \in Int /\ l \in Int /\ l >= 0
    BY <1>1
  <2> HIDE DEF l
  <2>2. IsFiniteSet(1..l) /\ Cardinality(1..l) = IF 1 > l THEN 0 ELSE l - 1 + 1
    BY <2>1, FS_Interval
  <2>3. Cardinality(1..l) = l
    BY <2>1, <2>2
  <2> QED
    BY <2>2, <2>3 DEF l
<1>5. IsFiniteSet(Range(q)) /\ Cardinality(Range(q)) = Len(q)
  BY <1>3, <1>4, FS_Bijection DEF ExistsBijection
<1>6. Range(q) \subseteq Slots
  BY <1>1, <1>2
<1>7. Cardinality(Range(q)) <= Cardinality(Slots)
  BY <1>6, SlotCount, FS_Subset
<1> QED
  BY <1>1, <1>5, <1>6, <1>7, SlotCount

-----------------------------------------------------------------------------
(* Chain() follows the pointers                                              *)

\* Chain(), of any pointers
ChainStep(np, head, w, i) ==
  LET y == np[IF w = << >> THEN head ELSE Last(w)]
  IN IF Len(w) < i - 1 \/ y = Null THEN w ELSE Append(w, y)

Walks(g, np, head) ==
  g = [i \in 0..MaxMatches |-> IF i = 0 THEN << >> ELSE ChainStep(np, head, g[i - 1], i)]

Followed(np, head) == (CHOOSE g : Walks(g, np, head))[MaxMatches]

\* Chain() is Followed() of the pointers as they are, and as they are after a step.
LEMMA ChainFollows ==
  ASSUME NEW head
  PROVE  Chain(head) = Followed(nextPart, head) /\ Chain(head)' = Followed(nextPart', head)
<1>1. Chain(head) = Followed(nextPart, head)
  BY Zenon DEF Chain, Followed, Walks, ChainStep
<1>2. Chain(head)' = Followed(nextPart', head)
  BY Zenon DEF Chain, Followed, Walks, ChainStep
<1> QED
  BY <1>1, <1>2

\* A walk, object by object.
LEMMA WalksAt ==
  ASSUME NEW g, NEW np, NEW head, Walks(g, np, head)
  PROVE  /\ g[0] = << >>
         /\ \A i \in 1..MaxMatches : g[i] = ChainStep(np, head, g[i - 1], i)
BY SlotCount DEF Walks

\* There is one walk at most.
LEMMA WalkUnique ==
  ASSUME NEW g, NEW np, NEW head, Walks(g, np, head)
  PROVE  Followed(np, head) = g[MaxMatches]
<1> DEFINE f == CHOOSE h : Walks(h, np, head)
<1>1. Walks(f, np, head)
  <2>1. \E h : Walks(h, np, head)
    OBVIOUS
  <2> QED
    BY <2>1, Zenon
<1>2. Followed(np, head) = f[MaxMatches]
  BY Zenon DEF Followed
<1> HIDE DEF f
<1>3. \A i \in 0..MaxMatches : f[i] = g[i]
  <2> SUFFICES ASSUME NEW j \in 0..MaxMatches, f[j] # g[j] PROVE FALSE
    OBVIOUS
  <2> DEFINE S == {i \in 0..MaxMatches : f[i] # g[i]}
  <2>1. S \subseteq Nat /\ S # {}
    BY SlotCount
  <2>2. PICK m \in S : \A i \in S : m <= i
    BY <2>1, MinExists
  <2>3. m \in 0..MaxMatches /\ f[m] # g[m]
    BY <2>2
  <2>4. m # 0
    BY <1>1, <2>3, WalksAt
  <2>5. f[m - 1] = g[m - 1]
    <3>1. m - 1 \in 0..MaxMatches /\ ~(m <= m - 1)
      BY <2>3, <2>4, SlotCount
    <3> QED
      BY <2>2, <3>1
  <2>6. /\ f[m] = ChainStep(np, head, f[m - 1], m)
        /\ g[m] = ChainStep(np, head, g[m - 1], m)
    <3>1. m \in 1..MaxMatches
      BY <2>3, <2>4, SlotCount
    <3> QED
      BY <1>1, <3>1, WalksAt
  <2> QED
    BY <2>3, <2>5, <2>6
<1> QED
  BY <1>2, <1>3, SlotCount

\* The first objects of a list.
LEMMA FirstObjects ==
  ASSUME NEW q \in Seq(Slots), NEW m \in 0..Len(q)
  PROVE  /\ SubSeq(q, 1, m) \in Seq(Slots) /\ Len(SubSeq(q, 1, m)) = m
         /\ \A i \in 1..m : SubSeq(q, 1, m)[i] = q[i]
<1> DEFINE w == SubSeq(q, 1, m)
<1>1. Len(q) \in Nat /\ \A i \in 1..Len(q) : q[i] \in Slots
  BY LenProperties, ElementOfSeq
<1>2. \A i \in 1..m : q[i] \in Slots
  BY <1>1
<1>3. /\ w \in Seq(Slots) /\ Len(w) = IF 1 <= m THEN m - 1 + 1 ELSE 0
      /\ \A i \in 1..(m - 1 + 1) : w[i] = q[1 + i - 1]
  BY <1>1, <1>2, SubSeqProperties
<1> HIDE DEF w
<1>4. Len(w) = m
  BY <1>1, <1>3
<1>5. \A i \in 1..m : w[i] = q[i]
  BY <1>1, <1>3
<1> QED
  BY <1>3, <1>4, <1>5 DEF w

\* A walk along a list that is linked finds it.
LEMMA WalkFinds ==
  ASSUME NEW np, NEW head, NEW q \in Seq(Slots), Linked(np, head, q),
         Len(q) <= MaxMatches, Null \notin Slots
  PROVE  Followed(np, head) = q
<1> DEFINE l == Len(q)
           g == [i \in 0..MaxMatches |-> SubSeq(q, 1, IF i < l THEN i ELSE l)]
<1>1. l \in Nat /\ MaxMatches \in Nat /\ l <= MaxMatches
  BY LenProperties, SlotCount
<1>2. \A i \in 1..l : q[i] \in Slots
  BY ElementOfSeq
<1>3. ASSUME NEW i \in 1..MaxMatches PROVE g[i] = ChainStep(np, head, g[i - 1], i)
  <2> DEFINE m == IF i - 1 < l THEN i - 1 ELSE l
             w == SubSeq(q, 1, m)
  <2>1. m \in 0..l /\ m \in Nat
    BY <1>1
  <2>2. w \in Seq(Slots) /\ Len(w) = m /\ \A k \in 1..m : w[k] = q[k]
    BY <2>1, FirstObjects
  <2>3. g[i - 1] = w
    BY <1>1
  <2> HIDE DEF w
  <2>4. (IF w = << >> THEN head ELSE Last(w)) = PlaceOf(head, q, m)
    <3>1. CASE m = 0
      <4>1. w = << >>
        BY <2>2, <3>1, EmptySeq
      <4> QED
        BY <3>1, <4>1 DEF PlaceOf
    <3>2. CASE m # 0
      <4>1. m \in 1..m
        BY <2>1, <3>2
      <4>2. w # << >> /\ Last(w) = w[m]
        BY <2>1, <2>2, <3>2 DEF Last
      <4> QED
        BY <2>2, <3>2, <4>1, <4>2 DEF PlaceOf
    <3> QED
      BY <3>1, <3>2
  <2>5. np[PlaceOf(head, q, m)] = PointsTo(q, m)
    BY <2>1 DEF Linked
  <2>6. ChainStep(np, head, w, i)
          = IF m < i - 1 \/ PointsTo(q, m) = Null THEN w ELSE Append(w, PointsTo(q, m))
    BY <2>2, <2>4, <2>5 DEF ChainStep
  <2>7. CASE i <= l
    <3>1. m = i - 1 /\ ~(m < i - 1) /\ m < l
      BY <1>1, <2>7
    <3>2. PointsTo(q, m) = q[i] /\ q[i] \in Slots
      BY <1>1, <1>2, <2>7, <3>1 DEF PointsTo
    <3>3. ChainStep(np, head, w, i) = Append(w, q[i])
      BY <2>6, <3>1, <3>2
    <3>4. g[i] = SubSeq(q, 1, i)
      BY <1>1, <2>7
    <3>5. i \in 0..l /\ Len(w) = i - 1
      BY <1>1, <2>2, <2>7, <3>1
    <3> DEFINE u == SubSeq(q, 1, i)
    <3>6. u \in Seq(Slots) /\ Len(u) = i /\ \A k \in 1..i : u[k] = q[k]
      BY <3>5, FirstObjects
    <3> DEFINE v == Append(w, q[i])
    <3>7. v \in Seq(Slots) /\ Len(v) = i /\ \A k \in 1..i : v[k] = q[k]
      <4>1. /\ v \in Seq(Slots) /\ Len(v) = Len(w) + 1 /\ v[Len(w) + 1] = q[i]
            /\ \A k \in 1..Len(w) : v[k] = w[k]
        BY <2>2, <3>2, AppendProperties
      <4> HIDE DEF v
      <4>2. ASSUME NEW k \in 1..i PROVE v[k] = q[k]
        <5>1. CASE k = i
          BY <3>5, <4>1, <5>1
        <5>2. CASE k # i
          <6>1. k \in 1..Len(w) /\ k \in 1..m
            BY <3>1, <3>5, <5>2
          <6> QED
            BY <2>2, <4>1, <6>1
        <5> QED
          BY <5>1, <5>2
      <4> QED
        BY <3>5, <4>1, <4>2
    <3> HIDE DEF u, v
    <3>8. u = v
      BY <3>6, <3>7, SeqEqual
    <3> QED
      BY <2>3, <3>3, <3>4, <3>8 DEF u, v
  <2>8. CASE ~(i <= l)
    <3>1. m = l /\ PointsTo(q, m) = Null
      BY <1>1, <2>8 DEF PointsTo
    <3>2. ChainStep(np, head, w, i) = w
      BY <2>6, <3>1
    <3>3. g[i] = SubSeq(q, 1, l)
      BY <1>1, <2>8
    <3> QED
      BY <2>3, <3>1, <3>2, <3>3 DEF w
  <2> QED
    BY <2>7, <2>8
<1>4. g[0] = << >>
  <2>1. 0 \in 0..l /\ g[0] = SubSeq(q, 1, 0)
    BY <1>1
  <2>2. SubSeq(q, 1, 0) \in Seq(Slots) /\ Len(SubSeq(q, 1, 0)) = 0
    BY <2>1, FirstObjects
  <2> QED
    BY <2>1, <2>2, EmptySeq
<1>5. g[MaxMatches] = q
  <2>1. g[MaxMatches] = SubSeq(q, 1, l)
    BY <1>1
  <2>2. l \in 0..l
    BY <1>1
  <2>3. SubSeq(q, 1, l) \in Seq(Slots) /\ Len(SubSeq(q, 1, l)) = l /\ \A k \in 1..l : SubSeq(q, 1, l)[k] = q[k]
    BY <2>2, FirstObjects
  <2> DEFINE w == SubSeq(q, 1, l)
  <2> HIDE DEF w
  <2>4. w = q
    BY <2>3, SeqEqual DEF w
  <2> QED
    BY <2>1, <2>4 DEF w
<1>6. g = [i \in 0..MaxMatches |-> g[i]]
  OBVIOUS
<1> HIDE DEF g
<1>7. Walks(g, np, head)
  <2>1. ASSUME NEW i \in 0..MaxMatches
        PROVE  g[i] = IF i = 0 THEN << >> ELSE ChainStep(np, head, g[i - 1], i)
    <3>1. CASE i = 0
      BY <1>4, <3>1
    <3>2. CASE i # 0
      <4>1. i \in 1..MaxMatches
        BY <1>1, <3>2
      <4> QED
        BY <1>3, <3>2, <4>1
    <3> QED
      BY <3>1, <3>2
  <2> QED
    BY <1>6, <2>1 DEF Walks
<1> QED
  BY <1>5, <1>7, WalkUnique

\* The two lists that the pointers form are those that Chain() finds.
LEMMA ListsFound ==
  ASSUME ListAssumption, NEW np, NEW q, NEW r, NEW s, Lists(np, q, r, s)
  PROVE  Followed(np, Head1) = q /\ Followed(np, FreeHead) = r
<1>1. Len(q) <= MaxMatches /\ Len(r) <= MaxMatches
  BY DistinctCount DEF Lists
<1>2. Null \notin Slots
  BY PlaceFacts
<1> QED
  BY <1>1, <1>2, WalkFinds DEF Lists

-----------------------------------------------------------------------------
(* What a change of pointers does to the lists                               *)

\* np2 has the pointer v at place p and is np otherwise.
SetPointer(np, np2, p, v) ==
  /\ np2 \in [Places -> Slots \union {Null}]
  /\ np2[p] = v /\ \A o \in Places : o # p => np2[o] = np[o]

\* EXCEPT sets one pointer.
LEMMA SetPointerIs ==
  ASSUME NEW np \in [Places -> Slots \union {Null}], NEW p \in Places,
         NEW v \in Slots \union {Null}
  PROVE  SetPointer(np, [np EXCEPT ![p] = v], p, v)
BY DEF SetPointer

\* All places are different.
LEMMA PlacesApart ==
  ASSUME ListAssumption, NEW np, NEW q, NEW r, NEW s, Lists(np, q, r, s)
  PROVE  /\ Len(q) \in Nat /\ Len(r) \in Nat
         /\ \A i \in 0..Len(q) : PlaceOf(Head1, q, i) \in Places
         /\ \A i \in 0..Len(r) : PlaceOf(FreeHead, r, i) \in Places
         /\ \A i \in 0..Len(q) : PointsTo(q, i) \in Slots \union {Null}
         /\ \A i \in 0..Len(r) : PointsTo(r, i) \in Slots \union {Null}
         /\ \A i, j \in 0..Len(q) : PlaceOf(Head1, q, i) = PlaceOf(Head1, q, j) => i = j
         /\ \A i, j \in 0..Len(r) : PlaceOf(FreeHead, r, i) = PlaceOf(FreeHead, r, j) => i = j
         /\ \A i \in 0..Len(q), j \in 0..Len(r) : PlaceOf(Head1, q, i) # PlaceOf(FreeHead, r, j)
         /\ s \in Slots => /\ \A i \in 0..Len(q) : PlaceOf(Head1, q, i) # s
                           /\ \A i \in 0..Len(r) : PlaceOf(FreeHead, r, i) # s
<1>1. /\ Len(q) \in Nat /\ Len(r) \in Nat
      /\ \A i \in 1..Len(q) : q[i] \in Slots /\ q[i] # s
      /\ \A i \in 1..Len(r) : r[i] \in Slots /\ r[i] # s
  BY LenProperties, ElementOfSeq DEF Lists, In
<1>2. /\ Distinct(q) /\ Distinct(r)
      /\ \A i \in 1..Len(q), j \in 1..Len(r) : q[i] # r[j]
  BY DEF Lists
<1>3. \A i \in 0..Len(q) : i = 0 \/ i \in 1..Len(q)
  BY <1>1
<1>4. \A i \in 0..Len(r) : i = 0 \/ i \in 1..Len(r)
  BY <1>1
<1>5. /\ \A i \in 0..Len(q) : i < Len(q) => i + 1 \in 1..Len(q)
      /\ \A i \in 0..Len(r) : i < Len(r) => i + 1 \in 1..Len(r)
  BY <1>1
<1>6. /\ \A i \in 0..Len(q) : PlaceOf(Head1, q, i) \in Places
      /\ \A i \in 0..Len(r) : PlaceOf(FreeHead, r, i) \in Places
  BY <1>1, <1>3, <1>4 DEF PlaceOf, Places
<1>7. /\ \A i \in 0..Len(q) : PointsTo(q, i) \in Slots \union {Null}
      /\ \A i \in 0..Len(r) : PointsTo(r, i) \in Slots \union {Null}
  BY <1>1, <1>5 DEF PointsTo
<1>8. \A i, j \in 0..Len(q) : PlaceOf(Head1, q, i) = PlaceOf(Head1, q, j) => i = j
  BY <1>1, <1>2, <1>3, PlaceFacts DEF PlaceOf, Distinct
<1>9. \A i, j \in 0..Len(r) : PlaceOf(FreeHead, r, i) = PlaceOf(FreeHead, r, j) => i = j
  BY <1>1, <1>2, <1>4, PlaceFacts DEF PlaceOf, Distinct
<1>10. \A i \in 0..Len(q), j \in 0..Len(r) : PlaceOf(Head1, q, i) # PlaceOf(FreeHead, r, j)
  BY <1>1, <1>2, <1>3, <1>4, PlaceFacts DEF PlaceOf
<1>11. s \in Slots => /\ \A i \in 0..Len(q) : PlaceOf(Head1, q, i) # s
                      /\ \A i \in 0..Len(r) : PlaceOf(FreeHead, r, i) # s
  BY <1>1, <1>3, <1>4, PlaceFacts DEF PlaceOf
<1> QED
  BY <1>1, <1>6, <1>7, <1>8, <1>9, <1>10, <1>11

\* A list whose places keep their pointers stays as it is.
LEMMA LinkedKept ==
  ASSUME NEW np, NEW np2, NEW p, NEW v, SetPointer(np, np2, p, v),
         NEW head, NEW q, Linked(np, head, q),
         \A i \in 0..Len(q) : PlaceOf(head, q, i) \in Places /\ PlaceOf(head, q, i) # p
  PROVE  Linked(np2, head, q)
BY DEF Linked, SetPointer

\* An object of the queue is taken out of it.
LEMMA TakeOut ==
  ASSUME ListAssumption, NEW np, NEW np2, NEW q, NEW r, Lists(np, q, r, Null),
         NEW k \in Nat, k < Len(q),
         SetPointer(np, np2, PlaceOf(Head1, q, k), np[q[k + 1]])
  PROVE  Lists(np2, RemoveAt(q, k + 1), r, q[k + 1])
<1> DEFINE c == RemoveAt(q, k + 1)
           s == q[k + 1]
           l == Len(q)
<1>1. /\ l \in Nat /\ k + 1 \in 1..l /\ k \in 0..l /\ q \in Seq(Slots)
      /\ \A i \in 1..l : q[i] \in Slots
  BY LenProperties, ElementOfSeq DEF Lists
<1>2. /\ c \in Seq(Slots) /\ Len(c) = l - 1
      /\ \A i \in 1..(l - 1) : c[i] = IF i < k + 1 THEN q[i] ELSE q[i + 1]
  <2> DEFINE m == k + 1
  <2> HIDE DEF m
  <2>1. m \in 1..Len(q)
    BY <1>1 DEF m
  <2>2. /\ RemoveAt(q, m) \in Seq(Slots) /\ Len(RemoveAt(q, m)) = Len(q) - 1
        /\ \A i \in 1..(Len(q) - 1) : RemoveAt(q, m)[i] = IF i < m THEN q[i] ELSE q[i + 1]
    BY <1>1, <2>1, RemoveAtFacts
  <2> QED
    BY <2>2 DEF m
<1> HIDE DEF c
<1>3. \A i \in 1..(l - 1) : /\ i <= k => c[i] = q[i] /\ i \in 1..l
                            /\ i > k => c[i] = q[i + 1] /\ i + 1 \in 1..l
  BY <1>1, <1>2
<1>4. /\ Distinct(q) /\ Distinct(r) /\ Linked(np, Head1, q) /\ Linked(np, FreeHead, r)
      /\ \A i \in 1..Len(q), j \in 1..Len(r) : q[i] # r[j]
      /\ \A t \in Slots : In(q, t) \/ In(r, t) \/ t = Null
      /\ r \in Seq(Slots) /\ Len(r) \in Nat
  BY LenProperties DEF Lists
<1>5. np2 \in [Places -> Slots \union {Null}]
  BY DEF SetPointer
<1>6. Linked(np2, FreeHead, r)
  BY <1>1, <1>4, PlacesApart, LinkedKept
<1>7. Linked(np2, Head1, c)
  <2> SUFFICES ASSUME NEW i \in 0..(l - 1)
               PROVE  np2[PlaceOf(Head1, c, i)] = PointsTo(c, i)
    BY <1>2 DEF Linked
  <2>1. CASE i < k
    <3>1. i \in 0..l /\ i # k
      BY <1>1, <2>1
    <3>2. PlaceOf(Head1, c, i) = PlaceOf(Head1, q, i)
      BY <1>1, <1>3, <2>1 DEF PlaceOf
    <3>3. PointsTo(c, i) = PointsTo(q, i)
      <4>1. i + 1 \in 1..(l - 1) /\ i + 1 <= k /\ i < l - 1 /\ i < l
        BY <1>1, <2>1
      <4> QED
        BY <1>2, <1>3, <4>1 DEF PointsTo
    <3>4. PlaceOf(Head1, q, i) \in Places /\ PlaceOf(Head1, q, i) # PlaceOf(Head1, q, k)
      BY <1>1, <3>1, PlacesApart
    <3> QED
      BY <1>4, <3>1, <3>2, <3>3, <3>4 DEF Linked, SetPointer
  <2>2. CASE i = k
    <3>1. PlaceOf(Head1, c, i) = PlaceOf(Head1, q, k)
      <4>1. CASE k = 0
        BY <2>2, <4>1 DEF PlaceOf
      <4>2. CASE k # 0
        <5>1. k \in 1..(l - 1) /\ k <= k
          BY <1>1, <2>2, <4>2
        <5> QED
          BY <1>3, <2>2, <5>1 DEF PlaceOf
      <4> QED
        BY <4>1, <4>2
    <3>2. np[s] = PointsTo(q, k + 1)
      <4>1. k + 1 \in 0..l /\ k + 1 # 0
        BY <1>1
      <4>2. PlaceOf(Head1, q, k + 1) = s
        BY <4>1 DEF PlaceOf
      <4> QED
        BY <1>4, <4>1, <4>2 DEF Linked
    <3>3. PointsTo(q, k + 1) = PointsTo(c, k)
      <4>1. CASE k + 1 < l
        <5>1. k + 1 \in 1..(l - 1) /\ k + 1 > k /\ k < l - 1 /\ (k + 1) + 1 = k + 1 + 1
          BY <1>1, <4>1
        <5> QED
          BY <1>2, <1>3, <4>1, <5>1 DEF PointsTo
      <4>2. CASE ~(k + 1 < l)
        <5>1. ~(k < l - 1)
          BY <1>1, <4>2
        <5> QED
          BY <1>2, <4>2, <5>1 DEF PointsTo
      <4> QED
        BY <4>1, <4>2
    <3> QED
      BY <2>2, <3>1, <3>2, <3>3 DEF SetPointer
  <2>3. CASE i > k
    <3> DEFINE j == i + 1
    <3>1. j \in 0..l /\ j # k /\ j # 0 /\ i # 0 /\ i \in 1..(l - 1)
      BY <1>1, <2>3
    <3>2. PlaceOf(Head1, c, i) = PlaceOf(Head1, q, j)
      BY <1>3, <2>3, <3>1 DEF PlaceOf
    <3>3. PointsTo(c, i) = PointsTo(q, j)
      <4>1. CASE i < l - 1
        <5>1. i + 1 \in 1..(l - 1) /\ i + 1 > k /\ j < l
          BY <1>1, <2>3, <4>1
        <5> QED
          BY <1>2, <1>3, <4>1, <5>1 DEF PointsTo
      <4>2. CASE ~(i < l - 1)
        <5>1. ~(j < l)
          BY <1>1, <4>2
        <5> QED
          BY <1>2, <4>2, <5>1 DEF PointsTo
      <4> QED
        BY <4>1, <4>2
    <3> HIDE DEF j
    <3>4. PlaceOf(Head1, q, j) \in Places /\ PlaceOf(Head1, q, j) # PlaceOf(Head1, q, k)
      BY <1>1, <3>1, PlacesApart
    <3> QED
      BY <1>4, <3>1, <3>2, <3>3, <3>4 DEF Linked, SetPointer
  <2> QED
    BY <1>1, <2>1, <2>2, <2>3
<1>8. ASSUME NEW i \in 1..(l - 1)
      PROVE  \E a \in 1..l : a # k + 1 /\ c[i] = q[a] /\ a = IF i <= k THEN i ELSE i + 1
  BY <1>1, <1>3
<1>9. Distinct(c)
  <2> SUFFICES ASSUME NEW i \in 1..(l - 1), NEW j \in 1..(l - 1), c[i] = c[j] PROVE i = j
    BY <1>2 DEF Distinct
  <2>1. PICK a \in 1..l : c[i] = q[a] /\ a = IF i <= k THEN i ELSE i + 1
    BY <1>8
  <2>2. PICK b \in 1..l : c[j] = q[b] /\ b = IF j <= k THEN j ELSE j + 1
    BY <1>8
  <2>3. a = b
    BY <1>4, <2>1, <2>2 DEF Distinct
  <2> QED
    BY <1>1, <2>1, <2>2, <2>3
<1>10. \A i \in 1..Len(c), j \in 1..Len(r) : c[i] # r[j]
  BY <1>2, <1>4, <1>8
<1>11. ~In(c, s)
  <2> SUFFICES ASSUME NEW i \in 1..(l - 1), c[i] = s PROVE FALSE
    BY <1>2 DEF In
  <2>1. PICK a \in 1..l : a # k + 1 /\ c[i] = q[a]
    BY <1>8
  <2> QED
    BY <1>1, <1>4, <2>1 DEF Distinct
<1>12. ~In(r, s)
  BY <1>1, <1>4 DEF In
<1>13. \A t \in Slots : In(c, t) \/ In(r, t) \/ t = s
  <2> SUFFICES ASSUME NEW t \in Slots, ~In(r, t), t # s PROVE In(c, t)
    OBVIOUS
  <2>1. PICK a \in 1..l : q[a] = t
    BY <1>4, PlaceFacts DEF In
  <2>2. CASE a <= k
    <3>1. a \in 1..(l - 1) /\ c[a] = t
      BY <1>1, <1>3, <2>1, <2>2
    <3> QED
      BY <1>2, <3>1 DEF In
  <2>3. CASE ~(a <= k)
    <3> DEFINE i == a - 1
    <3>1. a # k + 1
      BY <2>1
    <3>2. i \in 1..(l - 1) /\ i > k /\ i + 1 = a
      BY <1>1, <2>3, <3>1
    <3> HIDE DEF i
    <3>3. c[i] = t
      BY <1>3, <2>1, <3>2
    <3> QED
      BY <1>2, <3>2, <3>3 DEF In
  <2> QED
    BY <2>2, <2>3
<1> HIDE DEF s
<1>14. Lists(np2, c, r, s)
  BY <1>2, <1>4, <1>5, <1>6, <1>7, <1>9, <1>10, <1>11, <1>12, <1>13 DEF Lists
<1> QED
  BY <1>14 DEF c, s

\* Before the first element of a sequence
LEMMA PushFacts ==
  ASSUME NEW s \in Slots, NEW q \in Seq(Slots)
  PROVE  /\ <<s>> \o q \in Seq(Slots) /\ Len(<<s>> \o q) = Len(q) + 1
         /\ (<<s>> \o q)[1] = s
         /\ \A i \in 1..Len(q) : (<<s>> \o q)[i + 1] = q[i]
<1> DEFINE w == <<s>>
           c == w \o q
<1>1. w \in Seq(Slots) /\ Len(w) = 1 /\ w[1] = s /\ Len(q) \in Nat
  BY LenProperties
<1> HIDE DEF w
<1>2. /\ c \in Seq(Slots) /\ Len(c) = Len(w) + Len(q)
      /\ \A i \in 1..(Len(w) + Len(q)) :
            c[i] = IF i <= Len(w) THEN w[i] ELSE q[i - Len(w)]
  BY <1>1, ConcatProperties
<1> HIDE DEF c
<1>3. Len(c) = Len(q) + 1
  BY <1>1, <1>2
<1>4. c[1] = s
  BY <1>1, <1>2
<1>5. \A i \in 1..Len(q) : c[i + 1] = q[i]
  BY <1>1, <1>2
<1> QED
  BY <1>2, <1>3, <1>4, <1>5 DEF c, w

\* The object in the hand becomes the first of the free list.
LEMMA PutFree ==
  ASSUME ListAssumption, NEW np, NEW np1, NEW np2, NEW q, NEW r, NEW s \in Slots,
         Lists(np, q, r, s),
         SetPointer(np, np1, s, np[FreeHead]), SetPointer(np1, np2, FreeHead, s)
  PROVE  Lists(np2, q, <<s>> \o r, Null)
<1> DEFINE c == <<s>> \o r
           l == Len(r)
<1>1. /\ r \in Seq(Slots) /\ q \in Seq(Slots) /\ Linked(np, Head1, q)
      /\ Linked(np, FreeHead, r) /\ Distinct(q) /\ Distinct(r)
      /\ \A i \in 1..Len(q), j \in 1..Len(r) : q[i] # r[j]
      /\ ~In(q, s) /\ ~In(r, s)
      /\ \A t \in Slots : In(q, t) \/ In(r, t) \/ t = s
      /\ l \in Nat /\ Len(q) \in Nat
      /\ np2 \in [Places -> Slots \union {Null}]
  BY LenProperties DEF Lists, SetPointer
<1>2. /\ c \in Seq(Slots) /\ Len(c) = l + 1 /\ c[1] = s
      /\ \A i \in 1..l : c[i + 1] = r[i]
  BY <1>1, PushFacts
<1> HIDE DEF c
<1>3. ASSUME NEW i \in 1..(l + 1) PROVE (i = 1 /\ c[i] = s) \/ \E a \in 1..l : i = a + 1 /\ c[i] = r[a]
  <2>1. CASE i = 1
    BY <1>2, <2>1
  <2>2. CASE i # 1
    <3> DEFINE a == i - 1
    <3>1. a \in 1..l /\ i = a + 1
      BY <1>1, <2>2
    <3> HIDE DEF a
    <3> QED
      BY <1>2, <3>1
  <2> QED
    BY <2>1, <2>2
<1>4. s \in Places /\ FreeHead \in Places /\ s # FreeHead /\ 0 \in 0..l
  BY <1>1, PlaceFacts DEF Places
<1>5. \A i \in 0..Len(q) : /\ PlaceOf(Head1, q, i) \in Places
                           /\ PlaceOf(Head1, q, i) # s /\ PlaceOf(Head1, q, i) # FreeHead
  <2>1. PlaceOf(FreeHead, r, 0) = FreeHead
    BY DEF PlaceOf
  <2> QED
    BY <1>4, <2>1, PlacesApart
<1>6. Linked(np2, Head1, q)
  <2>1. Linked(np1, Head1, q)
    BY <1>1, <1>5, LinkedKept
  <2> QED
    BY <2>1, <1>5, LinkedKept
<1>7. Linked(np2, FreeHead, c)
  <2> SUFFICES ASSUME NEW i \in 0..(l + 1)
               PROVE  np2[PlaceOf(FreeHead, c, i)] = PointsTo(c, i)
    BY <1>2 DEF Linked
  <2>1. CASE i = 0
    <3>1. PlaceOf(FreeHead, c, i) = FreeHead /\ PointsTo(c, i) = s
      BY <1>1, <1>2, <2>1 DEF PlaceOf, PointsTo
    <3> QED
      BY <3>1 DEF SetPointer
  <2>2. CASE i = 1
    <3>1. PlaceOf(FreeHead, c, i) = s
      BY <1>2, <2>2 DEF PlaceOf
    <3>2. PointsTo(c, i) = PointsTo(r, 0)
      <4>1. CASE l > 0
        <5>1. 1 \in 1..l /\ 1 < l + 1
          BY <1>1, <4>1
        <5> QED
          BY <1>2, <2>2, <4>1, <5>1 DEF PointsTo
      <4>2. CASE ~(l > 0)
        BY <1>1, <1>2, <2>2, <4>2 DEF PointsTo
      <4> QED
        BY <4>1, <4>2
    <3>3. np[FreeHead] = PointsTo(r, 0)
      BY <1>1, <1>4 DEF Linked, PlaceOf
    <3> QED
      BY <1>4, <3>1, <3>2, <3>3 DEF SetPointer
  <2>3. CASE i > 1
    <3> DEFINE j == i - 1
    <3>1. j \in 1..l /\ j + 1 = i /\ j \in 0..l /\ j # 0 /\ i # 0
      BY <1>1, <2>3
    <3> HIDE DEF j
    <3>2. PlaceOf(FreeHead, c, i) = PlaceOf(FreeHead, r, j)
      BY <1>2, <3>1 DEF PlaceOf
    <3>3. PointsTo(c, i) = PointsTo(r, j)
      <4>1. CASE j < l
        <5>1. j + 1 \in 1..l /\ i < l + 1
          BY <1>1, <3>1, <4>1
        <5>2. c[(j + 1) + 1] = r[j + 1]
          BY <1>2, <5>1
        <5> QED
          BY <1>2, <3>1, <4>1, <5>1, <5>2 DEF PointsTo
      <4>2. CASE ~(j < l)
        <5>1. ~(i < l + 1)
          BY <1>1, <3>1, <4>2
        <5> QED
          BY <1>2, <4>2, <5>1 DEF PointsTo
      <4> QED
        BY <4>1, <4>2
    <3>4. /\ PlaceOf(FreeHead, r, j) \in Places /\ PlaceOf(FreeHead, r, j) # s
          /\ PlaceOf(FreeHead, r, j) # FreeHead
      <4>1. PlaceOf(FreeHead, r, 0) = FreeHead
        BY DEF PlaceOf
      <4> QED
        BY <1>4, <3>1, <4>1, PlacesApart
    <3> QED
      BY <1>1, <3>1, <3>2, <3>3, <3>4 DEF Linked, SetPointer
  <2> QED
    BY <1>1, <2>1, <2>2, <2>3
<1>8. Distinct(c)
  <2> SUFFICES ASSUME NEW i \in 1..(l + 1), NEW j \in 1..(l + 1), c[i] = c[j] PROVE i = j
    BY <1>2 DEF Distinct
  <2>1. \A a \in 1..l : r[a] # s
    BY <1>1 DEF In
  <2> QED
    BY <1>1, <1>3, <2>1 DEF Distinct
<1>9. \A i \in 1..Len(q), j \in 1..Len(c) : q[i] # c[j]
  BY <1>1, <1>2, <1>3 DEF In
<1>10. ~In(q, Null) /\ ~In(c, Null)
  BY <1>1, <1>2, PlaceFacts, ElementOfSeq DEF In
<1>11. \A t \in Slots : In(q, t) \/ In(c, t) \/ t = Null
  <2> SUFFICES ASSUME NEW t \in Slots, ~In(q, t) PROVE In(c, t)
    OBVIOUS
  <2>1. CASE t = s
    <3>1. 1 \in 1..Len(c)
      BY <1>1, <1>2
    <3> QED
      BY <1>2, <2>1, <3>1 DEF In
  <2>2. CASE t # s
    <3>1. PICK a \in 1..l : r[a] = t
      BY <1>1, <2>2 DEF In
    <3>2. a + 1 \in 1..Len(c) /\ c[a + 1] = t
      BY <1>1, <1>2, <3>1
    <3> QED
      BY <3>2 DEF In
  <2> QED
    BY <2>1, <2>2
<1>12. Lists(np2, q, c, Null)
  BY <1>1, <1>2, <1>6, <1>7, <1>8, <1>9, <1>10, <1>11 DEF Lists
<1> QED
  BY <1>12 DEF c

\* The object in the hand is linked into the queue after its k-th pointer.
LEMMA LinkIn ==
  ASSUME ListAssumption, NEW np, NEW np1, NEW np2, NEW q, NEW r, NEW s \in Slots,
         Lists(np, q, r, s), NEW k \in Nat, k <= Len(q),
         SetPointer(np, np1, s, PointsTo(q, k)),
         SetPointer(np1, np2, PlaceOf(Head1, q, k), s)
  PROVE  Lists(np2, InsertAt(q, k + 1, s), r, Null)
<1> DEFINE c == InsertAt(q, k + 1, s)
           l == Len(q)
<1>1. /\ r \in Seq(Slots) /\ q \in Seq(Slots) /\ Linked(np, Head1, q)
      /\ Linked(np, FreeHead, r) /\ Distinct(q) /\ Distinct(r)
      /\ \A i \in 1..Len(q), j \in 1..Len(r) : q[i] # r[j]
      /\ ~In(q, s) /\ ~In(r, s)
      /\ \A t \in Slots : In(q, t) \/ In(r, t) \/ t = s
      /\ l \in Nat /\ Len(r) \in Nat
      /\ np2 \in [Places -> Slots \union {Null}]
  BY LenProperties DEF Lists, SetPointer
<1>2. /\ c \in Seq(Slots) /\ Len(c) = l + 1 /\ c[k + 1] = s
      /\ \A i \in 1..k : c[i] = q[i]
      /\ \A i \in (k + 1)..l : c[i + 1] = q[i]
  <2> DEFINE m == k + 1
  <2>1. m \in 1..(Len(q) + 1) /\ m - 1 = k
    BY <1>1
  <2>0. m \in 1..(Len(q) + 1) /\ q \in Seq(Slots)
    BY <1>1
  <2> HIDE DEF m
  <2>2. /\ InsertAt(q, m, s) \in Seq(Slots) /\ Len(InsertAt(q, m, s)) = Len(q) + 1
        /\ \A i \in 1..(m - 1) : InsertAt(q, m, s)[i] = q[i]
        /\ InsertAt(q, m, s)[m] = s
        /\ \A i \in (m + 1)..(Len(q) + 1) : InsertAt(q, m, s)[i] = q[i - 1]
    BY <2>0, InsertAtFacts
  <2> DEFINE d == InsertAt(q, m, s)
  <2>3. \A i \in 1..k : d[i] = q[i]
    BY <2>1, <2>2
  <2>4. ASSUME NEW i \in m..l PROVE d[i + 1] = q[i]
    <3> HIDE DEF d
    <3>1. i + 1 \in (m + 1)..(l + 1) /\ (i + 1) - 1 = i
      BY <1>1, <2>1
    <3>2. d[i + 1] = q[(i + 1) - 1]
      BY <2>2, <3>1 DEF d
    <3> QED
      BY <3>1, <3>2
  <2> QED
    BY <2>2, <2>3, <2>4 DEF m
<1> HIDE DEF c
\* Where an object of the new queue comes from
<1>3. ASSUME NEW i \in 1..(l + 1)
      PROVE  \/ i = k + 1 /\ c[i] = s
             \/ \E a \in 1..l : /\ c[i] = q[a] /\ i # k + 1
                                /\ a = IF i <= k THEN i ELSE i - 1
  <2>1. CASE i <= k
    BY <1>1, <1>2, <2>1
  <2>2. CASE i = k + 1
    BY <1>2, <2>2
  <2>3. CASE i > k + 1
    <3> DEFINE a == i - 1
    <3>1. a \in (k + 1)..l /\ a + 1 = i /\ a \in 1..l /\ ~(i <= k) /\ i # k + 1
      BY <1>1, <2>3
    <3> HIDE DEF a
    <3>2. c[i] = q[a]
      BY <1>2, <3>1
    <3> QED
      BY <3>1, <3>2 DEF a
  <2> QED
    BY <1>1, <2>1, <2>2, <2>3
<1>4. /\ \A i \in 0..l : PlaceOf(Head1, q, i) \in Places /\ PlaceOf(Head1, q, i) # s
      /\ \A i, j \in 0..l : PlaceOf(Head1, q, i) = PlaceOf(Head1, q, j) => i = j
      /\ \A j \in 0..Len(r) : /\ PlaceOf(FreeHead, r, j) \in Places
                              /\ PlaceOf(FreeHead, r, j) # s
                              /\ PlaceOf(FreeHead, r, j) # PlaceOf(Head1, q, k)
      /\ s \in Places /\ k \in 0..l
  <2>1. k \in 0..l
    BY <1>1
  <2> QED
    BY <2>1, PlacesApart DEF Places
<1>5. Linked(np2, FreeHead, r)
  <2>1. Linked(np1, FreeHead, r)
    BY <1>1, <1>4, LinkedKept
  <2> QED
    BY <2>1, <1>4, LinkedKept
<1>6. \A i \in 0..l : i # k => np2[PlaceOf(Head1, q, i)] = PointsTo(q, i)
  BY <1>1, <1>4 DEF Linked, SetPointer
<1>7. np2[PlaceOf(Head1, q, k)] = s /\ np2[s] = PointsTo(q, k)
  BY <1>4 DEF SetPointer
<1>8. Linked(np2, Head1, c)
  <2> SUFFICES ASSUME NEW i \in 0..(l + 1)
               PROVE  np2[PlaceOf(Head1, c, i)] = PointsTo(c, i)
    BY <1>2 DEF Linked
  <2>1. CASE i <= k
    <3>1. i \in 0..l /\ i < l + 1
      BY <1>1, <2>1
    <3>2. PlaceOf(Head1, c, i) = PlaceOf(Head1, q, i)
      <4>1. i = 0 \/ i \in 1..k
        BY <2>1
      <4> QED
        BY <1>2, <4>1 DEF PlaceOf
    <3>3. CASE i = k
      <4>1. PointsTo(c, i) = s
        BY <1>2, <3>1, <3>3 DEF PointsTo
      <4> QED
        BY <1>7, <3>2, <3>3, <4>1
    <3>4. CASE i # k
      <4>1. i + 1 \in 1..k /\ i < l
        BY <1>1, <2>1, <3>4
      <4>2. PointsTo(c, i) = PointsTo(q, i)
        BY <1>2, <3>1, <4>1 DEF PointsTo
      <4> QED
        BY <1>6, <3>1, <3>2, <3>4, <4>2
    <3> QED
      BY <3>3, <3>4
  <2>2. CASE i = k + 1
    <3>1. PlaceOf(Head1, c, i) = s
      BY <1>2, <2>2 DEF PlaceOf
    <3>2. PointsTo(c, i) = PointsTo(q, k)
      <4>1. CASE k < l
        <5>1. k + 1 \in (k + 1)..l /\ i < l + 1
          BY <1>1, <2>2, <4>1
        <5>2. c[(k + 1) + 1] = q[k + 1]
          BY <1>2, <5>1
        <5> QED
          BY <1>2, <2>2, <4>1, <5>1, <5>2 DEF PointsTo
      <4>2. CASE ~(k < l)
        <5>1. ~(i < l + 1)
          BY <1>1, <2>2, <4>2
        <5> QED
          BY <1>2, <4>2, <5>1 DEF PointsTo
      <4> QED
        BY <4>1, <4>2
    <3> QED
      BY <1>7, <3>1, <3>2
  <2>3. CASE i > k + 1
    <3> DEFINE j == i - 1
    <3>1. /\ j \in (k + 1)..l /\ j + 1 = i /\ j \in 0..l /\ j # 0 /\ i # 0 /\ j # k
          /\ i \in 1..(l + 1)
      BY <1>1, <2>3
    <3> HIDE DEF j
    <3>2. PlaceOf(Head1, c, i) = PlaceOf(Head1, q, j)
      BY <1>2, <3>1 DEF PlaceOf
    <3>3. PointsTo(c, i) = PointsTo(q, j)
      <4>1. CASE j < l
        <5>1. j + 1 \in (k + 1)..l /\ i < l + 1
          BY <1>1, <3>1, <4>1
        <5>2. c[(j + 1) + 1] = q[j + 1]
          BY <1>2, <5>1
        <5> QED
          BY <1>2, <3>1, <4>1, <5>1, <5>2 DEF PointsTo
      <4>2. CASE ~(j < l)
        <5>1. ~(i < l + 1)
          BY <1>1, <3>1, <4>2
        <5> QED
          BY <1>2, <4>2, <5>1 DEF PointsTo
      <4> QED
        BY <4>1, <4>2
    <3> QED
      BY <1>6, <3>1, <3>2, <3>3
  <2> QED
    BY <1>1, <2>1, <2>2, <2>3
<1>9. \A i \in 1..l : q[i] # s
  BY <1>1 DEF In
<1>10. Distinct(c)
  <2> SUFFICES ASSUME NEW i \in 1..(l + 1), NEW j \in 1..(l + 1), c[i] = c[j] PROVE i = j
    BY <1>2 DEF Distinct
  <2>1. /\ \A a, b \in 1..l : q[a] = q[b] => a = b
        /\ k \in Nat /\ i \in Nat /\ j \in Nat
    BY <1>1 DEF Distinct
  <2>2. CASE i = k + 1
    BY <1>3, <1>9, <2>1, <2>2
  <2>3. CASE j = k + 1
    BY <1>3, <1>9, <2>1, <2>3
  <2>4. CASE i # k + 1 /\ j # k + 1
    <3>1. PICK a \in 1..l : c[i] = q[a] /\ a = IF i <= k THEN i ELSE i - 1
      BY <1>3, <2>4
    <3>2. PICK b \in 1..l : c[j] = q[b] /\ b = IF j <= k THEN j ELSE j - 1
      BY <1>3, <2>4
    <3>3. a = b
      BY <2>1, <3>1, <3>2
    <3> QED
      BY <2>1, <2>4, <3>1, <3>2, <3>3
  <2> QED
    BY <2>2, <2>3, <2>4
<1>11. \A i \in 1..Len(c), j \in 1..Len(r) : c[i] # r[j]
  <2> SUFFICES ASSUME NEW i \in 1..(l + 1), NEW j \in 1..Len(r) PROVE c[i] # r[j]
    BY <1>2
  <2>1. r[j] # s
    BY <1>1 DEF In
  <2>2. c[i] = s \/ \E a \in 1..l : c[i] = q[a]
    BY <1>3
  <2> QED
    BY <1>1, <2>1, <2>2
<1>12. ~In(c, Null) /\ ~In(r, Null)
  BY <1>1, <1>2, PlaceFacts, ElementOfSeq DEF In
<1>13. \A t \in Slots : In(c, t) \/ In(r, t) \/ t = Null
  <2> SUFFICES ASSUME NEW t \in Slots, ~In(r, t) PROVE In(c, t)
    OBVIOUS
  <2>1. CASE t = s
    <3>1. k + 1 \in 1..Len(c)
      BY <1>1, <1>2
    <3> QED
      BY <1>2, <2>1, <3>1 DEF In
  <2>2. CASE t # s
    <3>1. PICK a \in 1..l : q[a] = t
      BY <1>1, <2>2 DEF In
    <3>2. CASE a <= k
      <4>1. a \in 1..k /\ a \in 1..Len(c)
        BY <1>1, <1>2, <3>2
      <4> QED
        BY <1>2, <3>1, <4>1 DEF In
    <3>3. CASE ~(a <= k)
      <4>1. a \in (k + 1)..l /\ a + 1 \in 1..Len(c)
        BY <1>1, <1>2, <3>3
      <4>2. c[a + 1] = t
        BY <1>2, <3>1, <4>1
      <4> QED
        BY <4>1, <4>2 DEF In
    <3> QED
      BY <3>2, <3>3
  <2> QED
    BY <2>1, <2>2
<1>14. Lists(np2, c, r, Null)
  BY <1>1, <1>2, <1>5, <1>8, <1>10, <1>11, <1>12, <1>13 DEF Lists
<1> QED
  BY <1>14 DEF c

\* The first object of the free list is taken into the hand.
LEMMA TakeFree ==
  ASSUME ListAssumption, NEW np, NEW np2, NEW q, NEW r, Lists(np, q, r, Null),
         r # << >>, SetPointer(np, np2, FreeHead, np[r[1]])
  PROVE  Lists(np2, q, Tail(r), r[1]) /\ r[1] \in Slots
<1> DEFINE c == Tail(r)
           s == r[1]
           l == Len(r)
<1>1. /\ r \in Seq(Slots) /\ q \in Seq(Slots) /\ Linked(np, Head1, q)
      /\ Linked(np, FreeHead, r) /\ Distinct(q) /\ Distinct(r)
      /\ \A i \in 1..Len(q), j \in 1..Len(r) : q[i] # r[j]
      /\ \A t \in Slots : In(q, t) \/ In(r, t) \/ t = Null
      /\ Len(q) \in Nat
      /\ np2 \in [Places -> Slots \union {Null}]
  BY LenProperties DEF Lists, SetPointer
<1>2. l \in Nat /\ l > 0 /\ \A i \in 1..l : r[i] \in Slots
  BY <1>1, EmptySeq, ElementOfSeq
<1>3. /\ c \in Seq(Slots) /\ Len(c) = l - 1
      /\ \A i \in 1..(l - 1) : c[i] = r[i + 1]
  BY <1>1, HeadTailProperties
<1> HIDE DEF c
<1>4. 1 \in 1..l /\ 0 \in 0..l /\ 1 \in 0..l
  BY <1>2
<1>5. Linked(np2, Head1, q)
  <2>1. PlaceOf(FreeHead, r, 0) = FreeHead
    BY DEF PlaceOf
  <2> QED
    BY <1>1, <1>4, <2>1, PlacesApart, LinkedKept
<1>6. Linked(np2, FreeHead, c)
  <2> SUFFICES ASSUME NEW i \in 0..(l - 1)
               PROVE  np2[PlaceOf(FreeHead, c, i)] = PointsTo(c, i)
    BY <1>3 DEF Linked
  <2>1. PointsTo(c, i) = PointsTo(r, i + 1)
    <3>1. CASE i < l - 1
      <4>1. i + 1 \in 1..(l - 1) /\ i + 1 < l
        BY <1>2, <3>1
      <4> QED
        BY <1>3, <3>1, <4>1 DEF PointsTo
    <3>2. CASE ~(i < l - 1)
      <4>1. ~(i + 1 < l)
        BY <1>2, <3>2
      <4> QED
        BY <1>3, <3>2, <4>1 DEF PointsTo
    <3> QED
      BY <3>1, <3>2
  <2>2. CASE i = 0
    <3>1. PlaceOf(FreeHead, c, i) = FreeHead
      BY <2>2 DEF PlaceOf
    <3>2. np[s] = PointsTo(r, 1)
      BY <1>1, <1>4 DEF Linked, PlaceOf
    <3> QED
      BY <2>1, <2>2, <3>1, <3>2 DEF SetPointer
  <2>3. CASE i # 0
    <3> DEFINE j == i + 1
    <3>1. j \in 0..l /\ j # 0 /\ i \in 1..(l - 1)
      BY <1>2, <2>3
    <3>2. PlaceOf(FreeHead, c, i) = PlaceOf(FreeHead, r, j)
      BY <1>3, <2>3, <3>1 DEF PlaceOf
    <3>3. PointsTo(c, i) = PointsTo(r, j)
      BY <2>1
    <3> HIDE DEF j
    <3>4. PlaceOf(FreeHead, r, j) \in Places /\ PlaceOf(FreeHead, r, j) # FreeHead
      <4>1. PlaceOf(FreeHead, r, 0) = FreeHead
        BY DEF PlaceOf
      <4> QED
        BY <1>4, <3>1, <4>1, PlacesApart
    <3> QED
      BY <1>1, <3>1, <3>2, <3>3, <3>4 DEF Linked, SetPointer
  <2> QED
    BY <2>2, <2>3
<1>7. \A i \in 1..(l - 1) : i + 1 \in 1..l /\ i + 1 # 1
  BY <1>2
<1>8. Distinct(c)
  <2> SUFFICES ASSUME NEW i \in 1..(l - 1), NEW j \in 1..(l - 1), c[i] = c[j] PROVE i = j
    BY <1>3 DEF Distinct
  <2>1. i + 1 = j + 1
    BY <1>1, <1>3, <1>7 DEF Distinct
  <2> QED
    BY <2>1
<1>9. \A i \in 1..Len(q), j \in 1..Len(c) : q[i] # c[j]
  BY <1>1, <1>3, <1>7
<1>10. ~In(q, s)
  BY <1>1, <1>4 DEF In
<1>11. ~In(c, s)
  BY <1>1, <1>3, <1>4, <1>7 DEF In, Distinct
<1>12. \A t \in Slots : In(q, t) \/ In(c, t) \/ t = s
  <2> SUFFICES ASSUME NEW t \in Slots, ~In(q, t), t # s PROVE In(c, t)
    OBVIOUS
  <2>1. PICK a \in 1..l : r[a] = t
    BY <1>1, PlaceFacts DEF In
  <2> DEFINE i == a - 1
  <2>2. a # 1
    BY <2>1
  <2>3. i \in 1..(l - 1) /\ i + 1 = a
    BY <1>2, <2>2
  <2> HIDE DEF i
  <2> QED
    BY <1>3, <2>1, <2>3 DEF In
<1>13. s \in Slots
  BY <1>2, <1>4
<1> HIDE DEF s
<1>14. Lists(np2, q, c, s)
  BY <1>1, <1>3, <1>5, <1>6, <1>8, <1>9, <1>10, <1>11, <1>12 DEF Lists
<1> QED
  BY <1>13, <1>14 DEF c, s

\* After erase() the queue is empty, and all objects are on the free list.
LEMMA ChainedLists ==
  ASSUME ListAssumption
  PROVE  Lists(Chained, << >>, [i \in 1..MaxMatches |-> i - 1], Null)
<1> DEFINE c == [i \in 1..MaxMatches |-> i - 1]
           e == << >>
<1>1. MaxMatches \in Nat /\ MaxMatches > 0
  BY QueueAssumption
<1>2. /\ \A s \in Slots : s \in Int /\ 0 <= s /\ s <= MaxMatches - 1
      /\ \A i \in 1..MaxMatches : i - 1 \in Slots
      /\ 0 \in Slots /\ MaxMatches - 1 \in Slots
  BY <1>1 DEF Slots
<1>3. c \in Seq(Slots) /\ Len(c) = MaxMatches /\ \A i \in 1..MaxMatches : c[i] = i - 1
  BY <1>1, <1>2, IsASeq
<1>4. e \in Seq(Slots) /\ Len(e) = 0
  BY EmptySeq
<1>5. Chained \in [Places -> Slots \union {Null}]
  <2> SUFFICES ASSUME NEW p \in Places
               PROVE  (IF p = Head1 \/ p = MaxMatches - 1 THEN Null
                       ELSE IF p = FreeHead THEN 0 ELSE p + 1) \in Slots \union {Null}
    BY DEF Chained
  <2>1. CASE p \in Slots /\ p # MaxMatches - 1
    <3>1. p + 1 \in Slots
      BY <1>1, <2>1 DEF Slots
    <3> QED
      BY <2>1, <3>1, PlaceFacts
  <2>2. CASE p = MaxMatches - 1 \/ p = Head1 \/ p = FreeHead
    BY <1>2, <2>2
  <2> QED
    BY <2>1, <2>2 DEF Places
<1>6. /\ Chained[Head1] = Null /\ Chained[MaxMatches - 1] = Null
      /\ Chained[FreeHead] = 0
      /\ \A p \in Slots : p # MaxMatches - 1 => Chained[p] = p + 1
  <2>1. Head1 # FreeHead /\ Head1 \notin Slots /\ FreeHead \notin Slots
    BY PlaceFacts
  <2>2. FreeHead # MaxMatches - 1
    BY <1>2, <2>1
  <2> QED
    BY <1>2, <2>1, <2>2 DEF Chained, Places
<1>7. Linked(Chained, Head1, e)
  BY <1>4, <1>6 DEF Linked, PlaceOf, PointsTo
<1> HIDE DEF c
<1>8. Linked(Chained, FreeHead, c)
  <2> SUFFICES ASSUME NEW i \in 0..MaxMatches
               PROVE  Chained[PlaceOf(FreeHead, c, i)] = PointsTo(c, i)
    BY <1>3 DEF Linked
  <2>1. CASE i = 0
    <3>1. 1 \in 1..MaxMatches /\ 1 - 1 = 0 /\ 0 + 1 = 1 /\ 0 < MaxMatches
      BY <1>1
    <3>2. PointsTo(c, i) = 0
      BY <1>3, <2>1, <3>1 DEF PointsTo
    <3> QED
      BY <1>6, <2>1, <3>2 DEF PlaceOf
  <2>2. CASE i # 0 /\ i < MaxMatches
    <3>1. i \in 1..MaxMatches /\ i + 1 \in 1..MaxMatches /\ (i + 1) - 1 = i
      BY <1>1, <2>2
    <3>2. PointsTo(c, i) = i
      BY <1>3, <2>2, <3>1 DEF PointsTo
    <3>3. PlaceOf(FreeHead, c, i) = i - 1
      BY <1>3, <2>2, <3>1 DEF PlaceOf
    <3>4. i - 1 \in Slots /\ i - 1 # MaxMatches - 1 /\ (i - 1) + 1 = i
      BY <1>1, <1>2, <2>2, <3>1
    <3> QED
      BY <1>6, <3>2, <3>3, <3>4
  <2>3. CASE i = MaxMatches
    <3>1. i \in 1..MaxMatches /\ i # 0
      BY <1>1, <2>3
    <3>2. PlaceOf(FreeHead, c, i) = MaxMatches - 1
      BY <1>3, <2>3, <3>1 DEF PlaceOf
    <3>3. PointsTo(c, i) = Null
      BY <1>1, <1>3, <2>3 DEF PointsTo
    <3> QED
      BY <1>6, <3>2, <3>3
  <2> QED
    BY <1>1, <2>1, <2>2, <2>3
<1>9. Distinct(c) /\ Distinct(e)
  BY <1>1, <1>3, <1>4 DEF Distinct
<1>10. ~In(e, Null) /\ \A i \in 1..Len(e), j \in 1..Len(c) : e[i] # c[j]
  BY <1>4 DEF In
<1>11. ~In(c, Null)
  BY <1>2, <1>3, PlaceFacts DEF In
<1>12. \A t \in Slots : In(c, t)
  <2> TAKE t \in Slots
  <2>1. t + 1 \in 1..MaxMatches /\ (t + 1) - 1 = t
    BY <1>1, <1>2
  <2> QED
    BY <1>3, <2>1 DEF In
<1> HIDE DEF e
<1>13. Lists(Chained, e, c, Null)
  BY <1>3, <1>4, <1>5, <1>7, <1>8, <1>9, <1>10, <1>11, <1>12 DEF Lists
<1> QED
  BY <1>13 DEF c, e

-----------------------------------------------------------------------------
(* The entries of the queue, as the operators of PartialMatchQueue see them  *)

Entries == [startOff : Offsets \union {0}, nextEv : Events \union {0}]

EntryOf(so, ne, s) == [startOff |-> so[s], nextEv |-> ne[s]]
ListOf(so, ne, q) == [i \in 1..Len(q) |-> EntryOf(so, ne, q[i])]

OffsetsOK(so) == so \in [Slots -> Offsets \union {0}]
EventsOK(ne) == ne \in [Slots -> Events \union {0}]

\* The entries of a list of objects.
LEMMA ListOfFacts ==
  ASSUME NEW so, NEW ne, OffsetsOK(so), EventsOK(ne), NEW q \in Seq(Slots)
  PROVE  /\ ListOf(so, ne, q) \in Seq(Entries) /\ Len(ListOf(so, ne, q)) = Len(q)
         /\ \A i \in 1..Len(q) : ListOf(so, ne, q)[i] = EntryOf(so, ne, q[i])
<1>1. Len(q) \in Nat /\ \A i \in 1..Len(q) : q[i] \in Slots
  BY LenProperties, ElementOfSeq
<1>2. \A i \in 1..Len(q) : EntryOf(so, ne, q[i]) \in Entries
  BY <1>1 DEF EntryOf, Entries, OffsetsOK, EventsOK
<1>3. ListOf(so, ne, q) \in Seq(Entries)
  BY <1>1, <1>2, IsASeq DEF ListOf
<1>4. Len(ListOf(so, ne, q)) = Len(q)
  BY <1>1 DEF ListOf
<1> QED
  BY <1>3, <1>4 DEF ListOf

\* Two sequences of entries are equal if their entries are.
LEMMA EntriesEqual ==
  ASSUME NEW a \in Seq(Entries), NEW b \in Seq(Entries), Len(a) = Len(b),
         \A i \in 1..Len(b) : a[i] = b[i]
  PROVE  a = b
BY SeqEqual

\* Without the k-th object the queue is without the k-th entry.
LEMMA ListOfRemoved ==
  ASSUME NEW so, NEW ne, OffsetsOK(so), EventsOK(ne), NEW q \in Seq(Slots),
         NEW k \in 1..Len(q)
  PROVE  ListOf(so, ne, RemoveAt(q, k)) = RemoveAt(ListOf(so, ne, q), k)
<1> DEFINE c == RemoveAt(q, k)
           e == ListOf(so, ne, q)
           a == ListOf(so, ne, c)
           b == RemoveAt(e, k)
<1>1. Len(q) \in Nat
  BY LenProperties
<1>2. /\ c \in Seq(Slots) /\ Len(c) = Len(q) - 1
      /\ \A i \in 1..(Len(q) - 1) : c[i] = IF i < k THEN q[i] ELSE q[i + 1]
  BY RemoveAtFacts, Zenon
<1> HIDE DEF c
<1>3. /\ e \in Seq(Entries) /\ Len(e) = Len(q)
      /\ \A i \in 1..Len(q) : e[i] = EntryOf(so, ne, q[i])
  BY ListOfFacts
<1>4. /\ a \in Seq(Entries) /\ Len(a) = Len(c)
      /\ \A i \in 1..Len(c) : a[i] = EntryOf(so, ne, c[i])
  BY <1>2, ListOfFacts
<1> HIDE DEF e, a
<1>5. k \in 1..Len(e) /\ e \in Seq(Entries)
  BY <1>3
<1>6. /\ b \in Seq(Entries) /\ Len(b) = Len(e) - 1
      /\ \A i \in 1..(Len(e) - 1) : b[i] = IF i < k THEN e[i] ELSE e[i + 1]
  BY <1>5, RemoveAtFacts, Zenon
<1> HIDE DEF b
<1>7. ASSUME NEW i \in 1..Len(b) PROVE a[i] = b[i]
  <2>1. i \in 1..(Len(q) - 1) /\ i \in 1..Len(q) /\ i + 1 \in 1..Len(q)
    BY <1>1, <1>3, <1>6
  <2> QED
    BY <1>2, <1>3, <1>4, <1>6, <2>1
<1>8. a = b
  BY <1>2, <1>3, <1>4, <1>6, <1>7, EntriesEqual
<1> QED
  BY <1>8 DEF a, b, c, e

\* With an object linked in, the queue has its entry at this place.
LEMMA ListOfInserted ==
  ASSUME NEW so, NEW ne, OffsetsOK(so), EventsOK(ne), NEW q \in Seq(Slots),
         NEW k \in 1..(Len(q) + 1), NEW s \in Slots
  PROVE  ListOf(so, ne, InsertAt(q, k, s))
           = InsertAt(ListOf(so, ne, q), k, EntryOf(so, ne, s))
<1> DEFINE c == InsertAt(q, k, s)
           e == ListOf(so, ne, q)
           m == EntryOf(so, ne, s)
           a == ListOf(so, ne, c)
           b == InsertAt(e, k, m)
<1>1. Len(q) \in Nat /\ k \in Nat /\ k >= 1
  BY LenProperties
<1>2. /\ c \in Seq(Slots) /\ Len(c) = Len(q) + 1
      /\ \A i \in 1..(k - 1) : c[i] = q[i]
      /\ c[k] = s
      /\ \A i \in (k + 1)..(Len(q) + 1) : c[i] = q[i - 1]
  BY InsertAtFacts
<1> HIDE DEF c
<1>3. /\ e \in Seq(Entries) /\ Len(e) = Len(q)
      /\ \A i \in 1..Len(q) : e[i] = EntryOf(so, ne, q[i])
  BY ListOfFacts
<1>4. /\ a \in Seq(Entries) /\ Len(a) = Len(c)
      /\ \A i \in 1..Len(c) : a[i] = EntryOf(so, ne, c[i])
  BY <1>2, ListOfFacts
<1>5. m \in Entries
  BY DEF EntryOf, Entries, OffsetsOK, EventsOK
<1> HIDE DEF e, a, m
<1>6. k \in 1..(Len(e) + 1) /\ e \in Seq(Entries)
  BY <1>3
<1>7. /\ b \in Seq(Entries) /\ Len(b) = Len(e) + 1
      /\ \A i \in 1..(k - 1) : b[i] = e[i]
      /\ b[k] = m
      /\ \A i \in (k + 1)..(Len(e) + 1) : b[i] = e[i - 1]
  BY <1>5, <1>6, InsertAtFacts
<1> HIDE DEF b
<1>8. ASSUME NEW i \in 1..Len(b) PROVE a[i] = b[i]
  <2>0. i \in 1..Len(c) /\ i \in 1..(Len(q) + 1)
    BY <1>2, <1>3, <1>7
  <2>1. CASE i < k
    <3>1. i \in 1..(k - 1) /\ i \in 1..Len(q)
      BY <1>1, <2>0, <2>1
    <3> QED
      BY <1>2, <1>3, <1>4, <1>7, <2>0, <3>1
  <2>2. CASE i = k
    BY <1>2, <1>4, <1>7, <2>0, <2>2 DEF m
  <2>3. CASE i > k
    <3>1. i \in (k + 1)..(Len(q) + 1) /\ i - 1 \in 1..Len(q)
      BY <1>1, <2>0, <2>3
    <3> QED
      BY <1>2, <1>3, <1>4, <1>7, <2>0, <3>1
  <2> QED
    BY <1>1, <2>0, <2>1, <2>2, <2>3
<1>9. a = b
  BY <1>2, <1>3, <1>4, <1>7, <1>8, EntriesEqual
<1> QED
  BY <1>9 DEF a, b, c, e, m

\* There is one place for an event only.
LEMMA InsertPositionIs ==
  ASSUME ListAssumption, NEW e \in Seq(Entries), NEW ev \in Events, NEW k \in 1..(Len(e) + 1),
         \A i \in 1..(k - 1) : e[i].nextEv < ev,
         k <= Len(e) => ~(e[k].nextEv < ev)
  PROVE  InsertPosition(e, ev) = k
<1> DEFINE p == InsertPosition(e, ev)
<1>0. \A m \in Entries : m.nextEv \in Nat
  BY PlaceFacts DEF Entries
<1>1. Len(e) \in Nat /\ ev \in Nat /\ \A i \in 1..Len(e) : e[i].nextEv \in Nat
  <2>1. Len(e) \in Nat /\ \A i \in 1..Len(e) : e[i] \in Entries
    BY ElementOfSeq, LenProperties
  <2> QED
    BY <1>0, <2>1, PlaceFacts
<1>2. /\ p \in 1..(Len(e) + 1) /\ \A j \in 1..(p - 1) : e[j].nextEv < ev
      /\ p <= Len(e) => e[p].nextEv >= ev
  <2>1. \A m \in Entries : m.nextEv \in Nat
    BY PlaceFacts DEF Entries
  <2> QED
    BY <1>1, <2>1, InsertPositionFacts
<1> HIDE DEF p
<1>3. ~(p < k)
  <2> SUFFICES ASSUME p < k PROVE FALSE
    OBVIOUS
  <2>1. p \in 1..(k - 1) /\ p \in 1..Len(e)
    BY <1>1, <1>2
  <2> QED
    BY <1>1, <1>2, <2>1
<1>4. ~(k < p)
  <2> SUFFICES ASSUME k < p PROVE FALSE
    OBVIOUS
  <2>1. k \in 1..(p - 1) /\ k \in 1..Len(e)
    BY <1>1, <1>2
  <2> QED
    BY <1>1, <1>2, <2>1
<1> QED
  BY <1>1, <1>2, <1>3, <1>4 DEF p

-----------------------------------------------------------------------------
(* eraseStartOffsetLess(), entry by entry                                    *)

\* Those of the first l entries that stay, and their number; and the queue
\* of these.
KeptTo(b, o, l) == {i \in 1..l : b[i].startOff >= o}
KeptUpTo(b, o, l, i) == Cardinality({j \in KeptTo(b, o, l) : j <= i})
Picked(b, kept) ==
  [k \in 1..Cardinality(kept) |->
     b[CHOOSE i \in kept : Cardinality({j \in kept : j <= i}) = k]]
Erased(b, o, l) == Picked(b, KeptTo(b, o, l))

\* In the end this is what the queue is to be.
LEMMA ErasedAll ==
  ASSUME NEW b \in Seq(Entries), NEW o \in Nat
  PROVE  Erased(b, o, Len(b)) = EraseStartOffsetLess(b, o)
<1>1. DOMAIN b = 1..Len(b)
  BY LenProperties
<1>2. KeptTo(b, o, Len(b)) = {i \in DOMAIN b : b[i].startOff >= o}
  BY <1>1 DEF KeptTo
<1> QED
  <2> DEFINE kept == {i \in DOMAIN b : b[i].startOff >= o}
  <2>1. EraseStartOffsetLess(b, o) = Picked(b, kept)
    BY Zenon DEF EraseStartOffsetLess, Picked
  <2> QED
    BY <1>2, <2>1, Zenon DEF Erased

\* There are only so many of them.
LEMMA KeptFinite ==
  ASSUME NEW b, NEW o, NEW l \in Nat
  PROVE  /\ IsFiniteSet(KeptTo(b, o, l)) /\ Cardinality(KeptTo(b, o, l)) \in Nat
         /\ \A i : /\ IsFiniteSet({j \in KeptTo(b, o, l) : j <= i})
                   /\ KeptUpTo(b, o, l, i) \in Nat
                   /\ KeptUpTo(b, o, l, i) <= Cardinality(KeptTo(b, o, l))
<1>1. IsFiniteSet(1..l)
  BY FS_Interval
<1>2. KeptTo(b, o, l) \subseteq 1..l
  BY DEF KeptTo
<1>3. IsFiniteSet(KeptTo(b, o, l)) /\ Cardinality(KeptTo(b, o, l)) \in Nat
  BY <1>1, <1>2, FS_Subset, FS_CardinalityType
<1>4. ASSUME NEW i
      PROVE  /\ IsFiniteSet({j \in KeptTo(b, o, l) : j <= i})
             /\ KeptUpTo(b, o, l, i) \in Nat
             /\ KeptUpTo(b, o, l, i) <= Cardinality(KeptTo(b, o, l))
  <2>1. {j \in KeptTo(b, o, l) : j <= i} \subseteq KeptTo(b, o, l)
    OBVIOUS
  <2> QED
    BY <1>3, <2>1, FS_Subset, FS_CardinalityType DEF KeptUpTo
<1> QED
  BY <1>3, <1>4

\* One more entry that goes.
LEMMA ErasedDrops ==
  ASSUME NEW b, NEW o, NEW l \in Nat, ~(b[l + 1].startOff >= o)
  PROVE  Erased(b, o, l + 1) = Erased(b, o, l)
<1>1. KeptTo(b, o, l + 1) = KeptTo(b, o, l)
  BY DEF KeptTo
<1> QED
  BY <1>1, Zenon DEF Erased

\* One more entry that stays.
LEMMA ErasedKeeps ==
  ASSUME NEW b, NEW o, NEW l \in Nat, b[l + 1].startOff >= o
  PROVE  LET e == Erased(b, o, l)
             f == Erased(b, o, l + 1)
             c == Cardinality(KeptTo(b, o, l))
         IN /\ Len(e) = c /\ Len(f) = c + 1 /\ c \in Nat
            /\ \A k \in 1..c : f[k] = e[k]
            /\ f[c + 1] = b[l + 1]
<1> DEFINE K == KeptTo(b, o, l)
           M == KeptTo(b, o, l + 1)
           c == Cardinality(K)
           m == l + 1
<1>0. m \in Nat /\ m > l
  OBVIOUS
<1>1. M = K \cup {m} /\ m \notin K /\ K \subseteq 1..l
  BY DEF KeptTo
<1>2. /\ IsFiniteSet(K) /\ c \in Nat
      /\ \A i : KeptUpTo(b, o, l, i) \in Nat /\ KeptUpTo(b, o, l, i) <= c
  BY KeptFinite
<1>3. Cardinality(M) = c + 1
  BY <1>1, <1>2, FS_AddElement
<1>4. ASSUME NEW i \in K PROVE KeptUpTo(b, o, l + 1, i) = KeptUpTo(b, o, l, i)
  <2>1. {j \in M : j <= i} = {j \in K : j <= i}
    BY <1>1
  <2> QED
    BY <2>1 DEF KeptUpTo
<1>5. KeptUpTo(b, o, l + 1, m) = c + 1
  <2>1. {j \in M : j <= m} = M
    BY <1>1
  <2> QED
    BY <1>3, <2>1 DEF KeptUpTo
<1>6. ASSUME NEW k \in 1..c
      PROVE  (CHOOSE i \in M : KeptUpTo(b, o, l + 1, i) = k)
               = (CHOOSE i \in K : KeptUpTo(b, o, l, i) = k)
  <2>1. c + 1 # k
    BY <1>2
  <2>2. \A i : (i \in M /\ KeptUpTo(b, o, l + 1, i) = k) <=> (i \in K /\ KeptUpTo(b, o, l, i) = k)
    BY <1>1, <1>4, <1>5, <2>1, Zenon
  <2> QED
    BY <2>2, Zenon
<1>7. (CHOOSE i \in M : KeptUpTo(b, o, l + 1, i) = c + 1) = m
  <2>1. \A i \in K : KeptUpTo(b, o, l + 1, i) # c + 1
    BY <1>2, <1>4
  <2>2. m \in M /\ \A i \in M : KeptUpTo(b, o, l + 1, i) = c + 1 => i = m
    BY <1>1, <2>1, Zenon
  <2> HIDE DEF M, c, m
  <2> QED
    BY <1>5, <2>2
<1>8. /\ Erased(b, o, l) = [k \in 1..c |-> b[CHOOSE i \in K : KeptUpTo(b, o, l, i) = k]]
      /\ Erased(b, o, l + 1)
           = [k \in 1..(c + 1) |-> b[CHOOSE i \in M : KeptUpTo(b, o, l + 1, i) = k]]
  BY <1>3, Zenon DEF Erased, Picked, KeptUpTo
<1> HIDE DEF K, M, c
<1>9. \A k \in 1..c : k \in 1..(c + 1)
  BY <1>2
<1>10. c + 1 \in 1..(c + 1)
  BY <1>2
<1>11. Len(Erased(b, o, l)) = c /\ Len(Erased(b, o, l + 1)) = c + 1
  BY <1>2, <1>8
<1>12. \A k \in 1..c : Erased(b, o, l + 1)[k] = Erased(b, o, l)[k]
  <2> TAKE k \in 1..c
  <2>1. Erased(b, o, l)[k] = b[CHOOSE i \in K : KeptUpTo(b, o, l, i) = k]
    BY <1>8, Zenon
  <2>2. Erased(b, o, l + 1)[k] = b[CHOOSE i \in M : KeptUpTo(b, o, l + 1, i) = k]
    BY <1>8, <1>9, Zenon
  <2> QED
    BY <1>6, <2>1, <2>2, Zenon
<1> HIDE DEF m
<1>13. Erased(b, o, l + 1)[c + 1] = b[m]
  <2>1. Erased(b, o, l + 1)[c + 1]
          = b[CHOOSE i \in M : KeptUpTo(b, o, l + 1, i) = c + 1]
    BY <1>8, <1>10
  <2> QED
    BY <1>7, <2>1
<1> QED
  BY <1>2, <1>11, <1>12, <1>13 DEF c, K, m

\* The loop has done the first l entries of b, and k of them are still there; e
\* is the queue now.
Scanned(e, b, o, k, l) ==
  /\ e \in Seq(Entries) /\ b \in Seq(Entries) /\ l \in 0..Len(b)
  /\ k \in 0..Len(e) /\ k = Len(Erased(b, o, l)) /\ Len(e) = k + (Len(b) - l)
  /\ \A i \in 1..k : e[i] = Erased(b, o, l)[i]
  /\ \A i \in 1..(Len(b) - l) : e[k + i] = b[l + i]

\* Where the loop begins.
LEMMA ScanStarts ==
  ASSUME NEW b \in Seq(Entries), NEW o \in Nat
  PROVE  Scanned(b, b, o, 0, 0)
<1>1. KeptTo(b, o, 0) = {}
  BY DEF KeptTo
<1>2. Cardinality(KeptTo(b, o, 0)) = 0
  BY <1>1, FS_EmptySet
<1>3. Len(Erased(b, o, 0)) = 0
  BY <1>2 DEF Erased, Picked
<1>4. Len(b) \in Nat
  BY LenProperties
<1> QED
  BY <1>3, <1>4 DEF Scanned

\* The entry stays: the loop goes on.
LEMMA ScanKeeps ==
  ASSUME NEW e, NEW b, NEW o \in Nat, NEW k, NEW l, Scanned(e, b, o, k, l),
         k < Len(e), e[k + 1].startOff >= o
  PROVE  Scanned(e, b, o, k + 1, l + 1)
<1>1. Len(e) \in Nat /\ Len(b) \in Nat /\ l \in Nat /\ k \in Nat
  BY LenProperties DEF Scanned
<1>2. l < Len(b) /\ l + 1 \in 0..Len(b) /\ k + 1 \in 0..Len(e)
      /\ Len(e) = (k + 1) + (Len(b) - (l + 1))
  BY <1>1 DEF Scanned
<1>3. e[k + 1] = b[l + 1]
  <2>1. 1 \in 1..(Len(b) - l)
    BY <1>1, <1>2
  <2> QED
    BY <2>1 DEF Scanned
<1>4. /\ Len(Erased(b, o, l)) = k /\ Len(Erased(b, o, l + 1)) = k + 1
      /\ \A i \in 1..k : Erased(b, o, l + 1)[i] = Erased(b, o, l)[i]
      /\ Erased(b, o, l + 1)[k + 1] = b[l + 1]
  <2>1. b[l + 1].startOff >= o /\ Len(Erased(b, o, l)) = k
    BY <1>3 DEF Scanned
  <2> DEFINE c == Cardinality(KeptTo(b, o, l))
  <2>2. /\ Len(Erased(b, o, l)) = c /\ Len(Erased(b, o, l + 1)) = c + 1
        /\ \A i \in 1..c : Erased(b, o, l + 1)[i] = Erased(b, o, l)[i]
        /\ Erased(b, o, l + 1)[c + 1] = b[l + 1]
    BY <1>1, <2>1, ErasedKeeps
  <2>3. c = k
    BY <2>1, <2>2
  <2> HIDE DEF c
  <2> QED
    BY <2>2, <2>3
<1>5. \A i \in 1..(k + 1) : e[i] = Erased(b, o, l + 1)[i]
  <2> TAKE i \in 1..(k + 1)
  <2>1. CASE i = k + 1
    BY <1>3, <1>4, <2>1
  <2>2. CASE i # k + 1
    <3>1. i \in 1..k
      BY <1>1, <2>2
    <3> QED
      BY <1>4, <3>1 DEF Scanned
  <2> QED
    BY <2>1, <2>2
<1>6. \A i \in 1..(Len(b) - (l + 1)) : e[(k + 1) + i] = b[(l + 1) + i]
  <2> TAKE i \in 1..(Len(b) - (l + 1))
  <2> DEFINE a == i + 1
  <2>1. a \in 1..(Len(b) - l) /\ (k + 1) + i = k + a /\ (l + 1) + i = l + a
    BY <1>1
  <2> HIDE DEF a
  <2> QED
    BY <2>1 DEF Scanned
<1>7. e \in Seq(Entries) /\ b \in Seq(Entries)
  BY DEF Scanned
<1> QED
  BY <1>2, <1>4, <1>5, <1>6, <1>7 DEF Scanned

\* The entry goes.
LEMMA ScanDrops ==
  ASSUME NEW e, NEW b, NEW o \in Nat, NEW k, NEW l, Scanned(e, b, o, k, l),
         k < Len(e), ~(e[k + 1].startOff >= o)
  PROVE  Scanned(RemoveAt(e, k + 1), b, o, k, l + 1)
<1> DEFINE f == RemoveAt(e, k + 1)
<1>1. Len(e) \in Nat /\ Len(b) \in Nat /\ l \in Nat /\ k \in Nat
      /\ e \in Seq(Entries) /\ b \in Seq(Entries)
  BY LenProperties DEF Scanned
<1>2. l < Len(b) /\ l + 1 \in 0..Len(b) /\ k + 1 \in 1..Len(e)
      /\ Len(e) - 1 = k + (Len(b) - (l + 1)) /\ k \in 0..(Len(e) - 1)
  BY <1>1 DEF Scanned
<1>3. e[k + 1] = b[l + 1]
  <2>1. 1 \in 1..(Len(b) - l)
    BY <1>1, <1>2
  <2> QED
    BY <2>1 DEF Scanned
<1>4. Erased(b, o, l + 1) = Erased(b, o, l)
  BY <1>1, <1>3, ErasedDrops
<1>5. /\ f \in Seq(Entries) /\ Len(f) = Len(e) - 1
      /\ \A i \in 1..(Len(e) - 1) : f[i] = IF i < k + 1 THEN e[i] ELSE e[i + 1]
  <2> DEFINE m == k + 1
  <2> HIDE DEF m
  <2>1. m \in 1..Len(e)
    BY <1>2 DEF m
  <2>2. /\ RemoveAt(e, m) \in Seq(Entries) /\ Len(RemoveAt(e, m)) = Len(e) - 1
        /\ \A i \in 1..(Len(e) - 1) : RemoveAt(e, m)[i] = IF i < m THEN e[i] ELSE e[i + 1]
    BY <1>1, <2>1, RemoveAtFacts
  <2> QED
    BY <2>2 DEF m
<1> HIDE DEF f
<1>6. \A i \in 1..k : f[i] = Erased(b, o, l + 1)[i]
  <2> TAKE i \in 1..k
  <2>1. i \in 1..(Len(e) - 1) /\ i < k + 1
    BY <1>1, <1>2
  <2> QED
    BY <1>4, <1>5, <2>1 DEF Scanned
<1>7. \A i \in 1..(Len(b) - (l + 1)) : f[k + i] = b[(l + 1) + i]
  <2> TAKE i \in 1..(Len(b) - (l + 1))
  <2> DEFINE a == i + 1
             d == k + i
  <2>1. /\ a \in 1..(Len(b) - l) /\ d + 1 = k + a /\ (l + 1) + i = l + a
        /\ d \in 1..(Len(e) - 1) /\ ~(d < k + 1)
    BY <1>1, <1>2
  <2> HIDE DEF a, d
  <2>2. f[d] = e[d + 1]
    BY <1>5, <2>1
  <2>3. e[k + a] = b[l + a]
    BY <2>1 DEF Scanned
  <2> QED
    BY <2>1, <2>2, <2>3 DEF d
<1>8. k = Len(Erased(b, o, l + 1))
  BY <1>4 DEF Scanned
<1>9. Scanned(f, b, o, k, l + 1)
  BY <1>1, <1>2, <1>5, <1>6, <1>7, <1>8 DEF Scanned
<1> QED
  BY <1>9 DEF f

\* At the end of the list the queue is as it is to be.
LEMMA ScanEnds ==
  ASSUME NEW e, NEW b, NEW o \in Nat, NEW k, NEW l, Scanned(e, b, o, k, l),
         ~(k < Len(e))
  PROVE  e = EraseStartOffsetLess(b, o)
<1>1. Len(e) \in Nat /\ Len(b) \in Nat /\ l \in Nat /\ k \in Nat
      /\ e \in Seq(Entries) /\ b \in Seq(Entries)
  BY LenProperties DEF Scanned
<1>2. l = Len(b) /\ k = Len(e) /\ k = Len(Erased(b, o, l))
  BY <1>1 DEF Scanned
<1>3. Erased(b, o, l) = EraseStartOffsetLess(b, o)
  BY <1>1, <1>2, ErasedAll
<1>4. DOMAIN e = 1..k /\ e = [i \in 1..k |-> e[i]]
  BY <1>1, <1>2, LenProperties
<1>5. Cardinality(KeptTo(b, o, l)) \in Nat
  BY <1>1, KeptFinite
<1>6. DOMAIN Erased(b, o, l) = 1..k
  BY <1>2, <1>5 DEF Erased, Picked
<1>7. \A i \in 1..k : e[i] = Erased(b, o, l)[i]
  BY DEF Scanned
<1>8. Erased(b, o, l) = [i \in 1..k |-> Erased(b, o, l)[i]]
  BY <1>6 DEF Erased, Picked
<1>9. e = Erased(b, o, l)
  BY <1>4, <1>7, <1>8
<1> QED
  BY <1>3, <1>9

-----------------------------------------------------------------------------
(* What the methods do to the lists                                          *)

\* The lists and the object in the hand have all objects.
LEMMA ListsCount ==
  ASSUME ListAssumption, NEW np, NEW q, NEW r, NEW s, Lists(np, q, r, s)
  PROVE  /\ s = Null => /\ Len(q) + Len(r) = MaxMatches
                        /\ Range(q) \union Range(r) = Slots
         /\ s \in Slots => /\ Len(q) + Len(r) + 1 = MaxMatches
                           /\ Range(q) \union Range(r) \union {s} = Slots
<1>1. /\ q \in Seq(Slots) /\ r \in Seq(Slots) /\ Distinct(q) /\ Distinct(r)
      /\ \A i \in 1..Len(q), j \in 1..Len(r) : q[i] # r[j]
      /\ ~In(q, s) /\ ~In(r, s)
      /\ \A t \in Slots : In(q, t) \/ In(r, t) \/ t = s
  BY DEF Lists
<1>2. /\ IsFiniteSet(Range(q)) /\ Cardinality(Range(q)) = Len(q) /\ Len(q) \in Nat
      /\ Range(q) \subseteq Slots
  BY <1>1, DistinctCount
<1>3. /\ IsFiniteSet(Range(r)) /\ Cardinality(Range(r)) = Len(r) /\ Len(r) \in Nat
      /\ Range(r) \subseteq Slots
  BY <1>1, DistinctCount
<1>4. \A t : (t \in Range(q) <=> In(q, t)) /\ (t \in Range(r) <=> In(r, t))
  BY <1>1, LenProperties DEF Range, In
<1>5. Range(q) \cap Range(r) = {}
  BY <1>1, <1>4 DEF In
<1> DEFINE A == Range(q) \cup Range(r)
<1>6. IsFiniteSet(A) /\ Cardinality(A) = Len(q) + Len(r)
  <2>1. Cardinality(A) = Cardinality(Range(q)) + Cardinality(Range(r)) - Cardinality(Range(q) \cap Range(r))
    BY <1>2, <1>3, FS_Union
  <2>2. Cardinality(Range(q) \cap Range(r)) = 0
    BY <1>5, FS_EmptySet
  <2>3. IsFiniteSet(A)
    BY <1>2, <1>3, FS_Union
  <2> HIDE DEF A
  <2> QED
    BY <1>2, <1>3, <2>1, <2>2, <2>3
<1>7. A \subseteq Slots /\ s \notin A /\ \A t \in Slots : t \in A \/ t = s
  BY <1>1, <1>2, <1>3, <1>4
<1> HIDE DEF A
<1>8. CASE s = Null
  <2>1. A = Slots
    BY <1>7, <1>8, PlaceFacts
  <2> QED
    BY <1>6, <1>8, <2>1, SlotCount, PlaceFacts DEF A
<1>9. CASE s \in Slots
  <2>1. A \cup {s} = Slots
    BY <1>7, <1>9
  <2>2. Cardinality(A \cup {s}) = Cardinality(A) + 1
    BY <1>6, <1>7, FS_AddElement
  <2> QED
    BY <1>6, <1>9, <2>1, <2>2, SlotCount, PlaceFacts DEF A
<1> QED
  BY <1>8, <1>9

\* An object of the queue goes to the free list.
LEMMA FreedLists ==
  ASSUME ListAssumption, NEW np, NEW q, NEW r, Lists(np, q, r, Null),
         NEW k \in Nat, k < Len(q), NEW p, p = PlaceOf(Head1, q, k), NEW s, s = q[k + 1]
  PROVE  Lists([np EXCEPT ![p] = np[s], ![s] = np[FreeHead], ![FreeHead] = s],
               RemoveAt(q, k + 1), <<s>> \o r, Null)
<1> DEFINE np1 == [np EXCEPT ![p] = np[s]]
           np2 == [np1 EXCEPT ![s] = np1[FreeHead]]
           np3 == [np2 EXCEPT ![FreeHead] = s]
           c == RemoveAt(q, k + 1)
<1>1. /\ np \in [Places -> Slots \union {Null}]
      /\ s \in Slots /\ s \in Places /\ k \in 0..Len(q) /\ FreeHead \in Places
  <2>1. Len(q) \in Nat /\ k + 1 \in 1..Len(q)
    BY LenProperties DEF Lists
  <2> QED
    BY <2>1, ElementOfSeq DEF Lists, Places
<1>2. p \in Places /\ p # FreeHead
  <2>1. Len(r) \in Nat /\ 0 \in 0..Len(r) /\ PlaceOf(FreeHead, r, 0) = FreeHead
    BY PlacesApart DEF PlaceOf
  <2> QED
    BY <1>1, <2>1, PlacesApart
<1>3. SetPointer(np, np1, p, np[s])
  BY <1>1, <1>2, SetPointerIs
<1>4. Lists(np1, c, r, s)
  BY <1>3, TakeOut
<1>5. np1 \in [Places -> Slots \union {Null}] /\ np1[FreeHead] = np[FreeHead]
  BY <1>1, <1>2
<1> HIDE DEF np1, c
<1>6. SetPointer(np1, np2, s, np1[FreeHead])
  BY <1>1, <1>5, SetPointerIs
<1>7. np2 \in [Places -> Slots \union {Null}]
  BY <1>1, <1>5
<1> HIDE DEF np2
<1>8. SetPointer(np2, np3, FreeHead, s)
  BY <1>1, <1>7, SetPointerIs
<1> HIDE DEF np3
<1>9. Lists(np3, c, <<s>> \o r, Null)
  BY <1>1, <1>4, <1>6, <1>8, PutFree
<1> QED
  BY <1>5, <1>9, Zenon DEF np1, np2, np3, c

\* An object is linked in.
LEMMA InsertedLists ==
  ASSUME ListAssumption, NEW np, NEW q, NEW r, NEW s \in Slots, Lists(np, q, r, s),
         NEW k \in 0..Len(q), NEW p, p = PlaceOf(Head1, q, k),
         NEW y, y = PointsTo(q, k)
  PROVE  Lists([np EXCEPT ![s] = y, ![p] = s], InsertAt(q, k + 1, s), r, Null)
<1> DEFINE np1 == [np EXCEPT ![s] = y]
           np2 == [np1 EXCEPT ![p] = s]
<1>1. np \in [Places -> Slots \union {Null}] /\ s \in Places
  BY DEF Lists, Places
<1>2. p \in Places /\ y \in Slots \union {Null}
  BY PlacesApart
<1>3. SetPointer(np, np1, s, y)
  BY <1>1, <1>2, SetPointerIs
<1>4. np1 \in [Places -> Slots \union {Null}]
  BY <1>1, <1>2
<1> HIDE DEF np1
<1>5. SetPointer(np1, np2, p, s)
  BY <1>2, <1>4, SetPointerIs
<1> HIDE DEF np2
<1>6. Len(q) \in Nat /\ k \in Nat /\ k <= Len(q)
  BY PlacesApart
<1>7. SetPointer(np, np1, s, PointsTo(q, k)) /\ SetPointer(np1, np2, PlaceOf(Head1, q, k), s)
  BY <1>3, <1>5
<1>8. Lists(np2, InsertAt(q, k + 1, s), r, Null)
  BY <1>6, <1>7, LinkIn
<1> QED
  BY <1>8, Zenon DEF np1, np2

\* The first free object becomes the first of the queue.
LEMMA AddedLists ==
  ASSUME ListAssumption, NEW np, NEW q, NEW r, Lists(np, q, r, Null),
         np[FreeHead] # Null, NEW s, s = np[FreeHead]
  PROVE  /\ s \in Slots /\ \A i \in 1..Len(q) : q[i] # s
         /\ Len(q) # MaxMatches
         /\ Lists([np EXCEPT ![FreeHead] = np[s], ![s] = np[Head1], ![Head1] = s],
                  InsertAt(q, 1, s), Tail(r), Null)
<1> DEFINE np1 == [np EXCEPT ![FreeHead] = np[s]]
           np2 == [np1 EXCEPT ![s] = np1[Head1], ![Head1] = s]
<1>1. /\ np \in [Places -> Slots \union {Null}]
      /\ Len(q) \in Nat /\ Len(r) \in Nat /\ r \in Seq(Slots)
  BY LenProperties DEF Lists
<1>2. np[FreeHead] = PointsTo(r, 0) /\ np[Head1] = PointsTo(q, 0)
  <2>1. 0 \in 0..Len(r) /\ 0 \in 0..Len(q)
    BY <1>1
  <2> QED
    BY <2>1 DEF Lists, Linked, PlaceOf
<1>3. r # << >> /\ r[1] = s
  <2>1. 0 < Len(r)
    BY <1>2 DEF PointsTo
  <2> QED
    BY <1>2, <2>1 DEF PointsTo
<1>4. /\ FreeHead \in Places /\ Head1 \in Places /\ Head1 # FreeHead
  BY PlaceFacts DEF Places
<1>5. s \in Slots /\ s \in Places
  <2>1. 1 \in 1..Len(r)
    BY <1>1, <1>3
  <2> QED
    BY <1>1, <1>3, <2>1, ElementOfSeq DEF Places
<1>6. SetPointer(np, np1, FreeHead, np[r[1]])
  BY <1>1, <1>3, <1>4, <1>5, SetPointerIs
<1>7. Lists(np1, q, Tail(r), s)
  BY <1>3, <1>6, TakeFree
<1>8. np1[Head1] = PointsTo(q, 0)
  BY <1>1, <1>2, <1>4
<1> HIDE DEF np1
<1>9. 0 \in 0..Len(q) /\ Head1 = PlaceOf(Head1, q, 0) /\ 0 + 1 = 1
  BY <1>1 DEF PlaceOf
<1>10. Lists(np2, InsertAt(q, 0 + 1, s), Tail(r), Null)
  BY <1>5, <1>7, <1>8, <1>9, InsertedLists
<1>11. \A i \in 1..Len(q) : q[i] # s
  BY <1>7 DEF Lists, In
<1>12. Len(q) # MaxMatches
  <2>1. Len(q) + Len(r) = MaxMatches
    BY ListsCount
  <2>2. Len(r) # 0
    BY <1>3, <1>1, EmptySeq
  <2> QED
    BY <1>1, <2>1, <2>2
<1>13. np1[Head1] = np[Head1]
  BY <1>2, <1>8
<1>14. Lists(np2, InsertAt(q, 1, s), Tail(r), Null)
  BY <1>9, <1>10
<1> QED
  BY <1>5, <1>11, <1>12, <1>13, <1>14, Zenon DEF np1, np2

-----------------------------------------------------------------------------
(* What the methods do to the entries                                        *)

\* Without the first entry of a queue there is the rest.
LEMMA FirstRemoved ==
  ASSUME NEW S, NEW e \in Seq(S), e # << >>
  PROVE  RemoveAt(e, 1) = Tail(e)
<1>1. Len(e) \in Nat /\ 1 \in 1..Len(e)
  BY LenProperties, EmptySeq
<1> DEFINE c == RemoveAt(e, 1)
           t == Tail(e)
<1>2. /\ c \in Seq(S) /\ Len(c) = Len(e) - 1
      /\ \A i \in 1..(Len(e) - 1) : c[i] = IF i < 1 THEN e[i] ELSE e[i + 1]
  BY <1>1, RemoveAtFacts
<1>3. /\ t \in Seq(S) /\ Len(t) = Len(e) - 1
      /\ \A i \in 1..(Len(e) - 1) : t[i] = e[i + 1]
  BY <1>1, HeadTailProperties
<1> HIDE DEF c, t
<1>4. c = t
  BY <1>1, <1>2, <1>3, SeqEqual
<1> QED
  BY <1>4 DEF c, t

\* What is put in before the first entry is in front.
LEMMA FirstInserted ==
  ASSUME NEW S, NEW e \in Seq(S), NEW m \in S
  PROVE  InsertAt(e, 1, m) = <<m>> \o e
<1>1. Len(e) \in Nat /\ 1 \in 1..(Len(e) + 1)
  BY LenProperties
<1> DEFINE c == InsertAt(e, 1, m)
           t == <<m>> \o e
<1>2. /\ c \in Seq(S) /\ Len(c) = Len(e) + 1 /\ c[1] = m
      /\ \A i \in (1 + 1)..(Len(e) + 1) : c[i] = e[i - 1]
  BY <1>1, InsertAtFacts
<1>3. <<m>> \in Seq(S) /\ Len(<<m>>) = 1 /\ <<m>>[1] = m
  OBVIOUS
<1>4. /\ t \in Seq(S) /\ Len(t) = 1 + Len(e)
      /\ \A i \in 1..(1 + Len(e)) : t[i] = IF i <= 1 THEN <<m>>[i] ELSE e[i - 1]
  BY <1>3, ConcatProperties
<1> HIDE DEF c, t
<1>5. \A i \in 1..Len(c) : c[i] = t[i]
  <2> TAKE i \in 1..Len(c)
  <2>1. CASE i = 1
    BY <1>1, <1>2, <1>3, <1>4, <2>1
  <2>2. CASE i # 1
    BY <1>1, <1>2, <1>4, <2>2
  <2> QED
    BY <2>1, <2>2
<1>6. c = t
  BY <1>1, <1>2, <1>4, <1>5, SeqEqual
<1> QED
  BY <1>6 DEF c, t

\* An object that is not in the queue does not matter to it.
LEMMA ListOfSame ==
  ASSUME NEW so, NEW ne, NEW so2, NEW ne2, NEW q,
         \A i \in 1..Len(q) : EntryOf(so2, ne2, q[i]) = EntryOf(so, ne, q[i])
  PROVE  ListOf(so2, ne2, q) = ListOf(so, ne, q)
BY DEF ListOf

\* The objects are sorted by their events.
Ascending(ne, q) == \A i \in 1..Len(q), j \in 1..Len(q) : i < j => ne[q[i]] <= ne[q[j]]

\* The queue is sorted without an object, too.
LEMMA AscendingRemoved ==
  ASSUME NEW ne, EventsOK(ne), NEW q \in Seq(Slots), NEW k \in 1..Len(q), Ascending(ne, q)
  PROVE  Ascending(ne, RemoveAt(q, k))
<1> DEFINE c == RemoveAt(q, k)
<1>1. Len(q) \in Nat
  BY LenProperties
<1>2. /\ c \in Seq(Slots) /\ Len(c) = Len(q) - 1
      /\ \A i \in 1..(Len(q) - 1) : c[i] = IF i < k THEN q[i] ELSE q[i + 1]
  BY RemoveAtFacts, Zenon
<1> HIDE DEF c
<1>3. ASSUME NEW i \in 1..Len(c), NEW j \in 1..Len(c), i < j PROVE ne[c[i]] <= ne[c[j]]
  <2> DEFINE a == IF i < k THEN i ELSE i + 1
             b == IF j < k THEN j ELSE j + 1
  <2>1. a \in 1..Len(q) /\ b \in 1..Len(q) /\ a < b
    BY <1>1, <1>2, <1>3
  <2>2. c[i] = q[a] /\ c[j] = q[b]
    BY <1>2
  <2> HIDE DEF a, b
  <2> QED
    BY <2>1, <2>2 DEF Ascending
<1>4. Ascending(ne, c)
  BY <1>3 DEF Ascending
<1> QED
  BY <1>4 DEF c

\* An object is put in at the place for its event.
LEMMA AscendingInserted ==
  ASSUME ListAssumption, NEW ne, EventsOK(ne), NEW q \in Seq(Slots), Ascending(ne, q),
         NEW s \in Slots, \A i \in 1..Len(q) : q[i] # s,
         NEW ev \in Events \union {0}, NEW k \in 0..Len(q),
         \A i \in 1..k : ne[q[i]] <= ev,
         k < Len(q) => ne[q[k + 1]] >= ev
  PROVE  /\ EventsOK([ne EXCEPT ![s] = ev])
         /\ Ascending([ne EXCEPT ![s] = ev], InsertAt(q, k + 1, s))
<1> DEFINE p == k + 1
           c == InsertAt(q, p, s)
           ne2 == [ne EXCEPT ![s] = ev]
           l == Len(q)
<1>1. /\ l \in Nat /\ p \in 1..(l + 1) /\ k = p - 1 /\ k \in Nat /\ ev \in Nat
      /\ \A i \in 1..l : q[i] \in Slots
  BY LenProperties, ElementOfSeq, PlaceFacts
<1>2. \A t \in Slots : ne[t] \in Nat /\ ne2[t] = IF t = s THEN ev ELSE ne[t]
  BY PlaceFacts DEF EventsOK
<1>3. EventsOK(ne2)
  BY DEF EventsOK
<1> HIDE DEF p, ne2
<1>4. /\ c \in Seq(Slots) /\ Len(c) = l + 1
      /\ \A i \in 1..(p - 1) : c[i] = q[i]
      /\ c[p] = s
      /\ \A i \in (p + 1)..(l + 1) : c[i] = q[i - 1]
  BY <1>1, InsertAtFacts
<1> HIDE DEF c
<1>5. \A i \in 1..l : ne2[q[i]] = ne[q[i]] /\ ne[q[i]] \in Nat
  BY <1>1, <1>2
<1>6. ne2[s] = ev
  BY <1>2
<1>7. \A i \in p..l : ne[q[i]] >= ev
  <2> TAKE i \in p..l
  <2>1. k < l /\ p \in 1..l /\ i \in 1..l /\ ne[q[p]] >= ev
    BY <1>1 DEF p
  <2>2. CASE i = p
    BY <2>1, <2>2
  <2>3. CASE p < i
    <3>1. ne[q[p]] <= ne[q[i]]
      BY <2>1, <2>3 DEF Ascending
    <3> QED
      BY <1>1, <1>5, <2>1, <3>1
  <2> QED
    BY <1>1, <2>2, <2>3
<1>8. ASSUME NEW i \in 1..Len(c), NEW j \in 1..Len(c), i < j PROVE ne2[c[i]] <= ne2[c[j]]
  <2>0. i \in Nat /\ j \in Nat /\ 1 <= i /\ j <= l + 1
    BY <1>1, <1>4
  <2>1. CASE j < p
    <3>1. i \in 1..(p - 1) /\ j \in 1..(p - 1) /\ i \in 1..l /\ j \in 1..l
      BY <1>1, <1>8, <2>0, <2>1
    <3>2. ne[q[i]] <= ne[q[j]]
      BY <1>8, <3>1 DEF Ascending
    <3> QED
      BY <1>4, <1>5, <3>1, <3>2
  <2>2. CASE j = p
    <3>1. i \in 1..(p - 1) /\ i \in 1..k /\ i \in 1..l
      BY <1>1, <1>8, <2>0, <2>2
    <3>2. ne[q[i]] <= ev
      BY <3>1
    <3>3. c[i] = q[i] /\ c[j] = s
      BY <1>4, <2>2, <3>1
    <3> QED
      BY <1>5, <1>6, <3>1, <3>2, <3>3
  <2>3. CASE p < j
    <3> DEFINE b == j - 1
    <3>1. j \in (p + 1)..(l + 1) /\ b \in p..l /\ b \in 1..l
      BY <1>1, <2>0, <2>3
    <3>2. c[j] = q[b]
      BY <1>4, <3>1
    <3>3. CASE i < p
      <4>1. i \in 1..(p - 1) /\ i \in 1..l /\ i < b
        BY <1>1, <2>0, <3>1, <3>3
      <4> HIDE DEF b
      <4>2. ne[q[i]] <= ne[q[b]]
        BY <3>1, <4>1 DEF Ascending
      <4> QED
        BY <1>4, <1>5, <3>1, <3>2, <4>1, <4>2
    <3>4. CASE i = p
      <4> HIDE DEF b
      <4>1. ne[q[b]] >= ev
        BY <1>7, <3>1
      <4> QED
        BY <1>1, <1>4, <1>5, <1>6, <3>1, <3>2, <3>4, <4>1
    <3>5. CASE p < i
      <4> DEFINE a == i - 1
      <4>1. i \in (p + 1)..(l + 1) /\ a \in 1..l /\ a < b
        BY <1>1, <1>4, <1>8, <2>0, <3>5
      <4>2. c[i] = q[a]
        BY <1>4, <4>1
      <4> HIDE DEF a, b
      <4>3. ne[q[a]] <= ne[q[b]]
        BY <3>1, <4>1 DEF Ascending
      <4> QED
        BY <1>5, <3>1, <3>2, <4>1, <4>2, <4>3
    <3> QED
      BY <1>1, <2>0, <3>3, <3>4, <3>5
  <2> QED
    BY <1>1, <2>0, <2>1, <2>2, <2>3
<1>9. Ascending(ne2, c)
  BY <1>8 DEF Ascending
<1> QED
  BY <1>3, <1>9 DEF p, c, ne2

-----------------------------------------------------------------------------
(* The inductive invariant                                                   *)

\* The members form these lists, and the queue is sorted.
Holds(np, so, ne, hand, q, r) ==
  /\ Lists(np, q, r, hand)
  /\ OffsetsOK(so) /\ EventsOK(ne)
  /\ Ascending(ne, q)

\* The pointers of a loop, after k objects.
PointersAt(q, k, indir, y) ==
  k \in 0..Len(q) /\ indir = PlaceOf(Head1, q, k) /\ y = PointsTo(q, k)

\* eraseStartOffsetLess() with argument o, called with the queue b.
LessLoop(so, ne, q, b, o, indir, y) ==
  /\ o \in Offsets
  /\ \E k, l : PointersAt(q, k, indir, y) /\ Scanned(ListOf(so, ne, q), b, o, k, l)

\* setNextEvent() has not come to the object s yet.
UnlinkLoop(so, ne, q, b, s, ev, indir, y) ==
  /\ ev \in Events /\ b = ListOf(so, ne, q)
  /\ \E k, p : /\ PointersAt(q, k, indir, y)
               /\ p \in 1..Len(q) /\ k < p /\ s = q[p]

\* setNextEvent() has the object s in its hand, and has not come to its place.
InsertLoop(so, ne, q, b, s, ev, indir, y) ==
  /\ ev \in Events /\ s \in Slots /\ b \in Seq(Entries)
  /\ \E p \in 1..Len(b) : RemoveAt(b, p) = ListOf(so, ne, q) /\ b[p] = EntryOf(so, ne, s)
  /\ \E k : /\ PointersAt(q, k, indir, y)
            /\ \A i \in 1..k : ne[q[i]] < ev

Loop(c, so, ne, q, b, s, a, indir, y) ==
  /\ c \in {"idle", "less", "unlink", "insert", "lowest", "drop", "found"}
  /\ c = "less" => LessLoop(so, ne, q, b, a, indir, y)
  /\ c = "unlink" => UnlinkLoop(so, ne, q, b, s, a, indir, y)
  /\ c = "insert" => InsertLoop(so, ne, q, b, s, a, indir, y)

HandOf(c, s) == IF c = "insert" THEN s ELSE Null

ListInv ==
  \E q, r : /\ Holds(nextPart, startOff, nextEv, HandOf(pc, this), q, r)
            /\ Loop(pc, startOff, nextEv, q, before.queue, this, arg, xIndir, x)

\* What the lists stand for.
LEMMA ListedIs ==
  ASSUME ListAssumption, NEW q, NEW r, NEW s
  PROVE  /\ Holds(nextPart, startOff, nextEv, s, q, r)
              => /\ Chain(Head1) = q /\ Chain(FreeHead) = r
                 /\ Listed = ListOf(startOff, nextEv, q)
         /\ Holds(nextPart', startOff', nextEv', s, q, r)
              => /\ Chain(Head1)' = q /\ Chain(FreeHead)' = r
                 /\ Listed' = ListOf(startOff', nextEv', q)
<1>1. ASSUME NEW np, NEW so, NEW ne, Holds(np, so, ne, s, q, r)
      PROVE  /\ Followed(np, Head1) = q /\ Followed(np, FreeHead) = r
             /\ DOMAIN q = 1..Len(q)
  BY <1>1, ListsFound, LenProperties DEF Holds, Lists
<1>2. ASSUME Holds(nextPart, startOff, nextEv, s, q, r)
      PROVE  /\ Chain(Head1) = q /\ Chain(FreeHead) = r
             /\ Listed = ListOf(startOff, nextEv, q)
  <2>1. Chain(Head1) = q /\ Chain(FreeHead) = r /\ DOMAIN q = 1..Len(q)
    BY <1>1, <1>2, ChainFollows
  <2> QED
    BY <2>1 DEF Listed, Entry, ListOf, EntryOf
<1>3. ASSUME Holds(nextPart', startOff', nextEv', s, q, r)
      PROVE  /\ Chain(Head1)' = q /\ Chain(FreeHead)' = r
             /\ Listed' = ListOf(startOff', nextEv', q)
  <2>1. Chain(Head1)' = q /\ Chain(FreeHead)' = r /\ DOMAIN q = 1..Len(q)
    BY <1>1, <1>3, ChainFollows
  <2> QED
    BY <2>1 DEF Listed, Entry, ListOf, EntryOf
<1> QED
  BY <1>2, <1>3

\* A loop over the queue, where it begins and where it goes on.
LEMMA LoopBegins ==
  ASSUME ListAssumption, NEW np, NEW q, NEW r, NEW s, Lists(np, q, r, s)
  PROVE  PointersAt(q, 0, Head1, np[Head1])
<1>1. Len(q) \in Nat /\ 0 \in 0..Len(q)
  BY LenProperties DEF Lists
<1> QED
  BY <1>1 DEF Lists, Linked, PlaceOf, PointersAt

\* The next object, and the pointers after it.
LEMMA LoopGoesOn ==
  ASSUME ListAssumption, NEW np, NEW q, NEW r, NEW s, Lists(np, q, r, s),
         NEW k, NEW indir, NEW y, PointersAt(q, k, indir, y), y # Null
  PROVE  /\ k \in Nat /\ k < Len(q) /\ k + 1 \in 1..Len(q) /\ y = q[k + 1] /\ y \in Slots
         /\ PointersAt(q, k + 1, y, np[y])
<1>1. Len(q) \in Nat /\ k \in 0..Len(q)
  BY LenProperties DEF Lists, PointersAt
<1>2. k < Len(q) /\ y = q[k + 1]
  BY DEF PointersAt, PointsTo
<1>3. k + 1 \in 1..Len(q) /\ k + 1 \in 0..Len(q) /\ k + 1 # 0
  BY <1>1, <1>2
<1>4. y \in Slots
  BY <1>2, <1>3, ElementOfSeq DEF Lists
<1>5. PlaceOf(Head1, q, k + 1) = y
  BY <1>2, <1>3 DEF PlaceOf
<1>6. np[y] = PointsTo(q, k + 1)
  BY <1>3, <1>5 DEF Lists, Linked
<1> QED
  BY <1>1, <1>2, <1>3, <1>4, <1>5, <1>6 DEF PointersAt

\* The null pointer is at the end of the list.
LEMMA LoopEnds ==
  ASSUME ListAssumption, NEW np, NEW q, NEW r, NEW s, Lists(np, q, r, s),
         NEW k, NEW indir, PointersAt(q, k, indir, Null)
  PROVE  k \in Nat /\ k = Len(q)
<1>1. Len(q) \in Nat /\ k \in 0..Len(q)
  BY LenProperties DEF Lists, PointersAt
<1>2. ~(k < Len(q))
  <2> SUFFICES ASSUME k < Len(q) PROVE FALSE
    OBVIOUS
  <2>1. k + 1 \in 1..Len(q) /\ q[k + 1] = Null
    BY <1>1 DEF PointersAt, PointsTo
  <2> QED
    BY <2>1, ElementOfSeq, PlaceFacts DEF Lists
<1> QED
  BY <1>1, <1>2

\* The invariant holds again when these lists and this loop do.
LEMMA HoldsAgain ==
  ASSUME NEW q, NEW r,
         Holds(nextPart', startOff', nextEv', HandOf(pc', this'), q, r),
         Loop(pc', startOff', nextEv', q, before'.queue, this', arg', xIndir', x')
  PROVE  ListInv'
BY DEF ListInv

\* No loop over the queue is under way that changes it.
LEMMA NoLoop ==
  ASSUME NEW c, c \in {"idle", "lowest", "drop", "found"}, NEW so, NEW ne, NEW q, NEW b,
         NEW s, NEW a, NEW indir, NEW y
  PROVE  Loop(c, so, ne, q, b, s, a, indir, y) /\ HandOf(c, s) = Null
BY DEF Loop, HandOf

\* Where the invariant begins.
LEMMA ListInit ==
  ASSUME ListAssumption, Init
  PROVE  ListInv
<1> DEFINE r == [i \in 1..MaxMatches |-> i - 1]
<1>1. Lists(nextPart, << >>, r, Null)
  BY ChainedLists DEF Init
<1>2. OffsetsOK(startOff) /\ EventsOK(nextEv)
  BY DEF Init, OffsetsOK, EventsOK
<1>3. Ascending(nextEv, << >>)
  BY DEF Ascending
<1> HIDE DEF r
<1>4. pc = "idle"
  BY DEF Init
<1> QED
  BY <1>1, <1>2, <1>3, <1>4, NoLoop DEF ListInv, Holds

-----------------------------------------------------------------------------
(* Each step keeps the invariant, and is a step of the queue                 *)

\* What is known of the lists before a step.
LEMMA HoldsNow ==
  ASSUME ListAssumption, NEW s, NEW q, NEW r,
         Holds(nextPart, startOff, nextEv, s, q, r)
  PROVE  /\ Lists(nextPart, q, r, s) /\ Ascending(nextEv, q)
         /\ OffsetsOK(startOff) /\ EventsOK(nextEv)
         /\ q \in Seq(Slots) /\ Len(q) \in Nat
         /\ Listed = ListOf(startOff, nextEv, q)
         /\ Listed \in Seq(Entries) /\ Len(Listed) = Len(q)
         /\ \A i \in 1..Len(q) : Listed[i] = EntryOf(startOff, nextEv, q[i])
         /\ DOMAIN Listed = 1..Len(q)
         /\ Chain(Head1) = q
<1>1. /\ Lists(nextPart, q, r, s) /\ Ascending(nextEv, q)
      /\ OffsetsOK(startOff) /\ EventsOK(nextEv) /\ q \in Seq(Slots)
      /\ Len(q) \in Nat
  BY LenProperties DEF Holds, Lists
<1>2. Listed = ListOf(startOff, nextEv, q) /\ Chain(Head1) = q
  BY ListedIs
<1>3. /\ Listed \in Seq(Entries) /\ Len(Listed) = Len(q)
      /\ \A i \in 1..Len(q) : Listed[i] = EntryOf(startOff, nextEv, q[i])
  BY <1>1, <1>2, ListOfFacts
<1> QED
  BY <1>1, <1>2, <1>3, LenProperties

\* A step that looks at the lists only.
LEMMA LooksOn ==
  ASSUME ListAssumption, ListInv, UNCHANGED lists,
         pc \in {"idle", "lowest", "drop", "found"},
         pc' \in {"idle", "lowest", "drop", "found"}
  PROVE  ListInv' /\ ListStep
<1>1. PICK q, r : Holds(nextPart, startOff, nextEv, HandOf(pc, this), q, r)
  BY DEF ListInv
<1>2. Holds(nextPart', startOff', nextEv', HandOf(pc', this'), q, r)
  BY <1>1 DEF lists, HandOf
<1>3. ListInv'
  BY <1>2, NoLoop, HoldsAgain
<1>4. Listed' = Listed
  BY <1>1, <1>2, ListedIs DEF lists
<1>5. Queue' = Queue
  BY <1>4 DEF Queue
<1> QED
  BY <1>3, <1>5 DEF ListStep

\* Nothing happens.
LEMMA Stutters ==
  ASSUME ListAssumption, ListInv, UNCHANGED vars
  PROVE  ListInv' /\ ListStep
<1>1. PICK q, r : /\ Holds(nextPart, startOff, nextEv, HandOf(pc, this), q, r)
                  /\ Loop(pc, startOff, nextEv, q, before.queue, this, arg, xIndir, x)
  BY DEF ListInv
<1>2. Holds(nextPart', startOff', nextEv', HandOf(pc', this'), q, r)
  BY <1>1 DEF vars, lists, locals
<1>3. Loop(pc', startOff', nextEv', q, before'.queue, this', arg', xIndir', x')
  BY <1>1 DEF vars, lists, locals
<1>4. ListInv'
  BY <1>2, <1>3, HoldsAgain
<1>5. Listed' = Listed
  BY <1>1, <1>2, ListedIs DEF vars, lists
<1>6. Queue' = Queue
  BY <1>5 DEF Queue, vars, locals
<1> QED
  BY <1>4, <1>6 DEF ListStep

\* erase(): all objects are free, the queue is empty.
LEMMA KeptByErase ==
  ASSUME ListAssumption, ListInv, Erase
  PROVE  ListInv' /\ ListStep
<1> DEFINE r == [i \in 1..MaxMatches |-> i - 1]
<1>1. /\ pc = "idle" /\ pc' = "idle" /\ nextPart' = Chained /\ startOff' = startOff
      /\ nextEv' = nextEv
  BY DEF Erase, Idle, locals
<1>2. OffsetsOK(startOff) /\ EventsOK(nextEv)
  BY DEF ListInv, Holds
<1>3. Lists(nextPart', << >>, r, Null)
  BY <1>1, ChainedLists
<1> HIDE DEF r
<1>4. Ascending(nextEv', << >>)
  BY DEF Ascending
<1>5. Holds(nextPart', startOff', nextEv', HandOf(pc', this'), << >>, r)
  BY <1>1, <1>2, <1>3, <1>4 DEF Holds, HandOf
<1>6. ListInv'
  BY <1>1, <1>5, NoLoop, HoldsAgain
<1>7. Listed' = << >>
  <2>1. Listed' = ListOf(startOff', nextEv', << >>)
    BY <1>5, ListedIs
  <2> QED
    BY <2>1 DEF ListOf
<1>8. Queue' = << >>
  BY <1>1, <1>7 DEF Queue
<1> QED
  BY <1>6, <1>8 DEF ListStep, QueueStep

\* addFront(): a new match is first in the queue, which was not full.
LEMMA KeptByAddFront ==
  ASSUME ListAssumption, ListInv, AddFront
  PROVE  ListInv' /\ ListStep
<1>1. pc = "idle" /\ pc' = "idle" /\ nextPart[FreeHead] # Null
  BY DEF AddFront, Idle, locals
<1>2. PICK q, r : Holds(nextPart, startOff, nextEv, Null, q, r)
  BY <1>1 DEF ListInv, HandOf
<1> DEFINE s == nextPart[FreeHead]
           np == [nextPart EXCEPT ![FreeHead] = nextPart[s], ![s] = nextPart[Head1],
                                  ![Head1] = s]
           so == [startOff EXCEPT ![s] = 0]
           ne == [nextEv EXCEPT ![s] = 0]
           c == InsertAt(q, 1, s)
<1>3. nextPart' = np /\ startOff' = so /\ nextEv' = ne
  BY DEF AddFront
<1>4. /\ Lists(nextPart, q, r, Null) /\ Ascending(nextEv, q)
      /\ OffsetsOK(startOff) /\ EventsOK(nextEv) /\ q \in Seq(Slots) /\ Len(q) \in Nat
      /\ Listed = ListOf(startOff, nextEv, q) /\ Listed \in Seq(Entries)
      /\ Len(Listed) = Len(q)
  BY <1>2, HoldsNow
<1>5. /\ s \in Slots /\ \A i \in 1..Len(q) : q[i] # s
      /\ Len(q) # MaxMatches
      /\ Lists(np, c, Tail(r), Null)
  BY <1>1, <1>4, AddedLists
<1> HIDE DEF np
<1>6. OffsetsOK(so)
  BY <1>4, <1>5 DEF OffsetsOK
<1>7. EventsOK(ne) /\ Ascending(ne, c)
  <2> HIDE DEF s
  <2>1. 0 \in Events \union {0} /\ 0 \in 0..Len(q) /\ \A i \in 1..0 : nextEv[q[i]] <= 0
    BY <1>4
  <2>2. 0 < Len(q) => nextEv[q[0 + 1]] >= 0
    <3> SUFFICES ASSUME 0 < Len(q) PROVE nextEv[q[1]] >= 0
      OBVIOUS
    <3>1. q[1] \in Slots
      BY <1>4, ElementOfSeq
    <3> QED
      BY <1>4, <3>1, PlaceFacts DEF EventsOK
  <2>3. /\ EventsOK([nextEv EXCEPT ![s] = 0])
        /\ Ascending([nextEv EXCEPT ![s] = 0], InsertAt(q, 0 + 1, s))
    BY <1>4, <1>5, <2>1, <2>2, AscendingInserted
  <2>4. 0 + 1 = 1
    OBVIOUS
  <2> QED
    BY <2>3, <2>4
<1>8. \A i \in 1..Len(q) : EntryOf(so, ne, q[i]) = EntryOf(startOff, nextEv, q[i])
  <2>1. \A i \in 1..Len(q) : q[i] \in Slots /\ q[i] # s
    BY <1>4, <1>5, ElementOfSeq
  <2> QED
    BY <1>4, <2>1 DEF EntryOf, OffsetsOK, EventsOK
<1>9. EntryOf(so, ne, s) = NewMatch
  BY <1>4, <1>5 DEF EntryOf, NewMatch, OffsetsOK, EventsOK
<1>10. NewMatch \in Entries
  BY DEF NewMatch, Entries
<1> HIDE DEF so, ne, s
<1>11. ListOf(so, ne, q) = Listed
  BY <1>4, <1>8, ListOfSame
<1>12. ListOf(so, ne, c) = <<NewMatch>> \o Listed
  <2>1. 1 \in 1..(Len(q) + 1)
    BY <1>4
  <2>2. ListOf(so, ne, c) = InsertAt(ListOf(so, ne, q), 1, EntryOf(so, ne, s))
    BY <1>4, <1>5, <1>6, <1>7, <2>1, ListOfInserted
  <2>3. InsertAt(Listed, 1, NewMatch) = <<NewMatch>> \o Listed
    BY <1>4, <1>10, FirstInserted
  <2> QED
    BY <1>9, <1>11, <2>2, <2>3
<1> HIDE DEF c
<1>13. Holds(nextPart', startOff', nextEv', Null, c, Tail(r))
  BY <1>3, <1>5, <1>6, <1>7 DEF Holds
<1>14. ListInv'
  <2>1. HandOf(pc', this') = Null
    BY <1>1 DEF HandOf
  <2> QED
    BY <1>1, <1>13, <2>1, NoLoop, HoldsAgain
<1>15. Listed' = <<NewMatch>> \o Listed
  BY <1>3, <1>12, <1>13, ListedIs
<1>16. Queue = Listed /\ Queue' = Listed'
  BY <1>1 DEF Queue
<1>17. ~Full(Queue)
  BY <1>4, <1>5, <1>16 DEF Full
<1> QED
  BY <1>14, <1>15, <1>16, <1>17 DEF ListStep, QueueStep

\* setStartOffset(): one entry of the queue has a new offset.
LEMMA KeptBySetStartOffset ==
  ASSUME ListAssumption, ListInv, NEW s \in Slots, NEW o \in Offsets, SetStartOffset(s, o)
  PROVE  ListInv' /\ ListStep
<1>1. /\ pc = "idle" /\ pc' = "idle" /\ s \in Range(Chain(Head1))
      /\ nextPart' = nextPart /\ nextEv' = nextEv
      /\ startOff' = [startOff EXCEPT ![s] = o]
  BY DEF SetStartOffset, Idle, locals
<1>2. PICK q, r : Holds(nextPart, startOff, nextEv, Null, q, r)
  BY <1>1 DEF ListInv, HandOf
<1> DEFINE so == [startOff EXCEPT ![s] = o]
<1>3. /\ Lists(nextPart, q, r, Null) /\ Ascending(nextEv, q)
      /\ OffsetsOK(startOff) /\ EventsOK(nextEv) /\ q \in Seq(Slots) /\ Len(q) \in Nat
      /\ Listed = ListOf(startOff, nextEv, q) /\ Listed \in Seq(Entries)
      /\ Len(Listed) = Len(q) /\ DOMAIN Listed = 1..Len(q)
      /\ \A i \in 1..Len(q) : Listed[i] = EntryOf(startOff, nextEv, q[i])
      /\ Chain(Head1) = q
  BY <1>2, HoldsNow
<1>4. PICK k \in 1..Len(q) : q[k] = s
  <2>1. DOMAIN q = 1..Len(q)
    BY <1>3, LenProperties
  <2> QED
    BY <1>1, <1>3, <2>1 DEF Range
<1>5. OffsetsOK(so) /\ \A t \in Slots : so[t] = IF t = s THEN o ELSE startOff[t]
  BY <1>3 DEF OffsetsOK
<1> HIDE DEF so
<1>6. Holds(nextPart', startOff', nextEv', Null, q, r)
  BY <1>1, <1>3, <1>5 DEF Holds, so
<1>7. ListInv'
  <2>1. HandOf(pc', this') = Null
    BY <1>1 DEF HandOf
  <2> QED
    BY <1>1, <1>6, <2>1, NoLoop, HoldsAgain
<1>8. Listed' = ListOf(so, nextEv, q)
  BY <1>1, <1>6, ListedIs DEF so
<1> DEFINE e == [Listed EXCEPT ![k].startOff = o]
<1>9. \A i \in 1..Len(q) : Listed[i] \in Entries /\ q[i] \in Slots /\ (q[i] = s <=> i = k)
  BY <1>3, <1>4, ElementOfSeq DEF Lists, Distinct
<1>10. /\ DOMAIN e = 1..Len(q)
       /\ \A i \in 1..Len(q) : e[i] = IF i = k THEN [Listed[k] EXCEPT !.startOff = o]
                                              ELSE Listed[i]
  BY <1>3
<1>11. ASSUME NEW i \in 1..Len(q) PROVE EntryOf(so, nextEv, q[i]) = e[i]
  <2>1. Listed[i] = [startOff |-> startOff[q[i]], nextEv |-> nextEv[q[i]]]
    BY <1>3 DEF EntryOf
  <2>2. CASE i = k
    BY <1>4, <1>5, <1>9, <1>10, <2>1, <2>2 DEF EntryOf
  <2>3. CASE i # k
    BY <1>5, <1>9, <1>10, <2>1, <2>3 DEF EntryOf
  <2> QED
    BY <2>2, <2>3
<1>12. e = [i \in 1..Len(q) |-> e[i]]
  BY <1>3
<1> HIDE DEF e
<1>13. Listed' = e
  BY <1>8, <1>11, <1>12 DEF ListOf
<1>14. Queue = Listed /\ Queue' = Listed'
  BY <1>1 DEF Queue
<1>15. Queue' = [Queue EXCEPT ![k].startOff = o] /\ k \in DOMAIN Queue
  BY <1>3, <1>4, <1>13, <1>14 DEF e
<1>16. QueueStep
  BY <1>15 DEF QueueStep
<1> QED
  BY <1>7, <1>16 DEF ListStep

\* eraseFront(): the queue without its first entry.
LEMMA KeptByEraseFront ==
  ASSUME ListAssumption, ListInv, EraseFrontStep
  PROVE  ListInv' /\ ListStep
<1>1. /\ pc = "idle" /\ pc' = "idle" /\ nextPart[Head1] # Null
      /\ nextPart' = Freed(Head1, nextPart[Head1])
      /\ startOff' = startOff /\ nextEv' = nextEv
  BY DEF EraseFrontStep, Idle, locals
<1>2. PICK q, r : Holds(nextPart, startOff, nextEv, Null, q, r)
  BY <1>1 DEF ListInv, HandOf
<1>3. /\ Lists(nextPart, q, r, Null) /\ Ascending(nextEv, q)
      /\ OffsetsOK(startOff) /\ EventsOK(nextEv) /\ q \in Seq(Slots) /\ Len(q) \in Nat
      /\ Listed = ListOf(startOff, nextEv, q) /\ Listed \in Seq(Entries)
      /\ Len(Listed) = Len(q)
  BY <1>2, HoldsNow
<1> DEFINE s == nextPart[Head1]
<1>4. PointersAt(q, 0, Head1, s)
  BY <1>3, LoopBegins
<1>5. 0 < Len(q) /\ 0 + 1 \in 1..Len(q) /\ s = q[0 + 1] /\ s \in Slots
  BY <1>1, <1>3, <1>4, LoopGoesOn
<1>6. 0 \in Nat /\ Head1 = PlaceOf(Head1, q, 0)
  BY DEF PlaceOf
<1> HIDE DEF s
<1>7. Lists([nextPart EXCEPT ![Head1] = nextPart[s], ![s] = nextPart[FreeHead],
                             ![FreeHead] = s], RemoveAt(q, 0 + 1), <<s>> \o r, Null)
  BY <1>3, <1>5, <1>6, FreedLists
<1> DEFINE c == RemoveAt(q, 1)
<1>8. Lists(nextPart', c, <<s>> \o r, Null)
  <2>1. 0 + 1 = 1
    OBVIOUS
  <2> QED
    BY <1>1, <1>7, <2>1 DEF Freed, s
<1>9. Ascending(nextEv, c)
  <2>1. 1 \in 1..Len(q)
    BY <1>5
  <2> QED
    BY <1>3, <2>1, AscendingRemoved
<1> HIDE DEF c
<1>10. Holds(nextPart', startOff', nextEv', Null, c, <<s>> \o r)
  BY <1>1, <1>3, <1>8, <1>9 DEF Holds
<1>11. ListInv'
  <2>1. HandOf(pc', this') = Null
    BY <1>1 DEF HandOf
  <2> QED
    BY <1>1, <1>10, <2>1, NoLoop, HoldsAgain
<1>12. Listed' = Tail(Listed) /\ Listed # << >>
  <2>1. Listed' = ListOf(startOff, nextEv, c)
    BY <1>1, <1>10, ListedIs
  <2>2. 1 \in 1..Len(q)
    BY <1>5
  <2>3. ListOf(startOff, nextEv, c) = RemoveAt(Listed, 1)
    BY <1>3, <2>2, ListOfRemoved DEF c
  <2>4. Listed # << >>
    BY <1>3, <1>5
  <2>5. RemoveAt(Listed, 1) = Tail(Listed)
    BY <1>3, <2>4, FirstRemoved
  <2> QED
    BY <2>1, <2>3, <2>4, <2>5
<1>13. Queue = Listed /\ Queue' = Listed'
  BY <1>1 DEF Queue
<1>14. Queue # << >> /\ Queue' = EraseFront(Queue)
  BY <1>12, <1>13 DEF EraseFront
<1> QED
  BY <1>11, <1>14 DEF ListStep, QueueStep

\* eraseStartOffsetLess() begins.
LEMMA KeptByEraseLess ==
  ASSUME ListAssumption, ListInv, NEW o \in Offsets, EraseLess(o)
  PROVE  ListInv' /\ ListStep
<1>1. /\ pc = "idle" /\ pc' = "less" /\ arg' = o /\ xIndir' = Head1
      /\ x' = nextPart[Head1] /\ before'.queue = Listed
      /\ nextPart' = nextPart /\ startOff' = startOff /\ nextEv' = nextEv
  BY DEF EraseLess, Call, Idle, lists
<1>2. PICK q, r : Holds(nextPart, startOff, nextEv, Null, q, r)
  BY <1>1 DEF ListInv, HandOf
<1>3. /\ Lists(nextPart, q, r, Null)
      /\ Listed = ListOf(startOff, nextEv, q) /\ Listed \in Seq(Entries)
  BY <1>2, HoldsNow
<1>4. Holds(nextPart', startOff', nextEv', HandOf(pc', this'), q, r)
  BY <1>1, <1>2 DEF HandOf
<1>5. PointersAt(q, 0, xIndir', x')
  BY <1>1, <1>3, LoopBegins
<1>6. Scanned(ListOf(startOff', nextEv', q), before'.queue, arg', 0, 0)
  <2>1. o \in Nat
    BY PlaceFacts
  <2>2. Scanned(Listed, Listed, o, 0, 0)
    BY <1>3, <2>1, ScanStarts
  <2> QED
    BY <1>1, <1>3, <2>2
<1>7. LessLoop(startOff', nextEv', q, before'.queue, arg', xIndir', x')
  BY <1>1, <1>5, <1>6 DEF LessLoop
<1>8. Loop(pc', startOff', nextEv', q, before'.queue, this', arg', xIndir', x')
  BY <1>1, <1>7 DEF Loop
<1>9. ListInv'
  BY <1>4, <1>8, HoldsAgain
<1>10. Queue' = Queue
  BY <1>1 DEF Queue
<1> QED
  BY <1>9, <1>10 DEF ListStep

\* It looks at an object, which stays or goes.
LEMMA KeptByEraseLessStep ==
  ASSUME ListAssumption, ListInv, EraseLessStep
  PROVE  ListInv' /\ ListStep
<1>1. /\ pc = "less" /\ pc' = "less" /\ x # Null /\ arg' = arg
      /\ startOff' = startOff /\ nextEv' = nextEv /\ before' = before
  BY DEF EraseLessStep
<1>2. PICK q, r : /\ Holds(nextPart, startOff, nextEv, Null, q, r)
                  /\ LessLoop(startOff, nextEv, q, before.queue, arg, xIndir, x)
  BY <1>1 DEF ListInv, HandOf, Loop
<1> DEFINE e == ListOf(startOff, nextEv, q)
           b == before.queue
<1>3. /\ Lists(nextPart, q, r, Null) /\ Ascending(nextEv, q)
      /\ OffsetsOK(startOff) /\ EventsOK(nextEv) /\ q \in Seq(Slots) /\ Len(q) \in Nat
      /\ Listed = e /\ Listed \in Seq(Entries)
      /\ Len(Listed) = Len(q)
      /\ \A i \in 1..Len(q) : Listed[i] = EntryOf(startOff, nextEv, q[i])
  BY <1>2, HoldsNow
<1>4. PICK k, l : PointersAt(q, k, xIndir, x) /\ Scanned(e, b, arg, k, l)
  BY <1>2 DEF LessLoop
<1>5. /\ k \in Nat /\ k < Len(q) /\ k + 1 \in 1..Len(q) /\ x = q[k + 1] /\ x \in Slots
      /\ PointersAt(q, k + 1, x, nextPart[x])
  BY <1>1, <1>3, <1>4, LoopGoesOn
<1>6. arg \in Offsets /\ arg \in Nat
  BY <1>2, PlaceFacts DEF LessLoop
<1> HIDE DEF e, b
<1>7. e[k + 1].startOff = startOff[x]
  <2>1. EntryOf(startOff, nextEv, x).startOff = startOff[x]
    BY DEF EntryOf
  <2>2. e[k + 1] = EntryOf(startOff, nextEv, x)
    BY <1>3, <1>5
  <2> QED
    BY <2>1, <2>2
<1>8. Queue' = Queue
  BY <1>1 DEF Queue
<1>9. CASE startOff[x] >= arg
  <2>1. xIndir' = x /\ x' = nextPart[x] /\ nextPart' = nextPart
    BY <1>9 DEF EraseLessStep, Advance
  <2>2. Scanned(e, b, arg, k + 1, l + 1)
    <3>1. k < Len(e) /\ e[k + 1].startOff >= arg
      BY <1>3, <1>5, <1>7, <1>9
    <3> QED
      BY <1>4, <1>6, <3>1, ScanKeeps
  <2>3. LessLoop(startOff', nextEv', q, before'.queue, arg', xIndir', x')
    BY <1>1, <1>5, <1>6, <2>1, <2>2 DEF LessLoop, e, b
  <2>4. Loop(pc', startOff', nextEv', q, before'.queue, this', arg', xIndir', x')
    BY <1>1, <2>3 DEF Loop
  <2>5. Holds(nextPart', startOff', nextEv', HandOf(pc', this'), q, r)
    BY <1>1, <1>2, <2>1 DEF HandOf
  <2>6. ListInv'
    BY <2>4, <2>5, HoldsAgain
  <2> QED
    BY <1>8, <2>6 DEF ListStep
<1>10. CASE ~(startOff[x] >= arg)
  <2> DEFINE m == k + 1
             c == RemoveAt(q, m)
             r2 == <<x>> \o r
  <2>1. nextPart' = Freed(xIndir, x) /\ x' = nextPart'[xIndir] /\ xIndir' = xIndir
    BY <1>10 DEF EraseLessStep
  <2>2. Lists(nextPart', c, r2, Null)
    <3>1. xIndir = PlaceOf(Head1, q, k)
      BY <1>4 DEF PointersAt
    <3>2. Lists([nextPart EXCEPT ![xIndir] = nextPart[x], ![x] = nextPart[FreeHead],
                                 ![FreeHead] = x], RemoveAt(q, k + 1), <<x>> \o r, Null)
      BY <1>3, <1>5, <3>1, FreedLists
    <3> QED
      BY <2>1, <3>2 DEF Freed
  <2>3. m \in 1..Len(q)
    BY <1>5
  <2> HIDE DEF r2
  <2>4. Ascending(nextEv, c)
    <3> HIDE DEF m
    <3> QED
      BY <1>3, <2>3, AscendingRemoved
  <2>5. ListOf(startOff, nextEv, c) = RemoveAt(e, m)
    <3> HIDE DEF m
    <3> QED
      BY <1>3, <2>3, ListOfRemoved DEF e
  <2>6. Scanned(RemoveAt(e, m), b, arg, k, l + 1)
    <3>1. k < Len(e) /\ ~(e[k + 1].startOff >= arg)
      BY <1>3, <1>5, <1>7, <1>10
    <3> QED
      BY <1>4, <1>6, <3>1, ScanDrops
  <2>7. PointersAt(c, k, xIndir, nextPart'[xIndir])
    <3>1. /\ c \in Seq(Slots) /\ Len(c) = Len(q) - 1
          /\ \A i \in 1..(Len(q) - 1) : c[i] = IF i < m THEN q[i] ELSE q[i + 1]
      <4> HIDE DEF m
      <4> QED
        BY <1>3, <2>3, RemoveAtFacts, Zenon
    <3> HIDE DEF c
    <3>2. k \in 0..Len(c)
      BY <1>3, <1>5, <3>1
    <3>3. PlaceOf(Head1, c, k) = PlaceOf(Head1, q, k)
      <4>1. CASE k = 0
        BY <4>1 DEF PlaceOf
      <4>2. CASE k # 0
        <5>1. k \in 1..(Len(q) - 1) /\ k < m
          BY <1>3, <1>5, <4>2
        <5> QED
          BY <3>1, <4>2, <5>1 DEF PlaceOf
      <4> QED
        BY <4>1, <4>2
    <3>4. xIndir = PlaceOf(Head1, c, k)
      BY <1>4, <3>3 DEF PointersAt
    <3>5. nextPart'[xIndir] = PointsTo(c, k)
      BY <2>2, <3>2, <3>4 DEF Lists, Linked
    <3> QED
      BY <3>2, <3>4, <3>5 DEF PointersAt
  <2> HIDE DEF c, m
  <2>8. LessLoop(startOff', nextEv', c, before'.queue, arg', xIndir', x')
    BY <1>1, <1>6, <2>1, <2>5, <2>6, <2>7 DEF LessLoop, b
  <2>9. Loop(pc', startOff', nextEv', c, before'.queue, this', arg', xIndir', x')
    BY <1>1, <2>8 DEF Loop
  <2>10. Holds(nextPart', startOff', nextEv', HandOf(pc', this'), c, r2)
    BY <1>1, <1>3, <2>2, <2>4 DEF HandOf, Holds
  <2>11. ListInv'
    BY <2>9, <2>10, HoldsAgain
  <2> QED
    BY <1>8, <2>11 DEF ListStep
<1> QED
  BY <1>9, <1>10

\* At the end the queue is what the operator says.
LEMMA KeptByEraseLessEnd ==
  ASSUME ListAssumption, ListInv, EraseLessEnd
  PROVE  ListInv' /\ ListStep
<1>1. /\ pc = "less" /\ pc' = "idle" /\ x = Null
      /\ nextPart' = nextPart /\ startOff' = startOff /\ nextEv' = nextEv
  BY DEF EraseLessEnd, Return, lists
<1>2. PICK q, r : /\ Holds(nextPart, startOff, nextEv, Null, q, r)
                  /\ LessLoop(startOff, nextEv, q, before.queue, arg, xIndir, x)
  BY <1>1 DEF ListInv, HandOf, Loop
<1> DEFINE e == ListOf(startOff, nextEv, q)
           b == before.queue
<1>3. Lists(nextPart, q, r, Null) /\ Listed = e /\ Len(Listed) = Len(q)
  BY <1>2, HoldsNow
<1>4. PICK k, l : PointersAt(q, k, xIndir, x) /\ Scanned(e, b, arg, k, l)
  BY <1>2 DEF LessLoop
<1>5. k \in Nat /\ k = Len(q)
  BY <1>1, <1>3, <1>4, LoopEnds
<1>6. arg \in Offsets /\ arg \in Nat
  BY <1>2, PlaceFacts DEF LessLoop
<1> HIDE DEF e, b
<1>7. e = EraseStartOffsetLess(b, arg)
  <2>1. ~(k < Len(e))
    BY <1>3, <1>5
  <2> QED
    BY <1>4, <1>6, <2>1, ScanEnds
<1>8. Holds(nextPart', startOff', nextEv', HandOf(pc', this'), q, r)
  BY <1>1, <1>2 DEF HandOf
<1>9. ListInv'
  BY <1>1, <1>8, NoLoop, HoldsAgain
<1>10. Listed' = e
  BY <1>1, <1>8, ListedIs DEF e
<1>11. Queue = b /\ Queue' = Listed'
  BY <1>1 DEF Queue, b
<1>12. QueueStep
  BY <1>6, <1>7, <1>10, <1>11 DEF QueueStep
<1> QED
  BY <1>9, <1>12 DEF ListStep

\* setNextEvent() begins.
LEMMA KeptBySetEvent ==
  ASSUME ListAssumption, ListInv, NEW s \in Slots, NEW ev \in Events, SetEvent(s, ev)
  PROVE  ListInv' /\ ListStep
<1>1. /\ pc = "idle" /\ pc' = "unlink" /\ arg' = ev /\ this' = s /\ xIndir' = Head1
      /\ x' = nextPart[Head1] /\ before'.queue = Listed
      /\ nextPart' = nextPart /\ startOff' = startOff /\ nextEv' = nextEv
      /\ s \in Range(Chain(Head1))
  BY DEF SetEvent, Call, Idle, lists
<1>2. PICK q, r : Holds(nextPart, startOff, nextEv, Null, q, r)
  BY <1>1 DEF ListInv, HandOf
<1>3. /\ Lists(nextPart, q, r, Null) /\ q \in Seq(Slots) /\ Len(q) \in Nat
      /\ Listed = ListOf(startOff, nextEv, q) /\ Chain(Head1) = q
  BY <1>2, HoldsNow
<1>4. PICK p \in 1..Len(q) : q[p] = s
  <2>1. DOMAIN q = 1..Len(q)
    BY <1>3, LenProperties
  <2> QED
    BY <1>1, <1>3, <2>1 DEF Range
<1>5. PointersAt(q, 0, xIndir', x')
  BY <1>1, <1>3, LoopBegins
<1>6. UnlinkLoop(startOff', nextEv', q, before'.queue, this', arg', xIndir', x')
  <2>1. 0 < p
    OBVIOUS
  <2> QED
    BY <1>1, <1>3, <1>4, <1>5, <2>1 DEF UnlinkLoop
<1>7. Loop(pc', startOff', nextEv', q, before'.queue, this', arg', xIndir', x')
  BY <1>1, <1>6 DEF Loop
<1>8. Holds(nextPart', startOff', nextEv', HandOf(pc', this'), q, r)
  BY <1>1, <1>2 DEF HandOf
<1>9. ListInv'
  BY <1>7, <1>8, HoldsAgain
<1>10. Queue' = Queue
  BY <1>1 DEF Queue
<1> QED
  BY <1>9, <1>10 DEF ListStep

\* It has not come to the object; so the object is after the one it looks at.
LEMMA KeptByUnlinkStep ==
  ASSUME ListAssumption, ListInv, UnlinkStep
  PROVE  ListInv' /\ ListStep
<1>1. /\ pc = "unlink" /\ pc' = "unlink" /\ x # this /\ arg' = arg /\ this' = this
      /\ nextPart' = nextPart /\ startOff' = startOff /\ nextEv' = nextEv
      /\ before' = before /\ xIndir' = x /\ x' = nextPart[x]
  BY DEF UnlinkStep, Advance, lists
<1>2. PICK q, r : /\ Holds(nextPart, startOff, nextEv, Null, q, r)
                  /\ UnlinkLoop(startOff, nextEv, q, before.queue, this, arg, xIndir, x)
  BY <1>1 DEF ListInv, HandOf, Loop
<1>3. Lists(nextPart, q, r, Null) /\ Len(q) \in Nat
  BY <1>2, HoldsNow
<1>4. PICK k, p : /\ PointersAt(q, k, xIndir, x)
                  /\ p \in 1..Len(q) /\ k < p /\ this = q[p]
  BY <1>2 DEF UnlinkLoop
<1>5. k \in 0..Len(q) /\ k < Len(q) /\ x = q[k + 1]
  BY <1>3, <1>4 DEF PointersAt, PointsTo
<1>6. x # Null
  <2>1. k + 1 \in 1..Len(q)
    BY <1>3, <1>5
  <2> QED
    BY <1>3, <1>5, <2>1, ElementOfSeq, PlaceFacts DEF Lists
<1>7. PointersAt(q, k + 1, xIndir', x')
  BY <1>1, <1>3, <1>4, <1>6, LoopGoesOn
<1>8. k + 1 < p
  <2>1. p # k + 1
    BY <1>1, <1>4, <1>5
  <2> QED
    BY <1>3, <1>4, <1>5, <2>1
<1>9. UnlinkLoop(startOff', nextEv', q, before'.queue, this', arg', xIndir', x')
  BY <1>1, <1>2, <1>4, <1>7, <1>8 DEF UnlinkLoop
<1>10. Loop(pc', startOff', nextEv', q, before'.queue, this', arg', xIndir', x')
  BY <1>1, <1>9 DEF Loop
<1>11. Holds(nextPart', startOff', nextEv', HandOf(pc', this'), q, r)
  BY <1>1, <1>2 DEF HandOf
<1>12. ListInv'
  BY <1>10, <1>11, HoldsAgain
<1>13. Queue' = Queue
  BY <1>1 DEF Queue
<1> QED
  BY <1>12, <1>13 DEF ListStep

\* It takes the object out of the queue.
LEMMA KeptByUnlink ==
  ASSUME ListAssumption, ListInv, Unlink
  PROVE  ListInv' /\ ListStep
<1>1. /\ pc = "unlink" /\ pc' = "insert" /\ x = this /\ arg' = arg /\ this' = this
      /\ nextPart' = [nextPart EXCEPT ![xIndir] = nextPart[x]]
      /\ startOff' = startOff /\ nextEv' = nextEv
      /\ before' = before /\ xIndir' = Head1 /\ x' = nextPart'[Head1]
  BY DEF Unlink
<1>2. PICK q, r : /\ Holds(nextPart, startOff, nextEv, Null, q, r)
                  /\ UnlinkLoop(startOff, nextEv, q, before.queue, this, arg, xIndir, x)
  BY <1>1 DEF ListInv, HandOf, Loop
<1> DEFINE e == ListOf(startOff, nextEv, q)
<1>3. /\ Lists(nextPart, q, r, Null) /\ Ascending(nextEv, q)
      /\ OffsetsOK(startOff) /\ EventsOK(nextEv) /\ q \in Seq(Slots) /\ Len(q) \in Nat
      /\ Listed = e /\ Listed \in Seq(Entries) /\ Len(Listed) = Len(q)
      /\ \A i \in 1..Len(q) : Listed[i] = EntryOf(startOff, nextEv, q[i])
  BY <1>2, HoldsNow
<1>4. PICK k, p : /\ PointersAt(q, k, xIndir, x)
                  /\ p \in 1..Len(q) /\ k < p /\ this = q[p]
  BY <1>2 DEF UnlinkLoop
<1>5. /\ k \in 0..Len(q) /\ k \in Nat /\ k < Len(q) /\ x = q[k + 1] /\ k + 1 \in 1..Len(q)
      /\ x \in Slots /\ xIndir = PlaceOf(Head1, q, k)
  <2>1. /\ k \in 0..Len(q) /\ k < Len(q) /\ x = q[k + 1] /\ k + 1 \in 1..Len(q)
        /\ xIndir = PlaceOf(Head1, q, k)
    BY <1>3, <1>4 DEF PointersAt, PointsTo
  <2> QED
    BY <1>3, <2>1, ElementOfSeq
<1> DEFINE m == k + 1
           c == RemoveAt(q, m)
<1>6. SetPointer(nextPart, nextPart', PlaceOf(Head1, q, k), nextPart[q[k + 1]])
  <2>1. /\ nextPart \in [Places -> Slots \union {Null}]
        /\ PlaceOf(Head1, q, k) \in Places
    BY <1>3, <1>5, PlacesApart DEF Lists
  <2>2. nextPart[x] \in Slots \union {Null}
    BY <1>5, <2>1 DEF Places
  <2> QED
    BY <1>1, <1>5, <2>1, <2>2, SetPointerIs
<1>7. Lists(nextPart', c, r, x)
  BY <1>3, <1>5, <1>6, TakeOut
<1>8. m \in 1..Len(q) /\ q[m] = x
  BY <1>5
<1> HIDE DEF m
<1>9. Ascending(nextEv, c)
  BY <1>3, <1>8, AscendingRemoved
<1>10. ListOf(startOff, nextEv, c) = RemoveAt(e, m)
  BY <1>3, <1>8, ListOfRemoved
<1>11. e[m] = EntryOf(startOff, nextEv, x)
  BY <1>3, <1>8
<1> HIDE DEF c
<1>12. Holds(nextPart', startOff', nextEv', HandOf(pc', this'), c, r)
  BY <1>1, <1>3, <1>7, <1>9 DEF Holds, HandOf
<1>13. PointersAt(c, 0, xIndir', x')
  BY <1>1, <1>7, LoopBegins
<1> HIDE DEF e
<1>14. InsertLoop(startOff', nextEv', c, before'.queue, this', arg', xIndir', x')
  <2>1. before.queue = e /\ arg \in Events
    BY <1>2 DEF UnlinkLoop, e
  <2>2. m \in 1..Len(e)
    BY <1>3, <1>8
  <2>3. \A i \in 1..0 : nextEv[c[i]] < arg
    OBVIOUS
  <2>4. \E j \in 1..Len(before'.queue) :
           /\ RemoveAt(before'.queue, j) = ListOf(startOff', nextEv', c)
           /\ before'.queue[j] = EntryOf(startOff', nextEv', this')
    BY <1>1, <1>10, <1>11, <2>1, <2>2
  <2>5. \E j : /\ PointersAt(c, j, xIndir', x')
               /\ \A i \in 1..j : nextEv'[c[i]] < arg'
    BY <1>1, <1>13, <2>3
  <2> QED
    BY <1>1, <1>3, <1>5, <2>1, <2>4, <2>5 DEF InsertLoop
<1>15. Loop(pc', startOff', nextEv', c, before'.queue, this', arg', xIndir', x')
  BY <1>1, <1>14 DEF Loop
<1>16. ListInv'
  BY <1>12, <1>15, HoldsAgain
<1>17. Queue' = Queue
  BY <1>1 DEF Queue
<1> QED
  BY <1>16, <1>17 DEF ListStep

\* It looks for the place for the new event.
LEMMA KeptByInsertStep ==
  ASSUME ListAssumption, ListInv, InsertStep
  PROVE  ListInv' /\ ListStep
<1>1. /\ pc = "insert" /\ pc' = "insert" /\ x # Null /\ arg' = arg /\ this' = this
      /\ nextPart' = nextPart /\ startOff' = startOff /\ nextEv' = nextEv
      /\ before' = before /\ xIndir' = x /\ x' = nextPart[x] /\ nextEv[x] < arg
  BY DEF InsertStep, Advance, lists, Comes
<1>2. PICK q, r : /\ Holds(nextPart, startOff, nextEv, this, q, r)
                  /\ InsertLoop(startOff, nextEv, q, before.queue, this, arg, xIndir, x)
  BY <1>1 DEF ListInv, HandOf, Loop
<1>3. Lists(nextPart, q, r, this) /\ Len(q) \in Nat
  BY <1>2, HoldsNow
<1>4. PICK k : /\ PointersAt(q, k, xIndir, x)
               /\ \A i \in 1..k : nextEv[q[i]] < arg
  BY <1>2 DEF InsertLoop
<1>5. k \in Nat /\ x = q[k + 1] /\ PointersAt(q, k + 1, xIndir', x')
  BY <1>1, <1>3, <1>4, LoopGoesOn
<1>6. \A i \in 1..(k + 1) : nextEv[q[i]] < arg
  BY <1>1, <1>4, <1>5
<1>7. InsertLoop(startOff', nextEv', q, before'.queue, this', arg', xIndir', x')
  <2>1. \E j : /\ PointersAt(q, j, xIndir', x')
               /\ \A i \in 1..j : nextEv'[q[i]] < arg'
    BY <1>1, <1>5, <1>6
  <2> QED
    BY <1>1, <1>2, <2>1 DEF InsertLoop
<1>8. Loop(pc', startOff', nextEv', q, before'.queue, this', arg', xIndir', x')
  BY <1>1, <1>7 DEF Loop
<1>9. Holds(nextPart', startOff', nextEv', HandOf(pc', this'), q, r)
  BY <1>1, <1>2 DEF HandOf
<1>10. ListInv'
  BY <1>8, <1>9, HoldsAgain
<1>11. Queue' = Queue
  BY <1>1 DEF Queue
<1> QED
  BY <1>10, <1>11 DEF ListStep

\* The object is linked in, at the place the operator says.
LEMMA KeptByInsert ==
  ASSUME ListAssumption, ListInv, Insert
  PROVE  ListInv' /\ ListStep
<1>1. /\ pc = "insert" /\ pc' = "idle" /\ (x # Null => ~(nextEv[x] < arg))
      /\ nextPart' = [nextPart EXCEPT ![this] = x, ![xIndir] = this]
      /\ nextEv' = [nextEv EXCEPT ![this] = arg]
      /\ startOff' = startOff
  BY DEF Insert, Return, Comes
<1>2. PICK q, r : /\ Holds(nextPart, startOff, nextEv, this, q, r)
                  /\ InsertLoop(startOff, nextEv, q, before.queue, this, arg, xIndir, x)
  BY <1>1 DEF ListInv, HandOf, Loop
<1> DEFINE e == ListOf(startOff, nextEv, q)
           b == before.queue
<1>3. /\ Lists(nextPart, q, r, this) /\ Ascending(nextEv, q)
      /\ OffsetsOK(startOff) /\ EventsOK(nextEv) /\ q \in Seq(Slots) /\ Len(q) \in Nat
      /\ Listed = e /\ Listed \in Seq(Entries) /\ Len(Listed) = Len(q)
      /\ \A i \in 1..Len(q) : Listed[i] = EntryOf(startOff, nextEv, q[i])
  BY <1>2, HoldsNow
<1>4. arg \in Events /\ arg \in Nat /\ this \in Slots /\ b \in Seq(Entries)
  BY <1>2, PlaceFacts DEF InsertLoop
<1>5. PICK p \in 1..Len(b) : RemoveAt(b, p) = e /\ b[p] = EntryOf(startOff, nextEv, this)
  BY <1>2 DEF InsertLoop
<1>6. PICK k : PointersAt(q, k, xIndir, x) /\ \A i \in 1..k : nextEv[q[i]] < arg
  BY <1>2 DEF InsertLoop
<1> HIDE DEF e, b
<1>7. /\ k \in 0..Len(q) /\ xIndir = PlaceOf(Head1, q, k) /\ x = PointsTo(q, k)
  BY <1>6 DEF PointersAt
<1> DEFINE m == k + 1
           c == InsertAt(q, m, this)
           ne == [nextEv EXCEPT ![this] = arg]
<1>8. Lists(nextPart', c, r, Null)
  BY <1>1, <1>3, <1>4, <1>7, InsertedLists
<1>9. m \in 1..(Len(q) + 1) /\ k = m - 1 /\ k \in Nat
  BY <1>3, <1>7
<1>10. \A i \in 1..Len(q) : q[i] \in Slots /\ q[i] # this /\ nextEv[q[i]] \in Nat
  <2>1. \A i \in 1..Len(q) : q[i] \in Slots /\ q[i] # this
    BY <1>3, ElementOfSeq DEF Lists, In
  <2> QED
    BY <1>3, <2>1, PlaceFacts DEF EventsOK
<1>11. m <= Len(q) => ~(nextEv[q[m]] < arg) /\ nextEv[q[m]] >= arg
  <2> SUFFICES ASSUME m <= Len(q) PROVE ~(nextEv[q[m]] < arg) /\ nextEv[q[m]] >= arg
    OBVIOUS
  <2>1. k < Len(q) /\ m \in 1..Len(q)
    BY <1>3, <1>9
  <2>2. x = q[m]
    BY <1>7, <2>1 DEF PointsTo
  <2>3. x # Null
    BY <1>10, <2>1, <2>2, PlaceFacts
  <2> QED
    BY <1>1, <1>4, <1>10, <2>1, <2>2, <2>3
<1>12. EventsOK(ne) /\ Ascending(ne, c)
  <2>1. \A i \in 1..k : nextEv[q[i]] <= arg
    <3> TAKE i \in 1..k
    <3>1. i \in 1..Len(q)
      BY <1>3, <1>7
    <3> QED
      BY <1>4, <1>6, <1>10, <3>1
  <2>2. k < Len(q) => nextEv[q[k + 1]] >= arg
    BY <1>3, <1>9, <1>11
  <2>3. arg \in Events \union {0}
    BY <1>4
  <2> QED
    BY <1>3, <1>4, <1>7, <1>10, <2>1, <2>2, <2>3, AscendingInserted
<1> HIDE DEF m
<1>13. \A i \in 1..Len(q) : EntryOf(startOff, ne, q[i]) = EntryOf(startOff, nextEv, q[i])
  BY <1>3, <1>4, <1>10 DEF EntryOf, EventsOK
<1>14. EntryOf(startOff, ne, this) = [b[p] EXCEPT !.nextEv = arg]
  BY <1>3, <1>4, <1>5 DEF EntryOf, EventsOK
<1> HIDE DEF ne
<1>15. ListOf(startOff, ne, q) = e
  BY <1>13, ListOfSame DEF e
<1>16. ListOf(startOff, ne, c) = InsertAt(e, m, EntryOf(startOff, ne, this))
  BY <1>3, <1>4, <1>9, <1>12, <1>15, ListOfInserted
<1>17. InsertPosition(e, arg) = m
  <2>1. e \in Seq(Entries) /\ Len(e) = Len(q) /\ \A i \in 1..Len(q) : e[i].nextEv = nextEv[q[i]]
    <3>1. \A s : EntryOf(startOff, nextEv, s).nextEv = nextEv[s]
      BY DEF EntryOf
    <3> QED
      BY <1>3, <3>1
  <2>2. \A i \in 1..(m - 1) : e[i].nextEv < arg
    <3> TAKE i \in 1..(m - 1)
    <3>1. i \in 1..k /\ i \in 1..Len(q)
      BY <1>3, <1>7, <1>9
    <3> QED
      BY <1>6, <2>1, <3>1
  <2>3. m <= Len(e) => ~(e[m].nextEv < arg)
    <3>1. m <= Len(q) => m \in 1..Len(q)
      BY <1>3, <1>9
    <3> QED
      BY <1>11, <2>1, <3>1
  <2>4. m \in 1..(Len(e) + 1)
    BY <1>9, <2>1
  <2> QED
    BY <1>4, <2>1, <2>2, <2>3, <2>4, InsertPositionIs
<1> DEFINE f == [b[p] EXCEPT !.nextEv = arg]
<1>18. SetNextEvent(b, p, f) = InsertAt(e, m, f)
  <2>1. b[p] = [startOff |-> startOff[this], nextEv |-> nextEv[this]]
    BY <1>5 DEF EntryOf
  <2>2. f.nextEv = arg
    BY <2>1
  <2> HIDE DEF f
  <2> QED
    BY <1>5, <1>17, <2>2 DEF SetNextEvent, InsertByEvent
<1> HIDE DEF c
<1>19. Holds(nextPart', startOff', nextEv', Null, c, r)
  BY <1>1, <1>3, <1>8, <1>12 DEF Holds, ne
<1>20. ListInv'
  <2>1. HandOf(pc', this') = Null
    BY <1>1 DEF HandOf
  <2> QED
    BY <1>1, <1>19, <2>1, NoLoop, HoldsAgain
<1>21. Listed' = ListOf(startOff, ne, c)
  BY <1>1, <1>19, ListedIs DEF ne
<1>22. Queue = b /\ Queue' = Listed'
  BY <1>1 DEF Queue, b
<1>23. Queue' = SetNextEvent(b, p, f)
  BY <1>14, <1>16, <1>18, <1>21, <1>22
<1>24. p \in DOMAIN b
  BY <1>4, LenProperties
<1>25. Queue' = SetNextEvent(Queue, p, [Queue[p] EXCEPT !.nextEv = arg]) /\ p \in DOMAIN Queue
  BY <1>22, <1>23, <1>24
<1>26. QueueStep
  BY <1>4, <1>25 DEF QueueStep
<1> QED
  BY <1>20, <1>26 DEF ListStep

-----------------------------------------------------------------------------
(* The theorems                                                              *)

\* The invariant holds always, and each step is a step of the queue.
LEMMA ListStepKept ==
  ASSUME ListAssumption, ListInv, [Next]_vars
  PROVE  ListInv' /\ ListStep
<1>1. CASE Erase
  BY <1>1, KeptByErase
<1>2. CASE AddFront
  BY <1>2, KeptByAddFront
<1>3. CASE EraseFrontStep
  BY <1>3, KeptByEraseFront
<1>4. ASSUME NEW s \in Slots, NEW o \in Offsets, SetStartOffset(s, o)
      PROVE  ListInv' /\ ListStep
  BY <1>4, KeptBySetStartOffset
<1>5. ASSUME NEW s \in Slots, NEW ev \in Events, SetEvent(s, ev)
      PROVE  ListInv' /\ ListStep
  BY <1>5, KeptBySetEvent
<1>6. ASSUME NEW o \in Offsets, EraseLess(o)
      PROVE  ListInv' /\ ListStep
  BY <1>6, KeptByEraseLess
<1>7. ASSUME NEW o \in Offsets, FindDrop(o)
      PROVE  ListInv' /\ ListStep
  <2>1. pc = "idle" /\ pc' = "lowest" /\ UNCHANGED lists
    BY <1>7 DEF FindDrop, Call, Idle
  <2> QED
    BY <2>1, LooksOn
<1>8. CASE EraseLessStep
  BY <1>8, KeptByEraseLessStep
<1>9. CASE EraseLessEnd
  BY <1>9, KeptByEraseLessEnd
<1>10. CASE UnlinkStep
  BY <1>10, KeptByUnlinkStep
<1>11. CASE Unlink
  BY <1>11, KeptByUnlink
<1>12. CASE InsertStep
  BY <1>12, KeptByInsertStep
<1>13. CASE Insert
  BY <1>13, KeptByInsert
<1>14. CASE LowestStep
  <2>1. pc = "lowest" /\ pc' = "lowest" /\ UNCHANGED lists
    BY <1>14 DEF LowestStep, lists
  <2> QED
    BY <2>1, LooksOn
<1>15. CASE Sector
  <2>1. pc \in {"lowest", "drop"} /\ pc' \in {"drop", "found"} /\ UNCHANGED lists
    BY <1>15 DEF Sector
  <2> QED
    BY <2>1, LooksOn
<1>16. CASE DropStep
  <2>1. pc = "drop" /\ pc' \in {"drop", "found"} /\ UNCHANGED lists
    BY <1>16 DEF DropStep
  <2> QED
    BY <2>1, LooksOn
<1>17. CASE FindEnd
  <2>1. pc = "found" /\ pc' = "idle" /\ UNCHANGED lists
    BY <1>17 DEF FindEnd, Return
  <2> QED
    BY <2>1, LooksOn
<1>18. CASE UNCHANGED vars
  BY <1>18, Stutters
<1> QED
  BY <1>1, <1>2, <1>3, <1>4, <1>5, <1>6, <1>7, <1>8, <1>9, <1>10, <1>11, <1>12, <1>13,
     <1>14, <1>15, <1>16, <1>17, <1>18 DEF Next

\* The lists are as ListInv says in every state: this is what the loops of
\* PartialMatchQueue (src/partialmatch.ih) rely on when they follow pointers.
THEOREM ListInvariance ==
  ASSUME ListAssumption
  PROVE  Spec => []ListInv
<1>1. Init => ListInv
  BY ListInit
<1>2. ListInv /\ [Next]_vars => ListInv'
  BY ListStepKept
<1> QED
  BY <1>1, <1>2, PTL DEF Spec

\* The linked lists implement the queue: however many objects there are, each
\* method comes, pointer by pointer, to what PartialMatchQueue says it does, and
\* no other step changes the queue (addFront(), eraseFront(), setStartOffset(),
\* eraseStartOffsetLess(), setNextEvent(), erase()).
THEOREM QueueImplemented ==
  ASSUME ListAssumption
  PROVE  Spec => Implements
<1>1. ListInv /\ [Next]_vars => [ListStep]_vars
  BY ListStepKept
<1>2. Spec => []ListInv
  BY ListInvariance
<1> QED
  BY <1>1, <1>2, PTL DEF Spec, Implements

\* No object is lost or on both lists, whatever is taken out and put in, so that
\* addFront() finds one as long as the queue is not full.
THEOREM ObjectsKept ==
  ASSUME ListAssumption
  PROVE  Spec => []NoneLost
<1>1. ListInv => NoneLost
  <2> SUFFICES ASSUME ListInv PROVE NoneLost
    OBVIOUS
  <2>1. PICK q, r : /\ Holds(nextPart, startOff, nextEv, HandOf(pc, this), q, r)
                    /\ Loop(pc, startOff, nextEv, q, before.queue, this, arg, xIndir, x)
    BY DEF ListInv
  <2>2. /\ Chain(Head1) = q /\ Chain(FreeHead) = r
        /\ Lists(nextPart, q, r, HandOf(pc, this))
        /\ Len(q) \in Nat /\ Len(r) \in Nat
    BY <2>1, ListedIs, LenProperties DEF Holds, Lists
  <2>3. CASE pc = "insert"
    <3>1. HandOf(pc, this) = this /\ this \in Slots
      BY <2>1, <2>3 DEF HandOf, Loop, InsertLoop
    <3>2. /\ Len(q) + Len(r) + 1 = MaxMatches
          /\ Range(q) \union Range(r) \union {this} = Slots
      BY <2>2, <3>1, ListsCount
    <3>3. Cardinality({this}) = 1
      BY FS_Singleton
    <3> QED
      BY <2>2, <2>3, <3>2, <3>3 DEF NoneLost
  <2>4. CASE pc # "insert"
    <3>1. HandOf(pc, this) = Null
      BY <2>4 DEF HandOf
    <3>2. /\ Len(q) + Len(r) = MaxMatches
          /\ Range(q) \union Range(r) = Slots
      BY <2>2, <3>1, ListsCount
    <3>3. Cardinality({}) = 0
      BY FS_EmptySet
    <3> QED
      BY <2>2, <2>4, <3>2, <3>3 DEF NoneLost
  <2> QED
    BY <2>3, <2>4
<1>2. Spec => []ListInv
  BY ListInvariance
<1> QED
  BY <1>1, <1>2, PTL

\* setNextEvent() keeps the queue sorted, as consistencyCheck() asserts.
THEOREM KeptSorted ==
  ASSUME ListAssumption
  PROVE  Spec => []Sorted
<1>1. ListInv => Sorted
  <2> SUFFICES ASSUME ListInv, NEW i \in 2..Len(Listed)
               PROVE  Listed[i - 1].nextEv <= Listed[i].nextEv
    BY DEF Sorted
  <2>1. PICK q, r : Holds(nextPart, startOff, nextEv, HandOf(pc, this), q, r)
    BY DEF ListInv
  <2>2. /\ Ascending(nextEv, q) /\ Len(q) \in Nat /\ Len(Listed) = Len(q)
        /\ \A j \in 1..Len(q) : Listed[j] = EntryOf(startOff, nextEv, q[j])
    BY <2>1, HoldsNow
  <2>3. \A j \in 1..Len(q) : Listed[j].nextEv = nextEv[q[j]]
    <3>1. \A s : EntryOf(startOff, nextEv, s).nextEv = nextEv[s]
      BY DEF EntryOf
    <3> QED
      BY <2>2, <3>1
  <2> DEFINE k == i - 1
  <2>4. k \in 1..Len(q) /\ i \in 1..Len(q) /\ k < i
    BY <2>2
  <2> HIDE DEF k
  <2>5. Listed[k].nextEv <= Listed[i].nextEv
    BY <2>2, <2>3, <2>4 DEF Ascending
  <2> QED
    BY <2>5 DEF k
<1>2. Spec => []ListInv
  BY ListInvariance
<1> QED
  BY <1>1, <1>2, PTL
=============================================================================
