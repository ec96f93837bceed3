-------------------------- MODULE PartialMatchQueue --------------------------
(***************************************************************************)
(* MkTemplate::PartialMatchQueue (src/partialmatch.hh, .ih): the bounded   *)
(* queue of the places in the image at which some file might match.  The   *)
(* queue is a sequence of records in list order, kept sorted by ascending  *)
(* nextEv; the free list is the unused rest of its MaxMatches slots.       *)
(*                                                                         *)
(* A PartialMatch is a record                                              *)
(*   startOff  offset in the image at which the match starts               *)
(*   nextEv    value of off at which the current block is compared         *)
(*   blockOff  offset in the image buffer of the current checksum block    *)
(*   blockNr   number of that block in the file                            *)
(*   filePart  the file whose sums have matched so far                     *)
(***************************************************************************)
EXTENDS Integers, Sequences, FiniteSets, SequencesExt, TLAPS,
        WellFoundedInduction, SequenceTheorems, FiniteSetTheorems

CONSTANTS
  MaxMatches,           \* MAX_MATCHES, number of slots
  InitialSectorLength,  \* INITIAL_SECTOR_LENGTH
  MaxSectorLength       \* MAX_SECTOR_LENGTH

\* The lengths that doubling goes through.
SectorLengths ==
  {s \in InitialSectorLength..MaxSectorLength :
     \E k \in 0..MaxSectorLength : s = InitialSectorLength * 2^k}

ASSUME QueueAssumption ==
  /\ MaxMatches \in Nat \ {0}
  /\ InitialSectorLength \in Nat \ {0} /\ MaxSectorLength \in Nat
  /\ {InitialSectorLength, MaxSectorLength} \subseteq SectorLengths

\* Mutant of Full: notices one entry too late.
FullOneLate(q) == Len(q) > MaxMatches

Full(q) == Len(q) = MaxMatches

\* Mutant of LowestStartOffset: confuses it with the front of the queue.
LowestStartOffsetFront(q) == 1

\* Index of the first entry, in list order, that has the lowest startOff.
LowestStartOffset(q) ==
  CHOOSE i \in DOMAIN q :
    /\ \A j \in DOMAIN q : q[i].startOff <= q[j].startOff
    /\ \A j \in 1..(i - 1) : q[i].startOff < q[j].startOff

EraseFront(q) == Tail(q)

\* Keeps the order of the entries that stay.
EraseStartOffsetLess(q, o) ==
  LET kept == {i \in DOMAIN q : q[i].startOff >= o}
  IN [k \in 1..Cardinality(kept) |->
        q[CHOOSE i \in kept : Cardinality({j \in kept : j <= i}) = k]]

\* Mutant of InsertPosition: the place in the queue is not searched for.
InsertPositionFront(q, ev) == 1

\* The scan of setNextEvent(): skip the entries whose nextEv is below ev.
InsertPosition(q, ev) ==
  CHOOSE i \in 1..(Len(q) + 1) :
    /\ \A j \in 1..(i - 1) : q[j].nextEv < ev
    /\ i <= Len(q) => q[i].nextEv >= ev

InsertByEvent(q, m) == InsertAt(q, InsertPosition(q, m.nextEv), m)

\* Unlink entry i, then link it in again as m (its new value) by m's event.
SetNextEvent(q, i, m) == InsertByEvent(RemoveAt(q, i), m)

\* Mutant of Droppable: the oldest match may be dropped.
DroppableOldestToo(q, s) == {i \in DOMAIN q : q[i].startOff % s # 0}

\* findDropCandidate(): the entries that may be dropped at sector length s ...
Droppable(q, s) ==
  {i \in DOMAIN q : i # LowestStartOffset(q) /\ q[i].startOff % s # 0}

\* ... the sector length at which the doubling loop stops, starting from s0 ...
StopsAt(q, s, newStart) ==
  newStart % s # 0 \/ Droppable(q, s) # {} \/ s = MaxSectorLength

DropSectorLength(q, s0, newStart) ==
  CHOOSE s \in SectorLengths :
    /\ s >= s0 /\ StopsAt(q, s, newStart)
    /\ \A r \in SectorLengths : r >= s0 /\ r < s => ~StopsAt(q, r, newStart)

\* ... and the index of the entry it returns, 0 for the null pointer.
DropCandidate(q, s, newStart) ==
  IF newStart % s = 0 /\ Droppable(q, s) # {}
  THEN CHOOSE i \in Droppable(q, s) : \A j \in Droppable(q, s) : i <= j
  ELSE 0

-----------------------------------------------------------------------------
(* Lemmas: what the operators on sequences do, and that the place of an       *)
(* insertion exists.                                                         *)

\* A non-empty set of natural numbers has a smallest element.
LEMMA MinExists ==
  ASSUME NEW S, S \subseteq Nat, S # {}
  PROVE  \E m \in S : \A k \in S : m <= k
<1>1. PICK m \in S : \A k \in S : <<k, m>> \notin OpToRel(<, Nat)
  BY NatLessThanWellFounded, WFMin, Zenon
<1>2. \A k \in S : ~(k < m)
  <2> SUFFICES ASSUME NEW k \in S, k < m PROVE FALSE
    OBVIOUS
  <2>1. <<k, m>> \in Nat \X Nat /\ <<k, m>>[1] < <<k, m>>[2]
    OBVIOUS
  <2>2. <<k, m>> \in OpToRel(<, Nat)
    BY <2>1, Zenon DEF OpToRel
  <2> QED
    BY <1>1, <2>2
<1> QED
  BY <1>2

\* What is where after an insertion.
LEMMA InsertAtFacts ==
  ASSUME NEW T, NEW q \in Seq(T), NEW i \in 1..(Len(q) + 1), NEW e \in T
  PROVE  /\ InsertAt(q, i, e) \in Seq(T)
         /\ Len(InsertAt(q, i, e)) = Len(q) + 1
         /\ \A k \in 1..(i - 1) : InsertAt(q, i, e)[k] = q[k]
         /\ InsertAt(q, i, e)[i] = e
         /\ \A k \in (i + 1)..(Len(q) + 1) : InsertAt(q, i, e)[k] = q[k - 1]
<1> DEFINE a == SubSeq(q, 1, i - 1)
           b == SubSeq(q, i, Len(q))
<1>1. /\ a \in Seq(T) /\ Len(a) = i - 1 /\ \A k \in 1..(i - 1) : a[k] = q[k]
  BY SubSeqProperties
<1>2. /\ b \in Seq(T) /\ Len(b) = Len(q) - i + 1
      /\ \A k \in 1..(Len(q) - i + 1) : b[k] = q[i + k - 1]
  BY SubSeqProperties
<1>3. InsertAt(q, i, e) = a \o <<e>> \o b
  BY DEF InsertAt
<1> HIDE DEF a, b
<1>4. /\ a \o <<e>> \in Seq(T) /\ Len(a \o <<e>>) = i
      /\ \A k \in 1..i : (a \o <<e>>)[k] = IF k < i THEN q[k] ELSE e
  BY <1>1
<1> DEFINE ae == a \o <<e>>
<1>5. Len(q) \in Nat /\ i \in Nat
  BY LenProperties
<1>6. InsertAt(q, i, e) = ae \o b
  BY <1>3
<1>7. /\ ae \in Seq(T) /\ Len(ae) = i
      /\ \A k \in 1..i : ae[k] = IF k < i THEN q[k] ELSE e
  BY <1>4
<1> HIDE DEF ae
<1> DEFINE c == ae \o b
<1>8. /\ c \in Seq(T) /\ Len(c) = Len(ae) + Len(b)
      /\ \A k \in 1..Len(ae) + Len(b) :
           c[k] = IF k <= Len(ae) THEN ae[k] ELSE b[k - Len(ae)]
  BY <1>2, <1>7, ConcatProperties, Zenon
<1> HIDE DEF c
<1>9. ASSUME NEW k \in (i + 1)..(Len(q) + 1) PROVE c[k] = q[k - 1]
  <2>1. k - i \in 1..(Len(q) - i + 1) /\ i + (k - i) - 1 = k - 1
    BY <1>5
  <2>2. k \in 1..Len(ae) + Len(b) /\ ~(k <= Len(ae))
    BY <1>2, <1>5, <1>7
  <2>3. c[k] = b[k - i]
    BY <1>7, <1>8, <2>2
  <2>4. b[k - i] = q[i + (k - i) - 1]
    BY <1>2, <2>1
  <2> QED
    BY <2>1, <2>3, <2>4
<1>10. c[i] = e /\ \A k \in 1..(i - 1) : c[k] = q[k]
  BY <1>2, <1>5, <1>7, <1>8
<1> QED
  BY <1>2, <1>5, <1>6, <1>7, <1>8, <1>9, <1>10 DEF c

\* What is where after a removal.
LEMMA RemoveAtFacts ==
  ASSUME NEW T, NEW q \in Seq(T), NEW i \in 1..Len(q)
  PROVE  /\ RemoveAt(q, i) \in Seq(T)
         /\ Len(RemoveAt(q, i)) = Len(q) - 1
         /\ \A k \in 1..(Len(q) - 1) :
              RemoveAt(q, i)[k] = IF k < i THEN q[k] ELSE q[k + 1]
<1> DEFINE a == SubSeq(q, 1, i - 1)
           b == SubSeq(q, i + 1, Len(q))
<1>0. Len(q) \in Nat /\ i \in Nat
  BY LenProperties
<1>1. /\ a \in Seq(T) /\ Len(a) = i - 1 /\ \A k \in 1..(i - 1) : a[k] = q[k]
  BY SubSeqProperties
<1>2. /\ b \in Seq(T) /\ Len(b) = Len(q) - i
      /\ \A k \in 1..(Len(q) - i) : b[k] = q[i + k]
  BY SubSeqProperties
<1>3. /\ a \o b \in Seq(T) /\ Len(a \o b) = Len(a) + Len(b)
      /\ \A k \in 1..Len(a) + Len(b) :
           (a \o b)[k] = IF k <= Len(a) THEN a[k] ELSE b[k - Len(a)]
  BY <1>1, <1>2, ConcatProperties, Zenon
<1> DEFINE c == a \o b
<1>4. RemoveAt(q, i) = c
  BY DEF RemoveAt
<1>5. /\ c \in Seq(T) /\ Len(c) = Len(a) + Len(b)
      /\ \A k \in 1..Len(a) + Len(b) :
           c[k] = IF k <= Len(a) THEN a[k] ELSE b[k - Len(a)]
  BY <1>3
<1> HIDE DEF a, b, c
<1>6. /\ c \in Seq(T) /\ Len(c) = Len(q) - 1
      /\ \A k \in 1..(Len(q) - 1) :
           c[k] = IF k <= i - 1 THEN a[k] ELSE b[k - (i - 1)]
  BY <1>0, <1>1, <1>2, <1>5
<1>7. ASSUME NEW k \in 1..(Len(q) - 1)
      PROVE  c[k] = IF k < i THEN q[k] ELSE q[k + 1]
  <2>1. CASE k < i
    BY <1>0, <1>1, <1>6, <2>1
  <2>2. CASE ~(k < i)
    <3>1. /\ k - (i - 1) \in 1..(Len(q) - i) /\ i + (k - (i - 1)) = k + 1
          /\ ~(k <= i - 1)
      BY <1>0, <2>2
    <3> QED
      BY <1>2, <1>6, <2>2, <3>1
  <2> QED
    BY <2>1, <2>2
<1> QED
  BY <1>4, <1>6, <1>7

\* The scan of setNextEvent() stops at a place of the queue or at its end.
LEMMA InsertPositionFacts ==
  ASSUME NEW T, \A m \in T : m.nextEv \in Nat,
         NEW q \in Seq(T), NEW ev \in Nat
  PROVE  /\ InsertPosition(q, ev) \in 1..(Len(q) + 1)
         /\ \A j \in 1..(InsertPosition(q, ev) - 1) : q[j].nextEv < ev
         /\ InsertPosition(q, ev) <= Len(q) =>
              q[InsertPosition(q, ev)].nextEv >= ev
<1> DEFINE I == {j \in 1..(Len(q) + 1) : j <= Len(q) => q[j].nextEv >= ev}
<1>1. Len(q) \in Nat
  BY LenProperties
<1>2. \A j \in 1..Len(q) : q[j].nextEv \in Nat
  BY ElementOfSeq
<1>3. PICK i \in I : \A j \in I : i <= j
  <2>1. I \subseteq Nat /\ Len(q) + 1 \in I
    BY <1>1
  <2> QED
    BY <2>1, MinExists
<1>4. ASSUME NEW j \in 1..(i - 1) PROVE q[j].nextEv < ev
  <2>1. j \in 1..Len(q) /\ j < i
    BY <1>1, <1>3
  <2> QED
    BY <1>1, <1>2, <1>3, <2>1
<1>5. \E k \in 1..(Len(q) + 1) :
        /\ \A j \in 1..(k - 1) : q[j].nextEv < ev
        /\ k <= Len(q) => q[k].nextEv >= ev
  BY <1>3, <1>4
<1> QED
  BY <1>5 DEF InsertPosition
=============================================================================
