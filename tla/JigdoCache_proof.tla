-------------------------- MODULE JigdoCache_proof --------------------------
(***************************************************************************)
(* Proofs about module JigdoCache.                                         *)
(***************************************************************************)
EXTENDS JigdoCache, TLAPS, WellFoundedInduction, SequenceTheorems

-----------------------------------------------------------------------------
(* The inductive invariant *)

\* All checksums
Sum ==
  {Junk} \union {Block(c, l, i) : c \in Contents, l \in Nat, i \in Nat}
  \union {HeadOf(c, l) : c \in Contents, l \in Nat}
  \union {Whole(c) : c \in Contents}

FileParts ==
  [size : Nat, mtime : Times, sums : Seq(Sum), rsync : Sum, md : Sum,
   mdValid : BOOLEAN, wasLookedUp : BOOLEAN, toBeWritten : BOOLEAN]

CacheEntries ==
  [size : Nat, mtime : Times, access : Times, blockLen : Nat \ {0},
   csumBlockLen : Nat \ {0}, rsync : Sum, md : Sum, sums : Seq(Sum)]

TypeInv ==
  /\ now \in Times /\ params \in Params \union {<< >>}
  /\ past \in [Files -> [Times -> Contents \union {NoContent}]]
  /\ disk \in [Files -> [content : Contents, mtime : Times] \union {NoFile}]
  /\ seen \in [Files -> SUBSET Contents] /\ used \in [Files -> Times]
  /\ nrOfFiles \in 0..(SizeTWord - 1)
  /\ part \in [Files -> FileParts \union {NoFile}]
  /\ db \in [Files -> CacheEntries \union {NoEntry}]

\* Has a file with this past been changed after it had this mtime?
Superseded(h, mtime) == \E t \in Times : t > mtime /\ h[t] # NoContent

\* Time goes on, and what is in a file is what was written last.
WorldOk(f) ==
  /\ \A t \in Times : t > now => past[f][t] = NoContent
  /\ disk[f] # NoFile =>
       /\ past[f][disk[f].mtime] = disk[f].content
       /\ ~Superseded(past[f], disk[f].mtime)

WorldInv == \A f \in Files : WorldOk(f)

BlocksOf(size, len) == (size + len - 1) \div len

\* All that is in an entry is of this content.
EntryGood(e, c) ==
  /\ e.rsync = HeadOf(c, e.blockLen)
  /\ \A i \in DOMAIN e.sums : e.sums[i] = Block(c, e.csumBlockLen, i)

\* An entry may have sums of a later content only if the file has changed, and
\* is not listed with that mtime.
EntryOk(f) ==
  db[f] # NoEntry =>
    LET e == db[f]
        c == past[f][e.mtime]
    IN /\ c \in Contents /\ e.size = SizeOf[c]
       /\ Len(e.sums) \in 1..BlocksOf(e.size, e.csumBlockLen)
       /\ e.access = used[f]
       /\ ~Superseded(past[f], e.mtime) => EntryGood(e, c)
       /\ Listed(f) /\ part[f].mtime = e.mtime => EntryGood(e, c)

EntryInv == \A f \in Files : EntryOk(f)

\* What a file contained when it had the mtime of its part, or later
Known(f) == seen[f] \union {past[f][part[f].mtime]}

\* With blocks of these lengths, the sums of a part are those of c: of its
\* head, or all.
SumsOf(blockLen, csumBlockLen, p, c) ==
  /\ p.sums[1] = Block(c, csumBlockLen, 1) /\ p.rsync = HeadOf(c, blockLen)
  /\ p.mdValid => /\ p.md = Whole(c)
                  /\ \A i \in DOMAIN p.sums :
                       p.sums[i] = Block(c, csumBlockLen, i)

\* The sums of a part are of a content that is known; it is that of the mtime,
\* unless the file has changed since.
PartOk(f) ==
  LET p == part[f]
      c == past[f][p.mtime]
  IN /\ p # NoFile =>
          /\ c \in Contents
          /\ disk[f] # NoFile => disk[f].content \in seen[f]
     /\ Listed(f) =>
          /\ p.size = SizeOf[c]
          /\ Len(p.sums) \in {0, BlocksOf(p.size, CsumBlockLen)}
          /\ p.sums = << >> => ~p.mdValid
          /\ p.sums # << >> =>
               \E x \in Known(f) :
                 /\ SumsOf(BlockLen, CsumBlockLen, p, x)
                 /\ ~Superseded(past[f], p.mtime) => x = c

PartInv == \A f \in Files : PartOk(f)

\* All files have more than one block.
LargeFiles == \A c \in Contents, p \in Params : SizeOf[c] > p[2]

\* An answer is about a content the file had; also that for the whole file, if
\* no file has one block only.
AnswerInv ==
  /\ ~Running => answer.value = NullPtr /\ \A f \in Files : part[f] = NoFile
  /\ answer.value # NullPtr =>
       /\ answer.file \in Files /\ part[answer.file] # NoFile
       /\ answer.kind # "whole" \/ LargeFiles =>
            \E c \in Known(answer.file) :
              answer.value = Contains(c, answer.kind, answer.block)

Inv == TypeInv /\ WorldInv /\ EntryInv /\ PartInv /\ AnswerInv

-----------------------------------------------------------------------------
(* Lemmas about operators *)

LEMMA SumFacts ==
  /\ Junk \in Sum
  /\ \A c \in Contents : Whole(c) \in Sum
  /\ \A c \in Contents, l \in Nat : HeadOf(c, l) \in Sum
  /\ \A c \in Contents, l \in Nat, i \in Nat : Block(c, l, i) \in Sum
BY DEF Sum

\* A set of numbers that is not empty has a least one.
LEMMA MinExists ==
  ASSUME NEW S, S \subseteq Nat, S # {}
  PROVE  \E m \in S : \A k \in S : m <= k
<1>1. PICK m \in S : \A k \in S : <<k, m>> \notin OpToRel(<, Nat)
  BY NatLessThanWellFounded, WFMin, Zenon
<1>2. \A k \in S : ~(k < m)
  <2> SUFFICES ASSUME NEW k \in S, k < m PROVE FALSE
    OBVIOUS
  <2>1. <<k, m>> \in Nat \X Nat /\ <<k, m>>[1] < <<k, m>>[2]
    OBVIOUS
  <2>2. <<k, m>> \in OpToRel(<, Nat)
    BY <2>1, Zenon DEF OpToRel
  <2> QED
    BY <1>1, <2>2
<1> QED
  BY <1>2

\* Division rounds down.
LEMMA DivFacts ==
  ASSUME NEW a \in Nat, NEW b \in Nat \ {0}
  PROVE  /\ a \div b \in Nat
         /\ a >= b => a \div b >= 1
         /\ a >= 2 * b => a \div b >= 2
<1> DEFINE q == a \div b
<1>1. a = b * q + (a % b) /\ q \in Int /\ a % b \in 0..(b - 1)
  OBVIOUS
<1>2. q >= 0
  <2> HIDE DEF q
  <2>1. q =< -1 => b * q =< b * (-1)
    BY <1>1
  <2> QED
    BY <1>1, <2>1
<1>3. a >= b => q >= 1
  <2> HIDE DEF q
  <2> QED
    BY <1>1, <1>2
<1>4. a >= 2 * b => q >= 2
  <2> HIDE DEF q
  <2>1. q = 1 => b * q = b
    BY <1>1
  <2>2. q = 0 => b * q = 0
    BY <1>1
  <2> QED
    BY <1>1, <1>2, <2>1, <2>2
<1> QED
  BY <1>1, <1>2, <1>3, <1>4

LEMMA BlocksFacts ==
  ASSUME NEW size \in Nat, NEW len \in Nat \ {0}
  PROVE  /\ BlocksOf(size, len) \in Nat
         /\ size > 0 => BlocksOf(size, len) >= 1
         /\ size > len => BlocksOf(size, len) >= 2
<1> DEFINE a == size + len - 1
<1>1. a \in Nat /\ (size > 0 => a >= len) /\ (size > len => a >= 2 * len)
  OBVIOUS
<1>2. BlocksOf(size, len) = a \div len
  BY DEF BlocksOf
<1> HIDE DEF a
<1> QED
  BY <1>1, <1>2, DivFacts

LEMMA ParamsFacts ==
  ASSUME CacheAssumption, params \in Params \union {<< >>}, Running
  PROVE  /\ params \in Params
         /\ BlockLen \in Nat \ {0} /\ CsumBlockLen \in Nat \ {0}
         /\ CheckFiles \in BOOLEAN
         /\ \A size : Blocks(size) = BlocksOf(size, CsumBlockLen)
<1>1. params \in Params
  BY DEF Running
<1>2. params \in (Nat \ {0}) \X (Nat \ {0}) \X BOOLEAN
  BY <1>1 DEF CacheAssumption
<1>3. params[1] \in Nat \ {0} /\ params[2] \in Nat \ {0} /\ params[3] \in BOOLEAN
  BY <1>2
<1> QED
  BY <1>1, <1>3 DEF BlockLen, CsumBlockLen, CheckFiles, Blocks, BlocksOf

\* The read that ends the head is one that completes the first block.
LEMMA HeadEndFacts ==
  ASSUME NEW actual \in Nat, HeadEnds(actual) # {}
  PROVE  HeadEnd(actual) \in Nat /\ HeadEnd(actual) >= CsumBlockLen
<1>1. HeadEnds(actual) \subseteq Nat
  BY DEF HeadEnds, ReadEnds
<1>2. \E o \in HeadEnds(actual) : \A q \in HeadEnds(actual) : o =< q
  BY <1>1, MinExists
<1>3. HeadEnd(actual) \in HeadEnds(actual)
  BY <1>2, Zenon DEF HeadEnd
<1> QED
  BY <1>1, <1>3 DEF HeadEnds

LEMMA NewPartFacts ==
  ASSUME NEW size \in Nat, NEW mtime \in Times
  PROVE  /\ NewPart(size, mtime) \in FileParts
         /\ NewPart(size, mtime) # NoFile
<1>1. << >> \in Seq(Sum)
  OBVIOUS
<1> QED
  BY <1>1, SumFacts DEF NewPart, FileParts, NoFile

-----------------------------------------------------------------------------
(* The world outside *)

LEMMA InitInv == CacheAssumption /\ Init => Inv
<1> SUFFICES ASSUME CacheAssumption, Init PROVE Inv
  OBVIOUS
<1> USE DEF CacheAssumption
<1>1. 0 \in Times /\ 1 \in Times /\ Times \subseteq Nat
  BY DEF Times
<1>2. PICK c \in [Files -> Contents] :
        /\ disk = [f \in Files |-> [content |-> c[f], mtime |-> 0]]
        /\ past = [f \in Files |->
                    [t \in Times |-> IF t = 0 THEN c[f] ELSE NoContent]]
  BY DEF Init
<1>3. TypeInv
  <2>1. disk \in [Files -> [content : Contents, mtime : Times] \union {NoFile}]
    BY <1>1, <1>2
  <2>2. past \in [Files -> [Times -> Contents \union {NoContent}]]
    BY <1>1, <1>2
  <2> QED
    BY <1>1, <2>1, <2>2 DEF Init, TypeInv, SizeTWord
<1>4. WorldInv
  BY <1>1, <1>2 DEF Init, WorldInv, WorldOk, Superseded
<1>5. EntryInv
  BY DEF Init, EntryInv, EntryOk
<1>6. PartInv
  BY DEF Init, PartInv, PartOk, Listed
<1>7. AnswerInv
  BY DEF Init, AnswerInv, Running, NoAnswer
<1> QED
  BY <1>3, <1>4, <1>5, <1>6, <1>7 DEF Inv

LEMMA TickInv ==
  ASSUME CacheAssumption, Inv, Tick
  PROVE  Inv'
<1> USE DEF Inv, Tick, envVars, runVars
<1>1. now' \in Times /\ now' > now /\ Times \subseteq Nat
  BY DEF TypeInv, Times, CacheAssumption
<1>2. TypeInv'
  BY <1>1 DEF TypeInv
<1>3. WorldInv'
  BY <1>1 DEF TypeInv, WorldInv, WorldOk
<1>4. EntryInv'
  BY DEF EntryInv, EntryOk, Listed, Deleted
<1>5. PartInv'
  BY DEF PartInv, PartOk, Listed, Deleted, Known, BlockLen, CsumBlockLen
<1>6. AnswerInv'
  BY DEF AnswerInv, Running, Known, Contains, BlockLen, CsumBlockLen
<1> QED
  BY <1>2, <1>3, <1>4, <1>5, <1>6

LEMMA StutterInv ==
  ASSUME Inv, UNCHANGED vars
  PROVE  Inv'
<1> USE DEF Inv, vars, envVars, runVars
<1>1. TypeInv' /\ WorldInv'
  BY DEF TypeInv, WorldInv, WorldOk
<1>2. EntryInv'
  BY DEF EntryInv, EntryOk, Listed, Deleted
<1>3. PartInv'
  BY DEF PartInv, PartOk, Listed, Deleted, Known, BlockLen, CsumBlockLen
<1>4. AnswerInv'
  BY DEF AnswerInv, Running, Known, Contains, BlockLen, CsumBlockLen
<1> QED
  BY <1>1, <1>2, <1>3, <1>4

LEMMA RemoveInv ==
  ASSUME CacheAssumption, Inv, NEW f \in Files, Remove(f)
  PROVE  Inv'
<1> USE DEF Inv, Remove, runVars
<1>1. disk' = [disk EXCEPT ![f] = NoFile]
  OBVIOUS
<1>2. \A g \in Files : disk'[g] = IF g = f THEN NoFile ELSE disk[g]
  BY DEF TypeInv
<1>3. TypeInv'
  BY DEF TypeInv
<1>4. WorldInv'
  BY <1>2 DEF WorldInv, WorldOk
<1>5. EntryInv'
  BY DEF EntryInv, EntryOk, Listed, Deleted
<1>6. PartInv'
  BY <1>2 DEF PartInv, PartOk, Listed, Deleted, Known, BlockLen, CsumBlockLen
<1>7. AnswerInv'
  BY DEF AnswerInv, Running, Known, Contains, BlockLen, CsumBlockLen
<1> QED
  BY <1>3, <1>4, <1>5, <1>6, <1>7

\* The time at which f is modified is not that of its part or of its entry, and
\* what was known is not forgotten.
LEMMA ModifyInv ==
  ASSUME CacheAssumption, Inv, NEW f \in Files, Modify(f)
  PROVE  Inv'
<1> USE DEF Inv
<1>1. PICK c \in Contents :
        /\ disk' = [disk EXCEPT ![f] = [content |-> c, mtime |-> now]]
        /\ past' = [past EXCEPT ![f][now] = c]
        /\ seen' = [seen EXCEPT ![f] = IF part[f] = NoFile THEN @
                                       ELSE @ \union {c}]
  BY DEF Modify
<1>2. /\ past[f][now] = NoContent
      /\ UNCHANGED <<now, db, used, params, part, nrOfFiles, answer>>
  BY DEF Modify
<1>3. /\ now \in Times /\ Times \subseteq Nat /\ NoContent \notin Contents
  BY DEF TypeInv, Times, CacheAssumption
<1>4. \A g \in Files, t \in Times :
        past'[g][t] = IF g = f /\ t = now THEN c ELSE past[g][t]
  BY <1>1, <1>3 DEF TypeInv
<1>5. \A g \in Files : /\ past[g] \in [Times -> Contents \union {NoContent}]
                       /\ g # f => /\ disk'[g] = disk[g] /\ seen'[g] = seen[g]
                                   /\ past'[g] = past[g]
                       /\ seen[g] \subseteq seen'[g]
  BY <1>1 DEF TypeInv
<1>6. /\ disk'[f] = [content |-> c, mtime |-> now]
      /\ part[f] # NoFile => c \in seen'[f]
  BY <1>1 DEF TypeInv
<1>7. TypeInv'
  <2>1. past' \in [Files -> [Times -> Contents \union {NoContent}]]
    BY <1>1, <1>3 DEF TypeInv
  <2>2. disk' \in [Files -> [content : Contents, mtime : Times] \union {NoFile}]
    BY <1>1, <1>3 DEF TypeInv
  <2>3. seen' \in [Files -> SUBSET Contents]
    BY <1>1, <1>3 DEF TypeInv
  <2> QED
    BY <1>2, <2>1, <2>2, <2>3 DEF TypeInv
<1>8. \A g \in Files, t \in Times :
        /\ past[g][t] # NoContent => past'[g][t] = past[g][t]
        /\ past[g][t] \in Contents => past'[g][t] = past[g][t]
        /\ Superseded(past[g], t) => Superseded(past'[g], t)
  BY <1>2, <1>3, <1>4 DEF Superseded
<1>9. WorldInv'
  <2> SUFFICES ASSUME NEW g \in Files PROVE WorldOk(g)'
    BY DEF WorldInv
  <2>1. CASE g = f
    <3>1. \A t \in Times : t > now => past'[f][t] = NoContent
      BY <1>3, <1>4 DEF WorldInv, WorldOk
    <3>2. past'[f][now] = c /\ ~Superseded(past'[f], now)
      BY <1>3, <1>4, <3>1 DEF Superseded
    <3> QED
      BY <1>2, <1>6, <2>1, <3>1, <3>2 DEF WorldOk
  <2>2. CASE g # f
    BY <1>2, <1>5, <2>2 DEF WorldInv, WorldOk
  <2> QED
    BY <2>1, <2>2
<1>10. EntryInv'
  <2> SUFFICES ASSUME NEW g \in Files, db[g] # NoEntry PROVE EntryOk(g)'
    BY <1>2 DEF EntryInv, EntryOk
  <2>1. db'[g] = db[g] /\ db[g].mtime \in Times
    BY <1>2 DEF TypeInv, CacheEntries
  <2>2. EntryOk(g)
    BY DEF EntryInv
  <2>3. past'[g][db[g].mtime] = past[g][db[g].mtime]
    BY <1>8, <2>1, <2>2 DEF EntryOk
  <2>4. Listed(g)' <=> Listed(g)
    BY <1>2 DEF Listed, Deleted
  <2> QED
    BY <1>2, <1>8, <2>1, <2>2, <2>3, <2>4 DEF EntryOk
<1>11. \A g \in Files : part[g] # NoFile =>
         /\ part[g].mtime \in Times
         /\ past'[g][part[g].mtime] = past[g][part[g].mtime]
         /\ Known(g) \subseteq Known(g)'
  <2> SUFFICES ASSUME NEW g \in Files, part[g] # NoFile
               PROVE  /\ part[g].mtime \in Times
                      /\ past'[g][part[g].mtime] = past[g][part[g].mtime]
                      /\ Known(g) \subseteq Known(g)'
    OBVIOUS
  <2>1. part[g].mtime \in Times
    BY DEF TypeInv, FileParts
  <2>2. past'[g][part[g].mtime] = past[g][part[g].mtime]
    BY <1>8, <2>1 DEF PartInv, PartOk
  <2> QED
    BY <1>2, <1>5, <2>1, <2>2 DEF Known
<1>12. PartInv'
  <2> SUFFICES ASSUME NEW g \in Files, part[g] # NoFile PROVE PartOk(g)'
    BY <1>2 DEF PartInv, PartOk, Listed
  <2>1. part'[g] = part[g] /\ (Listed(g)' <=> Listed(g))
    BY <1>2 DEF Listed, Deleted
  <2>2. PartOk(g)
    BY DEF PartInv
  <2>3. BlockLen' = BlockLen /\ CsumBlockLen' = CsumBlockLen
    BY <1>2 DEF BlockLen, CsumBlockLen
  <2>4. disk'[g] # NoFile => disk'[g].content \in seen'[g]
    BY <1>5, <1>6, <2>2 DEF PartOk
  <2>5. \A x : x \in Known(g) => x \in Known(g)'
    BY <1>11
  <2> DEFINE m == part[g].mtime
  <2>6. /\ m \in Times /\ past'[g][m] = past[g][m]
        /\ ~Superseded(past'[g], m) => ~Superseded(past[g], m)
    BY <1>8, <1>11
  <2> QED
    BY <2>1, <2>2, <2>3, <2>4, <2>5, <2>6 DEF PartOk
<1>13. AnswerInv'
  <2>1. answer' = answer /\ part' = part /\ (Running' <=> Running)
    BY <1>2 DEF Running
  <2>2. \A x, k, b : Contains(x, k, b)' = Contains(x, k, b)
    BY <1>2 DEF Contains, BlockLen, CsumBlockLen
  <2> QED
    BY <1>11, <2>1, <2>2 DEF AnswerInv
<1> QED
  BY <1>7, <1>9, <1>10, <1>12, <1>13

-----------------------------------------------------------------------------
(* Runs of the program *)

LEMMA StartRunInv ==
  ASSUME CacheAssumption, Inv, StartRun
  PROVE  Inv'
<1> USE DEF Inv, StartRun, envVars
<1>1. \A f \in Files : part[f] = NoFile
  BY DEF AnswerInv
<1>2. TypeInv'
  BY DEF TypeInv
<1>3. WorldInv'
  BY DEF WorldInv, WorldOk
<1>4. EntryInv'
  BY <1>1 DEF EntryInv, EntryOk, Listed
<1>5. PartInv'
  BY <1>1 DEF PartInv, PartOk, Listed
<1>6. AnswerInv'
  BY <1>1 DEF AnswerInv
<1> QED
  BY <1>2, <1>3, <1>4, <1>5, <1>6

LEMMA KillInv ==
  ASSUME CacheAssumption, Inv, Kill
  PROVE  Inv'
<1> USE DEF Inv, Kill, Gone, envVars
<1>1. /\ part' = [f \in Files |-> NoFile] /\ params' = << >>
      /\ answer' = NoAnswer /\ seen' = [f \in Files |-> {}]
      /\ UNCHANGED <<now, disk, past, db, used>>
  OBVIOUS
<1>2. TypeInv'
  BY <1>1 DEF TypeInv, SizeTWord
<1>3. WorldInv'
  BY <1>1 DEF WorldInv, WorldOk
<1>4. EntryInv'
  BY <1>1 DEF EntryInv, EntryOk, Listed
<1>5. PartInv'
  BY <1>1 DEF PartInv, PartOk, Listed
<1>6. AnswerInv'
  BY <1>1 DEF AnswerInv, NoAnswer
<1> QED
  BY <1>2, <1>3, <1>4, <1>5, <1>6

\* The entry that is written for a part
LEMMA EntryFacts ==
  ASSUME CacheAssumption, Inv, Running, CanBeWritten,
         NEW f \in Files, ToBeInserted(f)
  PROVE  LET e == Entry(f, part[f])
             c == past[f][part[f].mtime]
         IN /\ e \in CacheEntries
            /\ e.mtime = part[f].mtime /\ e.access = now
            /\ c \in Contents /\ e.size = SizeOf[c]
            /\ Len(e.sums) \in 1..BlocksOf(e.size, e.csumBlockLen)
            /\ ~Superseded(past[f], e.mtime) => EntryGood(e, c)
<1> DEFINE p == part[f]
           c == past[f][p.mtime]
           e == Entry(f, p)
           sums == IF p.mdValid THEN p.sums ELSE <<p.sums[1]>>
<1>1. /\ p \in FileParts /\ p # NoFile /\ p.size # 0 /\ p.sums # << >>
      /\ PartOk(f) /\ Listed(f)
  BY DEF ToBeInserted, CanBeWritten, Listed, Deleted, Inv, TypeInv, PartInv
<1>2. /\ p.size \in Nat /\ p.mtime \in Times /\ p.sums \in Seq(Sum)
      /\ p.rsync \in Sum /\ p.md \in Sum /\ p.mdValid \in BOOLEAN
  BY <1>1 DEF FileParts
<1>3. Len(p.sums) \in Nat \ {0} /\ DOMAIN p.sums = 1..Len(p.sums)
  BY <1>1, <1>2, EmptySeq, LenProperties
<1>4. PICK x \in Known(f) : /\ SumsOf(BlockLen, CsumBlockLen, p, x)
                            /\ ~Superseded(past[f], p.mtime) => x = c
  BY <1>1 DEF PartOk
<1>5. /\ BlockLen \in Nat \ {0} /\ CsumBlockLen \in Nat \ {0} /\ now \in Times
  BY ParamsFacts DEF Inv, TypeInv
<1>6. /\ e.size = p.size /\ e.mtime = p.mtime /\ e.access = now
      /\ e.blockLen = BlockLen /\ e.csumBlockLen = CsumBlockLen
      /\ e.rsync = p.rsync /\ e.md = p.md /\ e.sums = sums
  BY DEF Entry
<1>7. p.sums[1] \in Sum /\ sums \in Seq(Sum)
  <2>1. 1 \in 1..Len(p.sums)
    BY <1>3
  <2>2. p.sums[1] \in Sum
    BY <1>2, <2>1, ElementOfSeq
  <2> QED
    BY <1>2, <2>2
<1>8. Len(sums) \in 1..BlocksOf(p.size, CsumBlockLen)
  <2>1. Len(p.sums) = BlocksOf(p.size, CsumBlockLen)
    BY <1>1, <1>3 DEF PartOk
  <2>2. CASE p.mdValid
    BY <1>3, <2>1, <2>2
  <2>3. CASE ~p.mdValid
    BY <1>3, <2>1, <2>3
  <2> QED
    BY <2>2, <2>3
<1>9. e \in CacheEntries
  BY <1>2, <1>5, <1>7 DEF Entry, CacheEntries
<1>10. c \in Contents /\ p.size = SizeOf[c]
  BY <1>1 DEF PartOk
<1>11. ASSUME ~Superseded(past[f], p.mtime) PROVE EntryGood(e, c)
  <2>1. x = c
    BY <1>4, <1>11
  <2>2. \A i \in DOMAIN sums : sums[i] = Block(c, CsumBlockLen, i)
    <3>1. CASE p.mdValid
      BY <1>4, <2>1, <3>1 DEF SumsOf
    <3>2. CASE ~p.mdValid
      BY <1>4, <2>1, <3>2 DEF SumsOf
    <3> QED
      BY <3>1, <3>2
  <2> QED
    BY <1>4, <1>6, <2>1, <2>2 DEF EntryGood, SumsOf
<1> HIDE DEF p, c, e, sums
<1>12. /\ e \in CacheEntries /\ e.mtime = p.mtime /\ e.access = now
       /\ c \in Contents /\ e.size = SizeOf[c]
       /\ Len(e.sums) \in 1..BlocksOf(e.size, e.csumBlockLen)
       /\ ~Superseded(past[f], e.mtime) => EntryGood(e, c)
  BY <1>6, <1>8, <1>9, <1>10, <1>11
<1> QED
  BY <1>12 DEF p, c, e

LEMMA EndRunInv ==
  ASSUME CacheAssumption, Inv, EndRun
  PROVE  Inv'
<1> USE DEF Inv
<1>1. /\ part' = [f \in Files |-> NoFile] /\ params' = << >>
      /\ answer' = NoAnswer /\ seen' = [f \in Files |-> {}]
      /\ nrOfFiles' = 0 /\ UNCHANGED <<now, disk, past>>
      /\ Running /\ CanBeWritten
  BY DEF EndRun, Gone, envVars
<1>2. \A f \in Files :
        /\ ToBeInserted(f) => db'[f] \in {Entry(f, part[f]), NoEntry}
        /\ ~ToBeInserted(f) => db'[f] \in {db[f], NoEntry}
        /\ used'[f] = IF ToBeInserted(f) THEN now ELSE used[f]
  BY DEF EndRun
<1>3. \A f \in Files : ToBeInserted(f) => Entry(f, part[f]) \in CacheEntries
  BY <1>1, EntryFacts
<1>4. TypeInv'
  <2>1. db' \in [Files -> CacheEntries \union {NoEntry}]
    <3>1. \A f \in Files : db'[f] \in CacheEntries \union {NoEntry}
      BY <1>2, <1>3 DEF TypeInv
    <3>2. db' = [f \in Files |-> db'[f]]
      BY DEF EndRun
    <3> QED
      BY <3>1, <3>2
  <2>2. used' \in [Files -> Times]
    BY DEF EndRun, TypeInv
  <2> QED
    BY <1>1, <2>1, <2>2 DEF TypeInv, SizeTWord
<1>5. WorldInv'
  BY <1>1 DEF WorldInv, WorldOk
<1>6. EntryInv'
  <2> SUFFICES ASSUME NEW f \in Files, db'[f] # NoEntry PROVE EntryOk(f)'
    BY DEF EntryInv, EntryOk
  <2>1. ~Listed(f)'
    BY <1>1 DEF Listed
  <2>2. CASE ToBeInserted(f)
    <3> DEFINE e == Entry(f, part[f])
               c == past[f][part[f].mtime]
    <3>1. db'[f] = e /\ used'[f] = now
      BY <1>2, <2>2
    <3>2. /\ e.mtime = part[f].mtime /\ e.access = now
          /\ c \in Contents /\ e.size = SizeOf[c]
          /\ Len(e.sums) \in 1..BlocksOf(e.size, e.csumBlockLen)
          /\ ~Superseded(past[f], e.mtime) => EntryGood(e, c)
      BY <1>1, <2>2, EntryFacts
    <3> HIDE DEF e
    <3> QED
      BY <1>1, <2>1, <3>1, <3>2 DEF EntryOk
  <2>3. CASE ~ToBeInserted(f)
    BY <1>1, <1>2, <2>1, <2>3 DEF EntryInv, EntryOk
  <2> QED
    BY <2>2, <2>3
<1>7. PartInv'
  BY <1>1 DEF PartInv, PartOk, Listed
<1>8. AnswerInv'
  BY <1>1 DEF AnswerInv, NoAnswer
<1> QED
  BY <1>4, <1>5, <1>6, <1>7, <1>8

\* A file is listed as it is; with --no-check-files it counts as empty, and
\* nothing is asked about it.
LEMMA ReadFilenameInv ==
  ASSUME CacheAssumption, Inv, NEW f \in Files, ReadFilename(f)
  PROVE  Inv'
<1> USE DEF Inv
<1>1. /\ Running /\ part[f] = NoFile
      /\ seen' = [seen EXCEPT ![f] = IF disk[f] = NoFile THEN {}
                                     ELSE {disk[f].content}]
      /\ UNCHANGED <<now, disk, past, params, nrOfFiles, answer>>
  BY DEF ReadFilename, envVars
<1>2. \/ /\ disk[f] # NoFile
         /\ part' = [part EXCEPT ![f] =
                      NewPart(SizeOf[disk[f].content], disk[f].mtime)]
         /\ UNCHANGED <<db, used>>
      \/ /\ db[f] # NoEntry
         /\ part' = [part EXCEPT ![f] = NewPart(SizeNotRead, db[f].mtime)]
         /\ db' = [db EXCEPT ![f] = Accessed(f)]
         /\ used' = [used EXCEPT ![f] = now]
  BY DEF ReadFilename
<1>3. /\ disk[f] # NoFile => /\ disk[f].content \in Contents
                             /\ disk[f].mtime \in Times
                             /\ SizeOf[disk[f].content] \in Nat
      /\ db[f] # NoEntry => db[f] \in CacheEntries /\ db[f].mtime \in Times
      /\ now \in Times /\ NoContent \notin Contents
  BY DEF TypeInv, CacheAssumption, CacheEntries
<1>4. db[f] # NoEntry =>
        /\ Accessed(f) \in CacheEntries
        /\ Accessed(f) # NoEntry
        /\ Accessed(f).access = now
        /\ Accessed(f).mtime = db[f].mtime /\ Accessed(f).size = db[f].size
        /\ Accessed(f).blockLen = db[f].blockLen
        /\ Accessed(f).csumBlockLen = db[f].csumBlockLen
        /\ Accessed(f).rsync = db[f].rsync /\ Accessed(f).sums = db[f].sums
  BY <1>3 DEF Accessed, CacheEntries, NoEntry
<1>5. \A g \in Files : g # f => /\ part'[g] = part[g] /\ seen'[g] = seen[g]
                                /\ db'[g] = db[g] /\ used'[g] = used[g]
  BY <1>1, <1>2 DEF TypeInv
<1>6. /\ seen'[f] \subseteq Contents
      /\ disk[f] # NoFile => disk[f].content \in seen'[f]
  BY <1>1, <1>3 DEF TypeInv
<1>7. \/ /\ disk[f] # NoFile /\ db'[f] = db[f] /\ used'[f] = used[f]
         /\ part'[f] = NewPart(SizeOf[disk[f].content], disk[f].mtime)
      \/ /\ db[f] # NoEntry /\ db'[f] = Accessed(f) /\ used'[f] = now
         /\ part'[f] = NewPart(SizeNotRead, db[f].mtime)
  BY <1>2 DEF TypeInv
<1>8. part'[f] \in FileParts /\ part'[f] # NoFile /\ part'[f].sums = << >>
  <2>1. \A size \in Nat, m \in Times : NewPart(size, m).sums = << >>
    BY DEF NewPart
  <2>2. SizeNotRead \in Nat
    BY DEF SizeNotRead
  <2> QED
    BY <1>3, <1>7, <2>1, <2>2, NewPartFacts
<1>9. TypeInv'
  <2>1. part' \in [Files -> FileParts \union {NoFile}]
    BY <1>2, <1>8 DEF TypeInv
  <2>2. seen' \in [Files -> SUBSET Contents]
    BY <1>1, <1>3 DEF TypeInv
  <2>3. db' \in [Files -> CacheEntries \union {NoEntry}]
    BY <1>2, <1>4 DEF TypeInv
  <2>4. used' \in [Files -> Times]
    BY <1>2, <1>3 DEF TypeInv
  <2> QED
    BY <1>1, <2>1, <2>2, <2>3, <2>4 DEF TypeInv
<1>10. WorldInv'
  BY <1>1 DEF WorldInv, WorldOk
<1>11. ASSUME disk[f] # NoFile, db'[f] = db[f], used'[f] = used[f],
              part'[f] = NewPart(SizeOf[disk[f].content], disk[f].mtime)
       PROVE  EntryOk(f)' /\ PartOk(f)'
  <2>1. /\ past[f][disk[f].mtime] = disk[f].content
        /\ ~Superseded(past[f], disk[f].mtime)
    BY <1>11 DEF WorldInv, WorldOk
  <2>2. /\ part'[f].mtime = disk[f].mtime /\ part'[f].sums = << >>
        /\ part'[f].size = SizeOf[disk[f].content] /\ ~part'[f].mdValid
    BY <1>11 DEF NewPart
  <2>3. EntryOk(f)'
    BY <1>1, <1>11, <2>1, <2>2 DEF EntryInv, EntryOk
  <2>4. /\ past'[f][part'[f].mtime] = disk[f].content /\ Len(part'[f].sums) = 0
        /\ disk'[f] = disk[f]
    BY <1>1, <2>1, <2>2
  <2>5. PartOk(f)'
    BY <1>3, <1>6, <1>11, <2>2, <2>4 DEF PartOk
  <2> QED
    BY <2>3, <2>5
<1>12. ASSUME db[f] # NoEntry, db'[f] = Accessed(f), used'[f] = now,
              part'[f] = NewPart(SizeNotRead, db[f].mtime)
       PROVE  EntryOk(f)' /\ PartOk(f)'
  <2>1. part'[f].size = 0 /\ part'[f].mtime = db[f].mtime
    BY <1>12 DEF NewPart, SizeNotRead
  <2>2. ~Listed(f)'
    BY <2>1 DEF Listed, Deleted
  <2>3. EntryOk(f)
    BY DEF EntryInv
  <2>4. EntryOk(f)'
    BY <1>1, <1>4, <1>12, <2>2, <2>3 DEF EntryOk, EntryGood
  <2>5. PartOk(f)'
    BY <1>1, <1>6, <1>12, <2>1, <2>2, <2>3 DEF PartOk, EntryOk
  <2> QED
    BY <2>4, <2>5
<1>13. EntryOk(f)' /\ PartOk(f)'
  BY <1>7, <1>11, <1>12
<1>14. EntryInv'
  <2> SUFFICES ASSUME NEW g \in Files, g # f PROVE EntryOk(g)'
    BY <1>13 DEF EntryInv
  <2> QED
    BY <1>1, <1>5 DEF EntryInv, EntryOk, Listed, Deleted
<1>15. PartInv'
  <2> SUFFICES ASSUME NEW g \in Files, g # f PROVE PartOk(g)'
    BY <1>13 DEF PartInv
  <2> QED
    BY <1>1, <1>5 DEF PartInv, PartOk, Listed, Deleted, Known, BlockLen,
                      CsumBlockLen
<1>16. AnswerInv'
  <2>1. \A x, k, b : Contains(x, k, b)' = Contains(x, k, b)
    BY <1>1 DEF Contains, BlockLen, CsumBlockLen
  <2>2. Running'
    BY <1>1 DEF Running
  <2>3. answer.value # NullPtr =>
          /\ answer.file # f /\ part'[answer.file] = part[answer.file]
          /\ Known(answer.file)' = Known(answer.file)
    BY <1>1, <1>5 DEF AnswerInv, Known
  <2> QED
    BY <1>1, <2>1, <2>2, <2>3 DEF AnswerInv
<1> QED
  BY <1>9, <1>10, <1>14, <1>15, <1>16

-----------------------------------------------------------------------------
(* FilePart::getChecksumsRead *)

\* What a part is while its sums are looked for: there is a place for each, and
\* that of the whole is not known.
Sought(f, p) ==
  /\ p \in FileParts /\ p.size = part[f].size /\ p.mtime = part[f].mtime
  /\ Len(p.sums) = BlocksOf(p.size, CsumBlockLen) /\ ~p.mdValid

\* What a part is afterwards, if the sum of block blockNr was wanted
Filled(f, p, blockNr) ==
  /\ p \in FileParts /\ p.size = part[f].size /\ p.mtime = part[f].mtime
  /\ Len(p.sums) = BlocksOf(p.size, CsumBlockLen)
  /\ blockNr > 0 => p.mdValid
  /\ \E x \in Known(f) :
       /\ SumsOf(BlockLen, CsumBlockLen, p, x)
       /\ ~Superseded(past[f], p.mtime) => x = past[f][p.mtime]

\* The state in which sums are looked for
Seeking(f) ==
  /\ CacheAssumption /\ Inv /\ Running /\ f \in Files /\ Listed(f)
  /\ ~part[f].mdValid

LEMMA SeekingFacts ==
  ASSUME NEW f, Seeking(f)
  PROVE  /\ f \in Files /\ part[f] \in FileParts /\ part[f] # NoFile
         /\ part[f].size \in Nat \ {0} /\ part[f].mtime \in Times
         /\ part[f].sums \in Seq(Sum)
         /\ past[f][part[f].mtime] \in Contents
         /\ part[f].size = SizeOf[past[f][part[f].mtime]]
         /\ past[f][part[f].mtime] \in Known(f)
         /\ BlockLen \in Nat \ {0} /\ CsumBlockLen \in Nat \ {0}
         /\ params \in Params
         /\ Blocks(part[f].size) = BlocksOf(part[f].size, CsumBlockLen)
         /\ BlocksOf(part[f].size, CsumBlockLen) \in Nat \ {0}
<1>1. CacheAssumption /\ Inv /\ Running /\ f \in Files /\ Listed(f)
  BY DEF Seeking
<1>2. /\ part[f] \in FileParts /\ part[f] # NoFile /\ part[f].size # 0
      /\ PartOk(f)
  BY <1>1 DEF Listed, Deleted, Inv, TypeInv, PartInv
<1>3. part[f].size \in Nat \ {0} /\ part[f].mtime \in Times
      /\ part[f].sums \in Seq(Sum)
  BY <1>2 DEF FileParts
<1>4. /\ BlockLen \in Nat \ {0} /\ CsumBlockLen \in Nat \ {0}
      /\ params \in Params
      /\ Blocks(part[f].size) = BlocksOf(part[f].size, CsumBlockLen)
  BY <1>1, ParamsFacts DEF Inv, TypeInv
<1>5. BlocksOf(part[f].size, CsumBlockLen) \in Nat \ {0}
  <2> DEFINE size == part[f].size
             len == CsumBlockLen
  <2>1. size \in Nat /\ size > 0 /\ len \in Nat \ {0}
    BY <1>3, <1>4
  <2> HIDE DEF size, len
  <2>2. BlocksOf(size, len) \in Nat \ {0}
    BY <2>1, BlocksFacts
  <2> QED
    BY <2>2 DEF size, len
<1>6. /\ past[f][part[f].mtime] \in Contents
      /\ part[f].size = SizeOf[past[f][part[f].mtime]]
  BY <1>1, <1>2 DEF PartOk
<1> QED
  BY <1>1, <1>2, <1>3, <1>4, <1>5, <1>6 DEF Known

LEMMA ResizedFacts ==
  ASSUME NEW f, Seeking(f)
  PROVE  Sought(f, [Resized(part[f]) EXCEPT !.wasLookedUp = TRUE])
<1> DEFINE p == part[f]
           n == BlocksOf(p.size, CsumBlockLen)
           sums == [i \in 1..n |-> IF i \in DOMAIN p.sums THEN p.sums[i] ELSE Junk]
<1>1. p \in FileParts /\ p.sums \in Seq(Sum) /\ n \in Nat /\ Blocks(p.size) = n
  BY SeekingFacts
<1>2. sums \in Seq(Sum) /\ Len(sums) = n
  <2>1. \A i \in DOMAIN p.sums : p.sums[i] \in Sum
    BY <1>1, ElementOfSeq, LenProperties
  <2>2. sums \in [1..n -> Sum]
    BY <2>1, SumFacts
  <2> QED
    BY <1>1, <2>2
<1>3. Resized(p) = [p EXCEPT !.sums = sums]
  BY <1>1 DEF Resized
<1> HIDE DEF n, sums
<1>4. [[p EXCEPT !.sums = sums] EXCEPT !.wasLookedUp = TRUE] \in FileParts
  BY <1>1, <1>2 DEF FileParts
<1>5. ~p.mdValid
  BY DEF Seeking
<1> QED
  BY <1>1, <1>2, <1>3, <1>4, <1>5 DEF Sought, FileParts, n

\* What an entry of the cache gives.  It never counts as complete, as the
\* number of its blocks is compared with that of two vectors together.
LEMMA UnserializedFacts ==
  ASSUME NEW f, Seeking(f), NEW p, Sought(f, p), Matches(f, p),
         NEW blockNr \in Nat
  PROVE  /\ Sought(f, Unserialized(p, db[f]))
         /\ Suffices(Unserialized(p, db[f]), db[f], blockNr) =>
              Filled(f, Unserialized(p, db[f]), blockNr)
<1> DEFINE e == db[f]
           c == past[f][p.mtime]
           n == BlocksOf(p.size, CsumBlockLen)
<1>1. /\ e # NoEntry /\ e.mtime = p.mtime /\ e.size = p.size
  BY DEF Matches
<1>2. /\ e \in CacheEntries /\ EntryOk(f)
  BY <1>1, SeekingFacts DEF Seeking, Inv, TypeInv, EntryInv
<1>3. /\ p \in FileParts /\ p.sums \in Seq(Sum) /\ p.mtime = part[f].mtime
      /\ Len(p.sums) = n /\ ~p.mdValid /\ n \in Nat \ {0}
  BY SeekingFacts DEF Sought, FileParts
<1>4. /\ e.sums \in Seq(Sum) /\ e.rsync \in Sum
      /\ e.md \in Sum /\ Len(e.sums) \in 1..BlocksOf(e.size, e.csumBlockLen)
      /\ EntryGood(e, c)
  BY <1>1, <1>2, <1>3 DEF CacheEntries, EntryOk, Seeking
<1>5. CASE e.csumBlockLen # CsumBlockLen
  BY <1>5 DEF Unserialized, Suffices
<1>6. CASE e.csumBlockLen = CsumBlockLen
  <2> DEFINE q == Unserialized(p, e)
             sums == [i \in DOMAIN p.sums |-> IF i \in DOMAIN e.sums
                                              THEN e.sums[i] ELSE p.sums[i]]
  <2>1. Len(e.sums) \in 1..n
    BY <1>1, <1>4, <1>6
  <2>2. ~AllPresent(e, p)
    BY <1>3, <2>1 DEF AllPresent
  <2>3. q = [p EXCEPT !.rsync = e.rsync, !.mdValid = FALSE, !.md = p.md,
                      !.sums = sums]
    <3>1. q = [p EXCEPT !.rsync = e.rsync, !.mdValid = AllPresent(e, p),
                        !.md = IF AllPresent(e, p) THEN e.md ELSE p.md,
                        !.sums = sums]
      BY <1>6 DEF Unserialized
    <3>2. AllPresent(e, p) = FALSE
      BY <2>2 DEF AllPresent
    <3> QED
      BY <3>1, <3>2, Zenon
  <2>4. sums \in Seq(Sum) /\ Len(sums) = n
    <3>1. DOMAIN p.sums = 1..n /\ \A i \in 1..n : p.sums[i] \in Sum
      BY <1>3, ElementOfSeq, LenProperties
    <3>2. \A i \in DOMAIN e.sums : e.sums[i] \in Sum
      BY <1>4, ElementOfSeq, LenProperties
    <3>3. sums \in [1..n -> Sum]
      BY <3>1, <3>2
    <3> QED
      BY <1>3, <3>3
  <2>5. sums[1] = Block(c, CsumBlockLen, 1)
    <3>1. 1 \in DOMAIN p.sums /\ 1 \in DOMAIN e.sums
      BY <1>3, <1>4, <2>1, LenProperties
    <3> QED
      BY <1>4, <1>6, <3>1 DEF EntryGood
  <2> HIDE DEF sums
  <2>6. /\ q \in FileParts /\ q.size = p.size /\ q.mtime = p.mtime
        /\ q.sums = sums /\ q.rsync = e.rsync /\ ~q.mdValid
    BY <1>3, <1>4, <2>3, <2>4 DEF FileParts
  <2>7. Sought(f, q)
    BY <2>4, <2>6 DEF Sought
  <2>8. ASSUME Suffices(q, e, blockNr) PROVE Filled(f, q, blockNr)
    <3>1. e.blockLen = BlockLen /\ blockNr = 0
      BY <2>6, <2>8 DEF Suffices
    <3>2. SumsOf(BlockLen, CsumBlockLen, q, c)
      BY <1>4, <2>5, <2>6, <3>1 DEF SumsOf, EntryGood
    <3>3. c \in Known(f)
      BY <1>3, SeekingFacts
    <3>4. ~(blockNr > 0)
      BY <3>1
    <3> HIDE DEF q
    <3> QED
      BY <2>4, <2>6, <3>2, <3>3, <3>4, <1>3 DEF Filled, Sought
  <2> QED
    BY <2>7, <2>8
<1> QED
  BY <1>5, <1>6

\* What reading the file gives, or that it is dropped.
LEMMA FromFileFacts ==
  ASSUME NEW f, Seeking(f), NEW p, Sought(f, p), NEW blockNr \in Nat,
         NEW q \in FromFile(f, p, blockNr)
  PROVE  \/ Filled(f, q, blockNr)
         \/ q \in FileParts /\ q.mtime = p.mtime /\ Deleted(q)
<1> DEFINE w == [p EXCEPT !.toBeWritten = TRUE]
           c == disk[f].content
           n == BlocksOf(p.size, CsumBlockLen)
           result == ReadResult(p, SizeOf[c], blockNr)
<1>1. /\ p \in FileParts /\ p.sums \in Seq(Sum) /\ p.mtime = part[f].mtime
      /\ Len(p.sums) = n /\ ~p.mdValid /\ n \in Nat \ {0}
      /\ p.size = part[f].size /\ p.md \in Sum /\ p.rsync \in Sum
  BY SeekingFacts DEF Sought, FileParts
<1>2. /\ w \in FileParts /\ w.sums = p.sums /\ w.mtime = p.mtime
      /\ w.size = p.size /\ w.mdValid = p.mdValid
  BY <1>1 DEF FileParts
<1>3. \A x \in FileParts :
        /\ MarkedAsDeleted(x) \in FileParts /\ Deleted(MarkedAsDeleted(x))
        /\ MarkedAsDeleted(x).mtime = x.mtime
  <2>1. << >> \in Seq(Sum)
    OBVIOUS
  <2> QED
    BY <2>1 DEF MarkedAsDeleted, FileParts, Deleted
<1>4. CASE disk[f] = NoFile
  BY <1>1, <1>3, <1>4 DEF FromFile
<1>5. CASE disk[f] # NoFile
  <2>1. /\ c \in Contents /\ disk[f].mtime \in Times /\ c \in Known(f)
        /\ SizeOf[c] \in Nat /\ f \in Files
        /\ past[f][disk[f].mtime] = c /\ ~Superseded(past[f], disk[f].mtime)
    BY <1>5, SeekingFacts DEF Seeking, Inv, TypeInv, PartInv, PartOk, Known,
                              CacheAssumption, WorldInv, WorldOk
  <2>2. ASSUME ~Superseded(past[f], p.mtime) PROVE c = past[f][p.mtime]
    <3>1. /\ p.mtime \in Times /\ past[f][p.mtime] # NoContent
          /\ c # NoContent /\ Times \subseteq Nat
      BY <1>1, <2>1, SeekingFacts DEF Seeking, CacheAssumption, Times
    <3>2. ~(disk[f].mtime > p.mtime)
      <4>1. past[f][disk[f].mtime] # NoContent
        BY <2>1, <3>1
      <4> QED
        BY <2>1, <2>2, <4>1 DEF Superseded
    <3>3. ~(p.mtime > disk[f].mtime)
      BY <2>1, <3>1 DEF Superseded
    <3>4. disk[f].mtime = p.mtime
      <4>1. p.mtime \in Nat /\ disk[f].mtime \in Nat
        BY <2>1, <3>1
      <4> QED
        BY <3>2, <3>3, <4>1
    <3> QED
      BY <2>1, <3>4
  <2>3. DOMAIN p.sums = 1..n /\ \A i \in 1..n : p.sums[i] \in Sum
    BY <1>1, ElementOfSeq, LenProperties
  <2>4. /\ CsumBlockLen \in Nat \ {0} /\ BlockLen \in Nat \ {0}
        /\ 1 \in 1..n
    BY <1>1, SeekingFacts
  <2>5. CASE q = MarkedAsDeleted(w)
    BY <1>2, <1>3, <2>5
  <2>6. CASE q = AllRead(w, c)
    <3> DEFINE sums == [i \in DOMAIN w.sums |-> Block(c, CsumBlockLen, i)]
    <3>1. sums \in [1..n -> Sum]
      BY <1>2, <2>1, <2>3, <2>4, SumFacts
    <3>2. sums \in Seq(Sum) /\ Len(sums) = n
      BY <1>1, <3>1
    <3>3. \A i \in DOMAIN sums : sums[i] = Block(c, CsumBlockLen, i)
      OBVIOUS
    <3>4. 1 \in DOMAIN sums
      BY <2>4, <3>1
    <3>5. q = [w EXCEPT !.sums = sums, !.rsync = HeadOf(c, BlockLen),
                        !.md = Whole(c), !.mdValid = TRUE]
      BY <2>6 DEF AllRead
    <3> HIDE DEF sums
    <3>6. HeadOf(c, BlockLen) \in Sum /\ Whole(c) \in Sum
      BY <2>1, <2>4, SumFacts
    <3>7. /\ q \in FileParts /\ q.sums = sums /\ q.rsync = HeadOf(c, BlockLen)
          /\ q.md = Whole(c) /\ q.mdValid /\ q.size = p.size /\ q.mtime = p.mtime
      BY <1>2, <3>2, <3>5, <3>6 DEF FileParts
    <3>8. SumsOf(BlockLen, CsumBlockLen, q, c)
      BY <3>3, <3>4, <3>7 DEF SumsOf
    <3> HIDE DEF w, c
    <3> QED
      BY <1>1, <2>1, <2>2, <3>2, <3>7, <3>8 DEF Filled
  <2>7. CASE q = HeadRead(w, c) /\ result = "head"
    <3> DEFINE done == HeadEnd(SizeOf[c]) \div CsumBlockLen
               sums == [i \in DOMAIN w.sums |-> IF i =< done
                          THEN Block(c, CsumBlockLen, i) ELSE w.sums[i]]
    <3>1. blockNr = 0 /\ HeadEnds(SizeOf[c]) # {}
      BY <2>7 DEF ReadResult
    <3>2. HeadEnd(SizeOf[c]) \in Nat /\ HeadEnd(SizeOf[c]) >= CsumBlockLen
      BY <2>1, <3>1, HeadEndFacts
    <3>3. done \in Nat /\ done >= 1
      BY <2>4, <3>2, DivFacts
    <3>4. q = [w EXCEPT !.sums = sums, !.rsync = HeadOf(c, BlockLen), !.md = Junk]
      BY <2>7 DEF HeadRead
    <3> HIDE DEF done
    <3>5. sums \in [1..n -> Sum]
      BY <1>2, <2>1, <2>3, <2>4, SumFacts
    <3>6. sums \in Seq(Sum) /\ Len(sums) = n
      BY <1>1, <3>5
    <3>7. sums[1] = Block(c, CsumBlockLen, 1)
      BY <1>2, <2>3, <2>4, <3>3
    <3> HIDE DEF sums
    <3>8. HeadOf(c, BlockLen) \in Sum /\ Junk \in Sum
      BY <2>1, <2>4, SumFacts
    <3>9. /\ q \in FileParts /\ q.sums = sums /\ q.rsync = HeadOf(c, BlockLen)
          /\ ~q.mdValid /\ q.size = p.size /\ q.mtime = p.mtime
      BY <1>1, <1>2, <3>4, <3>6, <3>8 DEF FileParts
    <3>10. SumsOf(BlockLen, CsumBlockLen, q, c)
      BY <3>7, <3>9 DEF SumsOf
    <3>11. ~(blockNr > 0)
      BY <3>1
    <3> HIDE DEF w, c
    <3> QED
      BY <1>1, <2>1, <2>2, <3>6, <3>9, <3>10, <3>11 DEF Filled
  <2>8. \/ q = MarkedAsDeleted(w) \/ q = AllRead(w, c)
        \/ q = HeadRead(w, c) /\ result = "head"
    <3> DEFINE failed == IF ReadErrors \/ result = "error"
                         THEN {MarkedAsDeleted(w)} ELSE {}
               read == CASE result = "all"  -> {AllRead(w, c)}
                         [] result = "head" -> {HeadRead(w, c)}
                         [] OTHER           -> {}
    <3>1. FromFile(f, p, blockNr) =
            IF disk[f] = NoFile THEN {MarkedAsDeleted(p)} ELSE failed \union read
      BY Zenon DEF FromFile
    <3>2. q \in failed \union read
      <4> HIDE DEF failed, read
      <4> QED
        BY <1>5, <3>1
    <3> HIDE DEF w, c, result
    <3> QED
      BY <3>2
  <2> QED
    BY <2>5, <2>6, <2>7, <2>8
<1> QED
  BY <1>4, <1>5

LEMMA ChecksumsReadFacts ==
  ASSUME NEW f, Seeking(f), NEW blockNr \in Nat,
         NEW q \in ChecksumsRead(f, blockNr).parts
  PROVE  \/ Filled(f, q, blockNr)
         \/ q \in FileParts /\ q.mtime = part[f].mtime /\ Deleted(q)
<1> DEFINE p == Resized(part[f])
           hit == ~p.wasLookedUp /\ Matches(f, p)
           looked == [p EXCEPT !.wasLookedUp = TRUE]
           loaded == IF hit THEN Unserialized(looked, db[f]) ELSE looked
           enough == hit /\ Suffices(loaded, db[f], blockNr)
<1>1. Sought(f, looked)
  BY ResizedFacts
<1>2. hit => Matches(f, looked)
  BY DEF Matches, Resized
<1>3. q \in IF enough THEN {loaded} ELSE FromFile(f, loaded, blockNr)
  BY DEF ChecksumsRead
<1> HIDE DEF p, looked
<1>4. Sought(f, loaded)
  BY <1>1, <1>2, UnserializedFacts
<1>5. enough => Filled(f, loaded, blockNr)
  BY <1>1, <1>2, UnserializedFacts
<1>6. loaded.mtime = part[f].mtime
  BY <1>4 DEF Sought
<1> HIDE DEF loaded, enough
<1> QED
  BY <1>3, <1>4, <1>5, <1>6, FromFileFacts

LEMMA HitFacts ==
  ASSUME NEW f, NEW blockNr
  PROVE  LET r == ChecksumsRead(f, blockNr)
         IN /\ r.hit => db[f] # NoEntry /\ r.entry = Accessed(f)
            /\ ~r.hit => r.entry = db[f]
BY DEF ChecksumsRead, Matches

\* What is returned, if the sum that is asked for is there
LEMMA ValueFacts ==
  ASSUME NEW p, NEW x, SumsOf(BlockLen, CsumBlockLen, p, x),
         DOMAIN p.sums = 1..Len(p.sums), Len(p.sums) \in Nat,
         NEW kind \in {"block", "whole", "head"}, NEW n \in Nat,
         n < Len(p.sums), kind = "block" /\ n > 0 => p.mdValid,
         kind = "whole" => p.mdValid
  PROVE  Value(p, kind, n) = Contains(x, kind, n)
<1>1. CASE kind = "block"
  <2>1. n + 1 \in DOMAIN p.sums
    OBVIOUS
  <2>2. n = 0 \/ p.mdValid
    BY <1>1
  <2> QED
    BY <1>1, <2>1, <2>2 DEF Value, Contains, SumsOf
<1>2. CASE kind = "whole"
  BY <1>2 DEF Value, Contains, SumsOf
<1>3. CASE kind = "head"
  BY <1>3 DEF Value, Contains, SumsOf
<1> QED
  BY <1>1, <1>2, <1>3

\* A part that needs no reading has the sum already.
LEMMA NoNeedFacts ==
  ASSUME CacheAssumption, Inv, Running, NEW f \in Files, Listed(f),
         NEW kind \in {"block", "whole", "head"}, NEW n \in Nat,
         n < Blocks(part[f].size), ~Needs(part[f], kind, n)
  PROVE  \E x \in Known(f) : Value(part[f], kind, n) = Contains(x, kind, n)
<1> DEFINE p == part[f]
<1>1. /\ p \in FileParts /\ PartOk(f)
  BY DEF Inv, TypeInv, PartInv, Listed
<1>2. /\ p.mdValid \/ p.sums # << >>
      /\ kind = "block" /\ n > 0 => p.mdValid
      /\ kind = "whole" => p.mdValid
  BY DEF Needs
<1>3. p.sums # << >>
  BY <1>1, <1>2 DEF PartOk
<1>4. PICK x \in Known(f) : SumsOf(BlockLen, CsumBlockLen, p, x)
  BY <1>1, <1>3 DEF PartOk
<1>5. p.sums \in Seq(Sum)
  BY <1>1 DEF FileParts
<1>6. Len(p.sums) \in Nat \ {0} /\ DOMAIN p.sums = 1..Len(p.sums)
  BY <1>3, <1>5, EmptySeq, LenProperties
<1>7. Len(p.sums) = Blocks(p.size)
  <2>1. Blocks(p.size) = BlocksOf(p.size, CsumBlockLen)
    BY ParamsFacts DEF Inv, TypeInv
  <2> QED
    BY <1>1, <1>6, <2>1 DEF PartOk
<1>8. n < Len(p.sums)
  BY <1>7
<1> HIDE DEF p
<1>9. Value(p, kind, n) = Contains(x, kind, n)
  BY <1>2, <1>4, <1>6, <1>8, ValueFacts
<1> QED
  BY <1>4, <1>9 DEF p

\* A part that had to be read has it then.  With one block only, the sum of the
\* whole would not be read, and it would not be there.
LEMMA FilledFacts ==
  ASSUME NEW f, Seeking(f), NEW q,
         NEW kind \in {"block", "whole", "head"}, NEW n \in Nat,
         n < Blocks(part[f].size), kind # "whole" \/ LargeFiles,
         Filled(f, q, NeededBlock(part[f], kind, n))
  PROVE  \E x \in Known(f) : Value(q, kind, n) = Contains(x, kind, n)
<1> DEFINE nn == NeededBlock(part[f], kind, n)
<1>1. /\ q \in FileParts /\ q.size = part[f].size
      /\ Len(q.sums) = BlocksOf(q.size, CsumBlockLen)
      /\ nn > 0 => q.mdValid
  BY DEF Filled
<1>2. PICK x \in Known(f) : SumsOf(BlockLen, CsumBlockLen, q, x)
  BY DEF Filled
<1>3. q.sums \in Seq(Sum) /\ DOMAIN q.sums = 1..Len(q.sums) /\ Len(q.sums) \in Nat
  BY <1>1, LenProperties DEF FileParts
<1>4. n < Len(q.sums)
  BY <1>1, SeekingFacts
<1>5. kind = "block" => nn = n
  BY DEF NeededBlock
<1>6. kind = "whole" => nn > 0
  <2> SUFFICES ASSUME kind = "whole" PROVE nn > 0
    OBVIOUS
  <2> DEFINE size == part[f].size
             len == CsumBlockLen
  <2>1. nn = BlocksOf(size, len) - 1
    BY SeekingFacts DEF NeededBlock
  <2>2. size \in Nat /\ len \in Nat \ {0} /\ size > len
    BY SeekingFacts DEF LargeFiles, CsumBlockLen
  <2> HIDE DEF size, len
  <2>3. BlocksOf(size, len) \in Nat /\ BlocksOf(size, len) >= 2
    BY <2>2, BlocksFacts
  <2> HIDE DEF nn
  <2> QED
    BY <2>1, <2>3
<1>7. /\ kind = "block" /\ n > 0 => q.mdValid
      /\ kind = "whole" => q.mdValid
  BY <1>1, <1>5, <1>6
<1>8. Value(q, kind, n) = Contains(x, kind, n)
  BY <1>2, <1>3, <1>4, <1>7, ValueFacts
<1> QED
  BY <1>2, <1>8

LEMMA AskInv ==
  ASSUME CacheAssumption, Inv, NEW f \in Files,
         NEW kind \in {"block", "whole", "head"}, NEW n \in Nat, Ask(f, kind, n)
  PROVE  Inv'
<1>1. /\ Running /\ Listed(f) /\ n < Blocks(part[f].size)
      /\ UNCHANGED <<now, disk, past, params, seen>>
  BY DEF Ask, envVars
<1>2. WorldInv'
  BY <1>1 DEF Inv, WorldInv, WorldOk
<1>3. /\ BlockLen' = BlockLen /\ CsumBlockLen' = CsumBlockLen
      /\ Running' /\ \A x, k, b : Contains(x, k, b)' = Contains(x, k, b)
  BY <1>1 DEF BlockLen, CsumBlockLen, Running, Contains
<1>4. part[f] # NoFile /\ part[f] \in FileParts
  BY <1>1 DEF Listed, Inv, TypeInv
<1>5. CASE ~Needs(part[f], kind, n)
  <2>1. /\ answer' = [file |-> f, kind |-> kind, block |-> n, opened |-> FALSE,
                      value |-> Value(part[f], kind, n)]
        /\ UNCHANGED <<part, nrOfFiles, db, used>>
    BY <1>5 DEF Ask
  <2>2. TypeInv'
    BY <1>1, <2>1 DEF Inv, TypeInv
  <2>3. EntryInv'
    BY <1>1, <2>1 DEF Inv, EntryInv, EntryOk, Listed, Deleted
  <2>4. PartInv'
    BY <1>1, <1>3, <2>1 DEF Inv, PartInv, PartOk, Listed, Deleted, Known
  <2>5. \E x \in Known(f) : Value(part[f], kind, n) = Contains(x, kind, n)
    BY <1>1, <1>5, NoNeedFacts
  <2>6. Known(f)' = Known(f)
    BY <1>1, <2>1 DEF Known
  <2>7. AnswerInv'
    BY <1>3, <1>4, <2>1, <2>5, <2>6 DEF AnswerInv
  <2> QED
    BY <1>2, <2>2, <2>3, <2>4, <2>7 DEF Inv
<1>6. CASE Needs(part[f], kind, n)
  <2> DEFINE nn == NeededBlock(part[f], kind, n)
             r == ChecksumsRead(f, nn)
  <2>1. PICK q \in r.parts :
          /\ part' = [part EXCEPT ![f] = q]
          /\ nrOfFiles' = IF Deleted(q) THEN OneLess ELSE nrOfFiles
          /\ answer' = [file |-> f, kind |-> kind, block |-> n,
                        opened |-> r.opened,
                        value |-> IF Deleted(q) THEN NullPtr
                                  ELSE Value(q, kind, n)]
    BY <1>6 DEF Ask
  <2>2. /\ db' = [db EXCEPT ![f] = r.entry]
        /\ used' = [used EXCEPT ![f] = IF r.hit THEN now ELSE @]
    BY <1>6 DEF Ask
  <2>3. Seeking(f)
    <3>1. ~part[f].mdValid
      BY <1>1, <1>6 DEF Needs, Inv, PartInv, PartOk
    <3> QED
      BY <1>1, <3>1 DEF Seeking
  <2>4. nn \in Nat
    <3>1. Blocks(part[f].size) \in Nat \ {0}
      BY <2>3, SeekingFacts
    <3> QED
      BY <3>1 DEF NeededBlock
  <2>5. \/ Filled(f, q, nn)
        \/ q \in FileParts /\ q.mtime = part[f].mtime /\ Deleted(q)
    BY <2>1, <2>3, <2>4, ChecksumsReadFacts
  <2>6. q \in FileParts /\ q.mtime = part[f].mtime /\ q # NoFile
    <3>1. NoFile \notin FileParts
      BY DEF NoFile, FileParts
    <3> QED
      BY <2>5, <3>1 DEF Filled
  <2>7. \/ /\ db'[f] = db[f] /\ used'[f] = used[f]
           /\ db' = db
        \/ /\ db[f] # NoEntry /\ db'[f] = Accessed(f) /\ used'[f] = now
           /\ db' = [db EXCEPT ![f] = Accessed(f)]
    <3>1. /\ r.hit => db[f] # NoEntry /\ r.entry = Accessed(f)
          /\ ~r.hit => r.entry = db[f]
      BY HitFacts
    <3> HIDE DEF r
    <3> QED
      BY <2>2, <3>1 DEF Inv, TypeInv
  <2> HIDE DEF nn, r
  <2>8. \A g \in Files : /\ part'[g] = IF g = f THEN q ELSE part[g]
                         /\ g # f => db'[g] = db[g] /\ used'[g] = used[g]
    BY <2>1, <2>2 DEF Inv, TypeInv
  <2>9. db[f] # NoEntry =>
          /\ db[f] \in CacheEntries
          /\ Accessed(f) \in CacheEntries
          /\ Accessed(f).access = now
          /\ Accessed(f).mtime = db[f].mtime /\ Accessed(f).size = db[f].size
          /\ Accessed(f).blockLen = db[f].blockLen
          /\ Accessed(f).csumBlockLen = db[f].csumBlockLen
          /\ Accessed(f).rsync = db[f].rsync /\ Accessed(f).sums = db[f].sums
    BY DEF Accessed, CacheEntries, NoEntry, Inv, TypeInv
  <2>10. TypeInv'
    <3>1. part' \in [Files -> FileParts \union {NoFile}]
      BY <2>1, <2>6 DEF Inv, TypeInv
    <3>2. db' \in [Files -> CacheEntries \union {NoEntry}]
      BY <2>7, <2>9 DEF Inv, TypeInv
    <3>3. used' \in [Files -> Times]
      BY <2>2 DEF Inv, TypeInv
    <3>4. nrOfFiles' \in 0..(SizeTWord - 1)
      BY <2>1 DEF Inv, TypeInv, OneLess, SizeTWord
    <3> QED
      BY <1>1, <3>1, <3>2, <3>3, <3>4 DEF Inv, TypeInv
  <2>11. EntryInv'
    <3> SUFFICES ASSUME NEW g \in Files PROVE EntryOk(g)'
      BY DEF EntryInv
    <3>1. EntryOk(g)
      BY DEF Inv, EntryInv
    <3>2. CASE g # f
      BY <1>1, <2>8, <3>1, <3>2 DEF EntryOk, Listed, Deleted
    <3>3. CASE g = f
      <4>1. part'[f].mtime = part[f].mtime
        BY <2>6, <2>8
      <4>2. CASE db'[f] = db[f] /\ used'[f] = used[f]
        BY <1>1, <3>1, <3>3, <4>1, <4>2 DEF EntryOk
      <4>3. CASE db[f] # NoEntry /\ db'[f] = Accessed(f) /\ used'[f] = now
        BY <1>1, <2>9, <3>1, <3>3, <4>1, <4>3 DEF EntryOk, EntryGood
      <4> QED
        BY <2>7, <4>2, <4>3
    <3> QED
      BY <3>2, <3>3
  <2>12. \A g \in Files : Known(g)' = Known(g)
    BY <1>1, <2>6, <2>8 DEF Known
  <2>13. PartInv'
    <3> SUFFICES ASSUME NEW g \in Files PROVE PartOk(g)'
      BY DEF PartInv
    <3>1. PartOk(g)
      BY DEF Inv, PartInv
    <3>2. CASE g # f
      BY <1>1, <1>3, <2>8, <2>12, <3>1, <3>2 DEF PartOk, Listed, Deleted
    <3>3. CASE g = f /\ Deleted(q)
      BY <1>1, <1>4, <2>6, <2>8, <3>1, <3>3 DEF PartOk, Listed, Deleted
    <3>4. CASE g = f /\ ~Deleted(q)
      <4>1. /\ Filled(f, q, nn) /\ part'[f] = q /\ Known(f)' = Known(f)
        BY <2>5, <2>8, <2>12, <3>4
      <4>2. q.sums # << >>
        <5>1. Len(q.sums) \in Nat \ {0}
          BY <2>3, <4>1, SeekingFacts DEF Filled
        <5> QED
          BY <5>1
      <4> QED
        BY <1>1, <1>3, <1>4, <2>6, <3>1, <3>4, <4>1, <4>2 DEF PartOk, Filled
    <3> QED
      BY <3>2, <3>3, <3>4
  <2>14. AnswerInv'
    <3> SUFFICES ASSUME ~Deleted(q), kind # "whole" \/ LargeFiles
                 PROVE  \E x \in Known(f) :
                          Value(q, kind, n) = Contains(x, kind, n)
      BY <1>3, <2>1, <2>6, <2>8, <2>12 DEF AnswerInv
    <3> QED
      BY <1>1, <2>3, <2>5, FilledFacts DEF nn
  <2> QED
    BY <1>2, <2>10, <2>11, <2>13, <2>14 DEF Inv
<1> QED
  BY <1>5, <1>6

-----------------------------------------------------------------------------
(* Theorems *)

LEMMA NextInv == CacheAssumption /\ ~ParamsChange /\ Inv /\ [Next]_vars => Inv'
<1> SUFFICES ASSUME CacheAssumption, ~ParamsChange, Inv, [Next]_vars PROVE Inv'
  OBVIOUS
<1>1. CASE Tick
  BY <1>1, TickInv
<1>2. CASE StartRun
  BY <1>2, StartRunInv
<1>3. CASE EndRun
  BY <1>3, EndRunInv
<1>4. CASE Kill
  BY <1>4, KillInv
<1>5. ASSUME NEW f \in Files, Modify(f) PROVE Inv'
  BY <1>5, ModifyInv
<1>6. ASSUME NEW f \in Files, Remove(f) PROVE Inv'
  BY <1>6, RemoveInv
<1>7. ASSUME NEW f \in Files, ReadFilename(f) PROVE Inv'
  BY <1>7, ReadFilenameInv
<1>8. ASSUME NEW f \in Files, GetSum(f) PROVE Inv'
  BY <1>8, AskInv DEF GetSum
<1>9. ASSUME NEW f \in Files, GetRsyncSum(f) PROVE Inv'
  BY <1>9, AskInv DEF GetRsyncSum
<1>10. ASSUME NEW f \in Files, NEW n \in 0..(MaxBlocks - 1), GetSums(f, n)
       PROVE  Inv'
  <2>1. n \in Nat
    BY DEF MaxBlocks
  <2> QED
    BY <1>10, <2>1, AskInv DEF GetSums
<1>11. CASE UNCHANGED vars
  BY <1>11, StutterInv
<1> QED
  BY <1>1, <1>2, <1>3, <1>4, <1>5, <1>6, <1>7, <1>8, <1>9, <1>10, <1>11
     DEF Next, SetParams

\* The inductive invariant, for all files, contents, sizes, block lengths, read
\* sizes and expiry times, and however often the files change: what an entry
\* holds belongs to the content its mtime stands for, unless the file has
\* changed since and is not listed with that mtime (JigdoCache, FilePart).
THEOREM Invariance ==
  ASSUME CacheAssumption, ~ParamsChange PROVE Spec => []Inv
<1>1. Init => Inv
  BY InitInv
<1>2. Inv /\ [Next]_vars => Inv'
  BY NextInv
<1> QED
  BY <1>1, <1>2, PTL DEF Spec

\* Types: the vector of checksums of a part is empty or has an element for each
\* block, and entries of the database have at least one (FilePart::MD5sums).
THEOREM TypeCorrect ==
  ASSUME CacheAssumption, ~ParamsChange PROVE Spec => []TypeOK
<1>1. Inv => TypeOK
  <2> SUFFICES ASSUME Inv PROVE TypeOK
    OBVIOUS
  <2>1. ASSUME NEW f \in Files, Listed(f)
        PROVE  /\ part[f].mtime \in Times /\ part[f].size \in Nat
               /\ Len(part[f].sums) \in {0, Blocks(part[f].size)}
    <3>1. Running
      BY <2>1 DEF Inv, AnswerInv, Listed
    <3>2. part[f] \in FileParts
      BY <2>1 DEF Inv, TypeInv, Listed
    <3>3. Blocks(part[f].size) = BlocksOf(part[f].size, CsumBlockLen)
      BY <3>1, ParamsFacts DEF Inv, TypeInv
    <3>4. PartOk(f)
      BY DEF Inv, PartInv
    <3> QED
      BY <2>1, <3>2, <3>3, <3>4 DEF FileParts, PartOk
  <2>2. ASSUME NEW f \in Files, db[f] # NoEntry
        PROVE  db[f].mtime \in Times /\ db[f].size \in Nat /\ Len(db[f].sums) > 0
    <3>1. db[f] \in CacheEntries
      BY <2>2 DEF Inv, TypeInv
    <3>2. EntryOk(f)
      BY DEF Inv, EntryInv
    <3>3. db[f].mtime \in Times /\ db[f].size \in Nat /\ Len(db[f].sums) \in Nat
      BY <3>1 DEF CacheEntries
    <3>4. BlocksOf(db[f].size, db[f].csumBlockLen) \in Nat
      BY <3>1, BlocksFacts DEF CacheEntries
    <3>5. Len(db[f].sums) \in 1..BlocksOf(db[f].size, db[f].csumBlockLen)
      BY <2>2, <3>2 DEF EntryOk
    <3> QED
      BY <3>3, <3>4, <3>5
  <2> QED
    BY <2>1, <2>2 DEF Inv, TypeInv, TypeOK
<1> QED
  BY <1>1, Invariance, PTL

\* A content that is known is one.
LEMMA KnownFacts ==
  ASSUME CacheAssumption, Inv, NEW f \in Files, part[f] # NoFile
  PROVE  Known(f) \subseteq Contents /\ NoContent \notin Known(f)
<1>1. PartOk(f) /\ seen[f] \subseteq Contents
  BY DEF Inv, PartInv, TypeInv
<1> QED
  BY <1>1 DEF Known, PartOk, CacheAssumption

\* The checksums of blocks and of the head that are returned are those of what
\* the file contained when it was listed or later, although they may come from
\* a database that was written by other runs and although the file may change
\* at any time (FilePart::getMD5Sums, getRsyncSum).
THEOREM PartialSumsAreRight ==
  ASSUME CacheAssumption, ~ParamsChange
  PROVE  Spec => [](answer.kind # "whole" => SumIsRight)
<1>1. Inv => (answer.kind # "whole" => SumIsRight)
  BY KnownFacts DEF Inv, AnswerInv, SumIsRight, Known
<1> QED
  BY <1>1, Invariance, PTL

\* The same of the checksum of the whole file, if no file is so small that it
\* has one block only (FilePart::getMD5Sum): with a small file the sum that is
\* returned may never have been computed, which the run smallfile shows.
THEOREM SumsAreRight ==
  ASSUME CacheAssumption, ~ParamsChange, LargeFiles
  PROVE  Spec => []SumIsRight
<1>1. Inv => SumIsRight
  BY KnownFacts DEF Inv, AnswerInv, SumIsRight, Known
<1> QED
  BY <1>1, Invariance, PTL

\* An entry of the database that passes for one of the file as it is holds the
\* checksums of what is in the file: the destructor may write sums of a file
\* that has changed since it was listed, but under the old mtime.
THEOREM EntriesAreRight ==
  ASSUME CacheAssumption, ~ParamsChange PROVE Spec => []EntriesRight
<1>1. Inv => EntriesRight
  <2> SUFFICES ASSUME Inv, NEW f \in Files,
                      db[f] # NoEntry, disk[f] # NoFile,
                      db[f].mtime = disk[f].mtime
               PROVE  /\ db[f].size = SizeOf[disk[f].content]
                      /\ EntryGood(db[f], disk[f].content)
    BY DEF EntriesRight, EntryGood
  <2>1. WorldOk(f) /\ EntryOk(f)
    BY DEF Inv, WorldInv, EntryInv
  <2> QED
    BY <2>1 DEF WorldOk, EntryOk
<1> QED
  BY <1>1, Invariance, PTL

\* A FilePart is always in one of the three states that the comment in its
\* class permits, whatever was in the database and wherever a read ended.
THEOREM PartsAsPermitted ==
  ASSUME CacheAssumption, ~ParamsChange PROVE Spec => []PartStates
<1>1. CacheAssumption /\ Inv => PartStates
  <2> SUFFICES ASSUME CacheAssumption, Inv, NEW f \in Files, Listed(f)
               PROVE  /\ part[f].sums = << >> => ~part[f].mdValid
                      /\ part[f].sums # << >> =>
                           \E c \in Contents :
                             SumsOf(BlockLen, CsumBlockLen, part[f], c)
    BY DEF PartStates, SumsOf
  <2>1. PartOk(f) /\ Known(f) \subseteq Contents
    BY KnownFacts DEF Inv, PartInv, Listed
  <2> QED
    BY <2>1 DEF PartOk
<1> QED
  BY <1>1, Invariance, PTL

\* "If any old entries are accessed before expiry takes place, they will be
\* kept": an entry is removed only when it was not used for longer than
\* Expiry, for any number of runs, some of them killed (CacheFile::expire).
THEOREM UsedAreKept ==
  ASSUME CacheAssumption, ~ParamsChange PROVE Spec => UsedIsKept
<1>1. CacheAssumption /\ ~ParamsChange /\ Inv /\ [Next]_vars => KeptStep
  <2> SUFFICES ASSUME CacheAssumption, ~ParamsChange, Inv, [Next]_vars,
                      NEW f \in Files, db[f] # NoEntry, db'[f] = NoEntry
               PROVE  now - used[f] > Expiry
    BY DEF KeptStep
  <2>1. /\ db \in [Files -> CacheEntries \union {NoEntry}]
        /\ EntryOk(f) /\ now \in Nat /\ used[f] \in Nat /\ Expiry \in Nat
    BY DEF Inv, TypeInv, EntryInv, Times, CacheAssumption
  <2>2. Accessed(f) # NoEntry
    <3>1. db[f] \in CacheEntries
      BY <2>1
    <3>2. Accessed(f) \in CacheEntries
      BY <3>1 DEF Accessed, CacheEntries, Inv, TypeInv
    <3>3. DOMAIN Accessed(f) # {}
      BY <3>2 DEF CacheEntries
    <3> QED
      BY <3>3 DEF NoEntry
  <2>3. CASE EndRun
    <3>1. Entry(f, part[f]) # NoEntry /\ Entry(f, part[f]).access = now
      BY DEF Entry, NoEntry
    <3>2. PICK e : /\ e = IF ToBeInserted(f) THEN Entry(f, part[f]) ELSE db[f]
                   /\ e # NoEntry => Expired(e)
      BY <2>3 DEF EndRun, Expired
    <3>3. Expired(e)
      BY <3>1, <3>2
    <3>4. ~ToBeInserted(f)
      BY <2>1, <3>1, <3>2, <3>3 DEF Expired
    <3> QED
      BY <2>1, <3>2, <3>3, <3>4 DEF Expired, EntryOk
  <2>4. ASSUME NEW g \in Files, ReadFilename(g) PROVE db'[f] # NoEntry
    <3>1. CASE CheckFiles
      BY <2>4, <3>1 DEF ReadFilename
    <3>2. CASE ~CheckFiles
      BY <2>1, <2>2, <2>4, <3>2 DEF ReadFilename
    <3> QED
      BY <3>1, <3>2
  <2>5. ASSUME NEW g \in Files, NEW kind, NEW n, Ask(g, kind, n)
        PROVE  db'[f] # NoEntry
    <3>1. CASE Needs(part[g], kind, n)
      <4>1. \E x \in {db[g], Accessed(g)} : db' = [db EXCEPT ![g] = x]
        BY <2>5, <3>1 DEF Ask, ChecksumsRead
      <4> QED
        BY <2>1, <2>2, <4>1
    <3>2. CASE ~Needs(part[g], kind, n)
      BY <2>5, <3>2 DEF Ask
    <3> QED
      BY <3>1, <3>2
  <2>6. CASE UNCHANGED db
    BY <2>6
  <2> QED
    BY <2>3, <2>4, <2>5, <2>6
       DEF Next, Tick, StartRun, SetParams, Kill, Modify, Remove, GetSum,
           GetRsyncSum, GetSums, vars, runVars
<1> QED
  BY <1>1, Invariance, PTL DEF Spec, UsedIsKept
=============================================================================
