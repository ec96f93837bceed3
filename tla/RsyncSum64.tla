------------------------------ MODULE RsyncSum64 ------------------------------
(***************************************************************************)
(* The rolling checksum of a window of the image (src/util/rsyncsum.hh,    *)
(* rsyncsum.cc, rsyncsum.ih): 2 * 32 bits, bytes are added at the back and *)
(* removed at the front, one or many at a time.  Whatever the calls, it    *)
(* has to be the checksum of what the window covers, or files that are in  *)
(* the image are not found.                                                *)
(*                                                                         *)
(* Mem is all the data the window slides over, already translated with     *)
(* charTable.  Sum1[n] is the sum of the first n values, Sum2[n] the sum   *)
(* of the first n of these sums.                                           *)
(***************************************************************************)
EXTENDS Integers, TLAPS

CONSTANTS
  Width,            \* 2^32: the sums are kept modulo this
  MemLen,           \* bound: length of the data
  Mem, Sum1, Sum2

ASSUME WidthAssumption == Width \in Nat \ {0}

ASSUME MemAssumption == MemLen \in Nat /\ Mem \in [0..MemLen -> 0..(Width - 1)]

ASSUME SumsAssumption ==
  /\ Sum1 \in [0..(MemLen + 1) -> Int] /\ Sum2 \in [0..(MemLen + 1) -> Int]
  /\ \A n \in 0..MemLen : Sum1[n + 1] = Sum1[n] + Mem[n]
  /\ \A n \in 0..MemLen : Sum2[n + 1] = Sum2[n] + Sum1[n + 1]

VARIABLES
  front, back,      \* the window: front..(back - 1)
  sumLo, sumHi,
  pc,               \* "idle"; "add" or "front": in the loop of addBack2()
  i, limit,         \* mem: the next byte; the first not to process
  a, b

loopVars == <<i, limit, a, b>>
vars == <<front, back, sumLo, sumHi, pc, i, limit, a, b>>

Init ==
  /\ front \in 0..MemLen /\ back = front /\ sumLo = 0 /\ sumHi = 0
  /\ pc = "idle" /\ i = 0 /\ limit = 0 /\ a = 0 /\ b = 0

-----------------------------------------------------------------------------

\* addBack(x)
AddBack ==
  /\ pc = "idle" /\ back < MemLen
  /\ sumLo' = (sumLo + Mem[back]) % Width
  /\ sumHi' = (sumHi + sumLo') % Width
  /\ back' = back + 1
  /\ UNCHANGED <<front, pc, loopVars>>

\* Mutant of RemoveFront: the size of the area after the call.
RemoveFrontAfter ==
  /\ pc = "idle" /\ front < back
  /\ sumHi' = (sumHi - (back - front - 1) * Mem[front]) % Width
  /\ sumLo' = (sumLo - Mem[front]) % Width
  /\ front' = front + 1
  /\ UNCHANGED <<back, pc, loopVars>>

\* removeFront(x, areaSize)
RemoveFront ==
  /\ pc = "idle" /\ front < back
  /\ sumHi' = (sumHi - (back - front) * Mem[front]) % Width
  /\ sumLo' = (sumLo - Mem[front]) % Width
  /\ front' = front + 1
  /\ UNCHANGED <<back, pc, loopVars>>

\* addBack(mem, len): addBack2() goes on from the sums there are.
StartAdd(len) ==
  /\ pc = "idle" /\ len > 0 /\ back + len <= MemLen
  /\ pc' = "add" /\ i' = back /\ limit' = back + len /\ a' = sumLo /\ b' = sumHi
  /\ UNCHANGED <<front, back, sumLo, sumHi>>

\* removeFront(mem, len, areaSize): first the sums of what is removed
StartRemove(len) ==
  /\ pc = "idle" /\ front + len <= back
  /\ pc' = "front" /\ i' = front /\ limit' = front + len /\ a' = 0 /\ b' = 0
  /\ UNCHANGED <<front, back, sumLo, sumHi>>

\* Mutant of Loop: the carry is lost only where the sums are stored.
LoopWide ==
  /\ pc # "idle" /\ i < limit
  /\ a' = a + Mem[i] /\ b' = b + a' /\ i' = i + 1
  /\ UNCHANGED <<front, back, sumLo, sumHi, pc, limit>>

Loop ==
  /\ pc # "idle" /\ i < limit
  /\ a' = (a + Mem[i]) % Width /\ b' = (b + a') % Width /\ i' = i + 1
  /\ UNCHANGED <<front, back, sumLo, sumHi, pc, limit>>

EndAdd ==
  /\ pc = "add" /\ i = limit
  /\ sumLo' = a /\ sumHi' = b /\ back' = limit /\ pc' = "idle"
  /\ UNCHANGED <<front, loopVars>>

\* Mutant of EndRemove: what was removed is not taken off the area.
EndRemoveAll ==
  /\ pc = "front" /\ i = limit
  /\ sumLo' = (sumLo - a) % Width
  /\ sumHi' = (sumHi - b - (back - front) * a) % Width
  /\ front' = limit /\ pc' = "idle"
  /\ UNCHANGED <<back, loopVars>>

EndRemove ==
  /\ pc = "front" /\ i = limit
  /\ sumLo' = (sumLo - a) % Width
  /\ sumHi' = (sumHi - b - (back - limit) * a) % Width
  /\ front' = limit /\ pc' = "idle"
  /\ UNCHANGED <<back, loopVars>>

Next ==
  \/ AddBack \/ RemoveFront \/ Loop \/ EndAdd \/ EndRemove
  \/ \E len \in 0..MemLen : StartAdd(len) \/ StartRemove(len)

Spec == Init /\ [][Next]_vars

-----------------------------------------------------------------------------
(* Properties *)

Sums == 0..(Width - 1)

TypeOK ==
  /\ front \in 0..MemLen /\ back \in 0..MemLen /\ front <= back
  /\ sumLo \in Sums /\ sumHi \in Sums /\ pc \in {"idle", "add", "front"}
  /\ i \in 0..MemLen /\ limit \in 0..MemLen /\ a \in Sums /\ b \in Sums

\* The checksum of a window: every value counts once in the low half; in the
\* high half the last counts once, the one before it twice, and so on.
Lo(from, to) == Sum1[to] - Sum1[from]
Hi(from, to) == Sum2[to] - Sum2[from] - (to - from) * Sum1[from]

\* The sums are those of the window, however it got where it is.
SumOfWindow ==
  /\ sumLo = Lo(front, back) % Width
  /\ sumHi = Hi(front, back) % Width

\* Inside the loop
SumOfPart ==
  pc # "idle" =>
    /\ i <= limit /\ front <= i
    /\ a = Lo(front, i) % Width /\ b = Hi(front, i) % Width
    /\ pc = "front" => limit <= back

-----------------------------------------------------------------------------
(* Proofs: whatever the data, the width of the sums and the calls, the sums  *)
(* are those of the window.  The loop needs an invariant of its own,         *)
(* SumOfPart.                                                                *)

\* Division with remainder
LEMMA DivMod ==
  ASSUME NEW x \in Int
  PROVE  /\ x % Width \in Sums
         /\ x \div Width \in Int
         /\ x = (x \div Width) * Width + (x % Width)
BY WidthAssumption, SMT DEF Sums

\* The remainder is the only sum that differs by a multiple of Width.
LEMMA Unique ==
  ASSUME NEW r \in Sums, NEW s \in Sums, NEW k \in Int, r = s + k * Width
  PROVE  r = s
<1>0. Width \in Nat /\ Width > 0 /\ r \in Int /\ s \in Int /\ r >= 0 /\ s >= 0 /\ r < Width /\ s < Width
  BY WidthAssumption DEF Sums
<1>1. CASE k >= 1
  <2>1. k * Width >= Width
    BY <1>0, <1>1, SMT
  <2> QED BY <2>1, <1>0
<1>2. CASE k <= -1
  <2>1. k * Width <= -Width
    BY <1>0, <1>2, SMT
  <2> QED BY <2>1, <1>0
<1>3. CASE k = 0
  BY <1>0, <1>3
<1> QED BY <1>1, <1>2, <1>3

\* A multiple of Width makes no difference to the remainder.
LEMMA Shift ==
  ASSUME NEW x \in Int, NEW y \in Int, NEW k \in Int, x = y + k * Width
  PROVE  x % Width = y % Width
<1> DEFINE r == x % Width
           s == y % Width
           p == x \div Width
           q == y \div Width
<1>0. Width \in Int
  BY WidthAssumption
<1>1. /\ r \in Sums /\ p \in Int /\ x = p * Width + r
      /\ s \in Sums /\ q \in Int /\ y = q * Width + s
  BY DivMod
<1>2. r \in Int /\ s \in Int
  BY <1>1, <1>0 DEF Sums
<1> HIDE DEF r, s, p, q
<1>3. q + k - p \in Int
  BY <1>1
<1>4. r = s + (q + k - p) * Width
  BY <1>0, <1>1, <1>2, SMT
<1>5. r = s
  BY <1>1, <1>3, <1>4, Unique
<1> QED BY <1>5 DEF r, s

\* Sums and differences of remainders, as in the calls
LEMMA AddRest ==
  ASSUME NEW x \in Int, NEW y \in Int
  PROVE  ((x % Width) + y) % Width = (x + y) % Width
<1> DEFINE r == x % Width
           p == x \div Width
<1>1. Width \in Int /\ r \in Int /\ p \in Int /\ x = p * Width + r
  BY DivMod, WidthAssumption DEF Sums
<1> HIDE DEF r, p
<1>2. -p \in Int /\ r + y \in Int /\ x + y \in Int
  BY <1>1
<1>3. r + y = (x + y) + (-p) * Width
  BY <1>1, SMT
<1>4. (r + y) % Width = (x + y) % Width
  BY <1>2, <1>3, Shift
<1> QED BY <1>4 DEF r

LEMMA AddBoth ==
  ASSUME NEW x \in Int, NEW y \in Int
  PROVE  ((x % Width) + (y % Width)) % Width = (x + y) % Width
<1>1. Width \in Int /\ x % Width \in Int /\ y % Width \in Int
  BY DivMod, WidthAssumption DEF Sums
<1>2. ((x % Width) + (y % Width)) % Width = (x + (y % Width)) % Width
  BY <1>1, AddRest
<1>3. ((y % Width) + x) % Width = (y + x) % Width
  BY AddRest
<1>4. x + (y % Width) = (y % Width) + x /\ y + x = x + y
  BY <1>1
<1> QED BY <1>2, <1>3, <1>4

LEMMA SubTimes ==
  ASSUME NEW x \in Int, NEW y \in Int, NEW z \in Int, NEW n \in Int
  PROVE  ((x % Width) - (y % Width) - n * (z % Width)) % Width
           = (x - y - n * z) % Width
<1> DEFINE r == x % Width
           s == y % Width
           t == z % Width
           p == x \div Width
           q == y \div Width
           m == z \div Width
<1>1. /\ Width \in Int
      /\ r \in Int /\ p \in Int /\ x = p * Width + r
      /\ s \in Int /\ q \in Int /\ y = q * Width + s
      /\ t \in Int /\ m \in Int /\ z = m * Width + t
  BY DivMod, WidthAssumption DEF Sums
<1> HIDE DEF r, s, t, p, q, m
<1>2. /\ q + n * m - p \in Int
      /\ r - s - n * t \in Int /\ x - y - n * z \in Int
  BY <1>1, SMT
<1>3. n * z = (n * m) * Width + n * t
  BY <1>1, SMT
<1>4. (q + n * m - p) * Width = q * Width + (n * m) * Width - p * Width
  BY <1>1, SMT
<1>5. r - s - n * t = (x - y - n * z) + (q + n * m - p) * Width
  <2> DEFINE nt == n * t
             nz == n * z
             nmW == (n * m) * Width
             qW == q * Width
             pW == p * Width
             kW == (q + n * m - p) * Width
  <2>1. /\ nt \in Int /\ nz \in Int /\ nmW \in Int /\ qW \in Int /\ pW \in Int
        /\ nz = nmW + nt /\ kW = qW + nmW - pW
        /\ x = pW + r /\ y = qW + s
    BY <1>1, <1>3, <1>4, SMT
  <2> HIDE DEF nt, nz, nmW, qW, pW, kW
  <2>2. r - s - nt = (x - y - nz) + kW
    BY <2>1, <1>1
  <2> QED BY <2>2 DEF nt, nz, kW
<1>6. (r - s - n * t) % Width = (x - y - n * z) % Width
  BY <1>2, <1>5, Shift
<1> QED BY <1>6 DEF r, s, t

\* One value is a remainder of itself.
LEMMA Small ==
  ASSUME NEW x \in Sums
  PROVE  x \in Int /\ x % Width = x
BY WidthAssumption, SMT DEF Sums

\* The remainder of a difference
LEMMA SubBoth ==
  ASSUME NEW x \in Int, NEW y \in Int
  PROVE  ((x % Width) - (y % Width)) % Width = (x - y) % Width
<1>1. ((x % Width) - (y % Width) - 0 * (0 % Width)) % Width = (x - y - 0 * 0) % Width
  BY SubTimes
<1>2. Width \in Int /\ x % Width \in Int /\ y % Width \in Int /\ 0 % Width \in Int
  BY DivMod, WidthAssumption DEF Sums
<1>3. /\ (x % Width) - (y % Width) - 0 * (0 % Width) = (x % Width) - (y % Width)
      /\ x - y - 0 * 0 = x - y
  BY <1>2, SMT
<1> QED BY <1>1, <1>3

-----------------------------------------------------------------------------
(* The sums of windows *)

\* The checksum of a window that has one value more at its back
LEMMA Longer ==
  ASSUME NEW from \in 0..MemLen, NEW to \in 0..(MemLen - 1)
  PROVE  /\ Mem[to] \in Sums
         /\ Lo(from, to) \in Int /\ Hi(from, to) \in Int
         /\ Lo(from, to + 1) = Lo(from, to) + Mem[to]
         /\ Hi(from, to + 1) = Hi(from, to) + Lo(from, to + 1)
<1> DEFINE S1 == Sum1[from]
           T1 == Sum1[to]
           U1 == Sum1[to + 1]
           S2 == Sum2[from]
           T2 == Sum2[to]
           U2 == Sum2[to + 1]
<1>1. MemLen \in Nat /\ from \in 0..(MemLen + 1) /\ to \in 0..(MemLen + 1)
      /\ to + 1 \in 0..(MemLen + 1) /\ to \in 0..MemLen /\ from \in Int /\ to \in Int
  BY MemAssumption
<1>2. S1 \in Int /\ T1 \in Int /\ U1 \in Int /\ S2 \in Int /\ T2 \in Int /\ U2 \in Int
  BY <1>1, SumsAssumption
<1>3. Mem[to] \in Sums
  BY <1>1, MemAssumption DEF Sums
<1>4. Mem[to] \in Int
  BY <1>3, WidthAssumption DEF Sums
<1>5. U1 = T1 + Mem[to] /\ U2 = T2 + U1
  BY <1>1, SumsAssumption
<1> HIDE DEF S1, T1, U1, S2, T2, U2
<1>6. T1 - S1 \in Int /\ T2 - S2 - (to - from) * S1 \in Int
  BY <1>1, <1>2, SMT
<1>7. U1 - S1 = (T1 - S1) + Mem[to]
  BY <1>2, <1>4, <1>5
<1>8. U2 - S2 - ((to + 1) - from) * S1 = (T2 - S2 - (to - from) * S1) + (U1 - S1)
  BY <1>1, <1>2, <1>5, SMT
<1> QED BY <1>3, <1>6, <1>7, <1>8 DEF Lo, Hi, S1, T1, U1, S2, T2, U2

\* The checksum of a window of which a part is removed at the front
LEMMA Split ==
  ASSUME NEW from \in 0..MemLen, NEW mid \in 0..MemLen, NEW to \in 0..MemLen
  PROVE  /\ Lo(from, mid) \in Int /\ Hi(from, mid) \in Int
         /\ Lo(from, to) \in Int /\ Hi(from, to) \in Int
         /\ Lo(mid, to) = Lo(from, to) - Lo(from, mid)
         /\ Hi(mid, to) = Hi(from, to) - Hi(from, mid) - (to - mid) * Lo(from, mid)
<1> DEFINE F1 == Sum1[from]
           M1 == Sum1[mid]
           T1 == Sum1[to]
           F2 == Sum2[from]
           M2 == Sum2[mid]
           T2 == Sum2[to]
<1>1. /\ MemLen \in Nat /\ from \in 0..(MemLen + 1) /\ mid \in 0..(MemLen + 1)
      /\ to \in 0..(MemLen + 1) /\ from \in Int /\ mid \in Int /\ to \in Int
  BY MemAssumption
<1>2. F1 \in Int /\ M1 \in Int /\ T1 \in Int /\ F2 \in Int /\ M2 \in Int /\ T2 \in Int
  BY <1>1, SumsAssumption
<1> HIDE DEF F1, M1, T1, F2, M2, T2
<1>3. /\ M1 - F1 \in Int /\ T1 - F1 \in Int
      /\ M2 - F2 - (mid - from) * F1 \in Int
      /\ T2 - F2 - (to - from) * F1 \in Int
  BY <1>1, <1>2, SMT
<1>4. T1 - M1 = (T1 - F1) - (M1 - F1)
  BY <1>2
<1>5. /\ (to - mid) * (M1 - F1) = (to - mid) * M1 - (to - mid) * F1
      /\ (to - from) * F1 = (to - mid) * F1 + (mid - from) * F1
  BY <1>1, <1>2, SMT
<1>6. T2 - M2 - (to - mid) * M1
        = (T2 - F2 - (to - from) * F1) - (M2 - F2 - (mid - from) * F1)
            - (to - mid) * (M1 - F1)
  BY <1>1, <1>2, <1>5, SMT
<1> QED BY <1>3, <1>4, <1>6 DEF Lo, Hi, F1, M1, T1, F2, M2, T2

\* The checksum of an empty window
LEMMA Empty ==
  ASSUME NEW at \in 0..MemLen
  PROVE  Lo(at, at) = 0 /\ Hi(at, at) = 0
<1> DEFINE X == Sum1[at]
           Y == Sum2[at]
<1>1. at \in 0..(MemLen + 1) /\ at \in Int
  BY MemAssumption
<1>2. X \in Int /\ Y \in Int
  BY <1>1, SumsAssumption
<1> HIDE DEF X, Y
<1>3. X - X = 0 /\ Y - Y - (at - at) * X = 0
  BY <1>1, <1>2, SMT
<1> QED BY <1>3 DEF Lo, Hi, X, Y

-----------------------------------------------------------------------------
(* The inductive invariant *)

IInv == TypeOK /\ SumOfWindow /\ SumOfPart

\* An empty window has the sums 0.
LEMMA InitInv == Init => IInv
<1> SUFFICES ASSUME Init PROVE IInv
  OBVIOUS
<1>1. 0 \in Sums /\ MemLen \in Nat
  BY WidthAssumption, MemAssumption DEF Sums
<1>2. TypeOK /\ SumOfPart
  BY <1>1 DEF Init, TypeOK, SumOfPart
<1>3. Lo(front, back) = 0 /\ Hi(front, back) = 0
  BY Empty DEF Init
<1>4. 0 % Width = 0
  BY <1>1, Small
<1>5. SumOfWindow
  BY <1>3, <1>4 DEF Init, SumOfWindow
<1> QED BY <1>2, <1>5 DEF IInv

\* What the type invariant says of the window
LEMMA WindowTypes ==
  ASSUME TypeOK
  PROVE  /\ MemLen \in Nat /\ Width \in Int
         /\ front \in Int /\ back \in Int /\ i \in Int /\ limit \in Int
         /\ sumLo \in Int /\ sumHi \in Int /\ a \in Int /\ b \in Int
BY WidthAssumption, MemAssumption DEF TypeOK, Sums

\* One value is added at the back.
LEMMA AddBackInv == IInv /\ AddBack => IInv'
<1> SUFFICES ASSUME IInv, AddBack PROVE IInv'
  OBVIOUS
<1>1. TypeOK /\ SumOfWindow
  BY DEF IInv
<1>2. /\ pc = "idle" /\ back < MemLen /\ back' = back + 1 /\ front' = front
      /\ sumLo' = (sumLo + Mem[back]) % Width
      /\ sumHi' = (sumHi + sumLo') % Width
      /\ pc' = pc /\ i' = i /\ limit' = limit /\ a' = a /\ b' = b
  BY DEF AddBack, loopVars
<1>3. front \in 0..MemLen /\ back \in 0..(MemLen - 1)
  BY <1>1, <1>2, WindowTypes DEF TypeOK
<1>4. /\ Mem[back] \in Sums
      /\ Lo(front, back) \in Int /\ Hi(front, back) \in Int
      /\ Lo(front, back + 1) = Lo(front, back) + Mem[back]
      /\ Hi(front, back + 1) = Hi(front, back) + Lo(front, back + 1)
  BY <1>3, Longer
<1>5. Mem[back] \in Int /\ Lo(front, back + 1) \in Int
  BY <1>4, Small
<1>6. sumLo' = Lo(front, back + 1) % Width
  <2>1. sumLo' = ((Lo(front, back) % Width) + Mem[back]) % Width
    BY <1>1, <1>2 DEF SumOfWindow
  <2> QED BY <2>1, <1>4, <1>5, AddRest
<1>7. sumHi' = Hi(front, back + 1) % Width
  <2>1. sumHi' = ((Hi(front, back) % Width) + (Lo(front, back + 1) % Width)) % Width
    BY <1>1, <1>2, <1>6 DEF SumOfWindow
  <2> QED BY <2>1, <1>4, <1>5, AddBoth
<1>8. SumOfWindow'
  BY <1>2, <1>6, <1>7 DEF SumOfWindow, Lo, Hi
<1>9. sumLo' \in Sums /\ sumHi' \in Sums
  <2>1. Hi(front, back + 1) \in Int
    BY <1>4, <1>5
  <2> QED BY <2>1, <1>5, <1>6, <1>7, DivMod
<1>10. TypeOK'
  <2>1. back' \in 0..MemLen /\ front <= back'
    BY <1>1, <1>2, <1>3, WindowTypes DEF TypeOK
  <2> QED BY <1>1, <1>2, <1>9, <2>1 DEF TypeOK, Sums
<1>11. SumOfPart'
  BY <1>2 DEF SumOfPart
<1> QED BY <1>8, <1>10, <1>11 DEF IInv

\* One value is removed at the front: it counted as often as the window is long.
LEMMA RemoveFrontInv == IInv /\ RemoveFront => IInv'
<1> SUFFICES ASSUME IInv, RemoveFront PROVE IInv'
  OBVIOUS
<1>1. TypeOK /\ SumOfWindow
  BY DEF IInv
<1>2. /\ pc = "idle" /\ front < back /\ front' = front + 1 /\ back' = back
      /\ sumHi' = (sumHi - (back - front) * Mem[front]) % Width
      /\ sumLo' = (sumLo - Mem[front]) % Width
      /\ pc' = pc /\ i' = i /\ limit' = limit /\ a' = a /\ b' = b
  BY DEF RemoveFront, loopVars
<1>3. /\ front \in 0..MemLen /\ back \in 0..MemLen /\ front + 1 \in 0..MemLen
      /\ front \in 0..(MemLen - 1) /\ front \in Int /\ back \in Int
  BY <1>1, <1>2, WindowTypes DEF TypeOK
<1> DEFINE m == Mem[front]
           L == Lo(front, back)
           H == Hi(front, back)
           n == back - front
<1>4. m \in Sums /\ L \in Int /\ H \in Int /\ n \in Int
  BY <1>3, Longer, Split
<1>5. m \in Int /\ m % Width = m /\ 0 \in Sums
  BY <1>4, Small, WidthAssumption DEF Sums
<1>6. Lo(front, front + 1) = m /\ Hi(front, front + 1) = m
  <2>1. /\ Lo(front, front + 1) = Lo(front, front) + m
        /\ Hi(front, front + 1) = Hi(front, front) + Lo(front, front + 1)
    BY <1>3, Longer
  <2>2. Lo(front, front) = 0 /\ Hi(front, front) = 0
    BY <1>3, Empty
  <2> HIDE DEF m
  <2>3. Lo(front, front + 1) = m
    BY <2>1, <2>2, <1>5
  <2> QED BY <2>1, <2>2, <2>3, <1>5
<1>7. /\ Lo(front + 1, back) = L - m
      /\ Hi(front + 1, back) = H - m - (back - (front + 1)) * m
  <2>1. /\ Lo(front + 1, back) = Lo(front, back) - Lo(front, front + 1)
        /\ Hi(front + 1, back) = Hi(front, back) - Hi(front, front + 1)
                                    - (back - (front + 1)) * Lo(front, front + 1)
    BY ONLY <1>3, Split
  <2> QED BY <2>1, <1>6
<1> HIDE DEF m, L, H, n
<1>8. sumLo' = Lo(front + 1, back) % Width
  <2>1. sumLo' = ((L % Width) - (m % Width)) % Width
    BY <1>1, <1>2, <1>5 DEF SumOfWindow, L, m
  <2> QED BY <2>1, <1>4, <1>5, <1>7, SubBoth
<1>9. sumHi' = (H - n * m) % Width
  <2>1. sumHi' = ((H % Width) - n * (m % Width)) % Width
    BY <1>1, <1>2, <1>5 DEF SumOfWindow, H, m, n
  <2>2. H % Width \in Int /\ 0 % Width = 0 /\ m % Width \in Int
    BY <1>4, <1>5, Small, DivMod, WidthAssumption DEF Sums
  <2>3. ((H % Width) - (0 % Width) - n * (m % Width)) % Width = (H - 0 - n * m) % Width
    BY <1>4, <1>5, SubTimes
  <2> DEFINE h == H % Width
             nm == n * (m % Width)
             nn == n * m
  <2>4. h \in Int /\ nm \in Int /\ nn \in Int
    BY <2>2, <1>4, <1>5, SMT
  <2>5. h - (0 % Width) - nm = h - nm /\ H - 0 - nn = H - nn
    <3> HIDE DEF h, nm, nn
    <3> QED BY <2>2, <2>4, <1>4
  <2> QED BY <2>1, <2>3, <2>5
<1>10. H - n * m = H - m - (back - (front + 1)) * m
  BY <1>3, <1>4, <1>5, SMT DEF n
<1>11. SumOfWindow'
  BY <1>2, <1>7, <1>8, <1>9, <1>10 DEF SumOfWindow, Lo, Hi
<1>12. sumLo' \in Sums /\ sumHi' \in Sums
  <2>1. L - m \in Int /\ H - n * m \in Int
    BY <1>4, <1>5, SMT
  <2> QED BY <2>1, <1>7, <1>8, <1>9, DivMod
<1>13. TypeOK'
  <2>1. front' \in 0..MemLen /\ front' <= back
    BY <1>2, <1>3
  <2> QED BY <1>1, <1>2, <1>12, <2>1 DEF TypeOK, Sums
<1>14. SumOfPart'
  BY <1>2 DEF SumOfPart
<1> QED BY <1>11, <1>13, <1>14 DEF IInv

\* addBack(mem, len) begins with the sums of the window.
LEMMA StartAddInv ==
  ASSUME IInv, NEW len \in 0..MemLen, StartAdd(len)
  PROVE  IInv'
<1>1. TypeOK /\ SumOfWindow
  BY DEF IInv
<1>2. /\ pc' = "add" /\ i' = back /\ limit' = back + len /\ back + len <= MemLen
      /\ a' = sumLo /\ b' = sumHi
      /\ front' = front /\ back' = back /\ sumLo' = sumLo /\ sumHi' = sumHi
  BY DEF StartAdd
<1>3. limit' \in 0..MemLen /\ i' <= limit' /\ front' <= i'
  BY <1>1, <1>2, WindowTypes DEF TypeOK
<1>4. TypeOK'
  BY <1>1, <1>2, <1>3 DEF TypeOK, Sums
<1>5. SumOfWindow'
  BY <1>1, <1>2 DEF SumOfWindow, Lo, Hi
<1>6. SumOfPart'
  BY <1>1, <1>2, <1>3 DEF SumOfWindow, SumOfPart, Lo, Hi
<1> QED BY <1>4, <1>5, <1>6 DEF IInv

\* removeFront(mem, len, areaSize) begins with the sums of an empty window.
LEMMA StartRemoveInv ==
  ASSUME IInv, NEW len \in 0..MemLen, StartRemove(len)
  PROVE  IInv'
<1>1. TypeOK /\ SumOfWindow
  BY DEF IInv
<1>2. /\ pc' = "front" /\ i' = front /\ limit' = front + len /\ front + len <= back
      /\ a' = 0 /\ b' = 0
      /\ front' = front /\ back' = back /\ sumLo' = sumLo /\ sumHi' = sumHi
  BY DEF StartRemove
<1>3. /\ limit' \in 0..MemLen /\ i' <= limit' /\ front' <= i' /\ limit' <= back'
      /\ front \in 0..MemLen
  BY <1>1, <1>2, WindowTypes DEF TypeOK
<1>4. 0 \in Sums /\ 0 % Width = 0
  BY Small, WidthAssumption DEF Sums
<1>5. TypeOK'
  BY <1>1, <1>2, <1>3, <1>4 DEF TypeOK, Sums
<1>6. SumOfWindow'
  BY <1>1, <1>2 DEF SumOfWindow, Lo, Hi
<1>7. Lo(front, front) = 0 /\ Hi(front, front) = 0
  BY <1>3, Empty
<1>8. SumOfPart'
  <2>1. Lo(front', i') = 0 /\ Hi(front', i') = 0
    BY <1>2, <1>7
  <2> QED BY <1>2, <1>3, <1>4, <2>1 DEF SumOfPart, Lo, Hi
<1> QED BY <1>5, <1>6, <1>8 DEF IInv

\* One byte of the loop
LEMMA LoopInv == IInv /\ Loop => IInv'
<1> SUFFICES ASSUME IInv, Loop PROVE IInv'
  OBVIOUS
<1>1. TypeOK /\ SumOfWindow /\ SumOfPart
  BY DEF IInv
<1>2. /\ pc # "idle" /\ i < limit /\ i' = i + 1
      /\ a' = (a + Mem[i]) % Width /\ b' = (b + a') % Width
      /\ front' = front /\ back' = back /\ sumLo' = sumLo /\ sumHi' = sumHi
      /\ pc' = pc /\ limit' = limit
  BY DEF Loop
<1>3. /\ front <= i /\ a = Lo(front, i) % Width /\ b = Hi(front, i) % Width
      /\ (pc = "front" => limit <= back)
  BY <1>1, <1>2 DEF SumOfPart
<1>4. front \in 0..MemLen /\ i \in 0..(MemLen - 1)
  BY <1>1, <1>2, WindowTypes DEF TypeOK
<1>5. /\ Mem[i] \in Sums
      /\ Lo(front, i) \in Int /\ Hi(front, i) \in Int
      /\ Lo(front, i + 1) = Lo(front, i) + Mem[i]
      /\ Hi(front, i + 1) = Hi(front, i) + Lo(front, i + 1)
  BY <1>4, Longer
<1>6. Mem[i] \in Int /\ Lo(front, i + 1) \in Int /\ Hi(front, i + 1) \in Int
  BY <1>5, Small
<1>7. a' = Lo(front, i + 1) % Width
  <2>1. a' = ((Lo(front, i) % Width) + Mem[i]) % Width
    BY <1>2, <1>3
  <2> QED BY <2>1, <1>5, <1>6, AddRest
<1>8. b' = Hi(front, i + 1) % Width
  <2>1. b' = ((Hi(front, i) % Width) + (Lo(front, i + 1) % Width)) % Width
    BY <1>2, <1>3, <1>7
  <2> QED BY <2>1, <1>5, <1>6, AddBoth
<1>9. a' \in Sums /\ b' \in Sums
  BY <1>6, <1>7, <1>8, DivMod
<1>10. i' \in 0..MemLen /\ i' <= limit /\ front <= i'
  BY <1>1, <1>2, <1>3, WindowTypes DEF TypeOK
<1>11. TypeOK'
  BY <1>1, <1>2, <1>9, <1>10 DEF TypeOK, Sums
<1>12. SumOfWindow'
  BY <1>1, <1>2 DEF SumOfWindow, Lo, Hi
<1>13. SumOfPart'
  BY <1>2, <1>3, <1>7, <1>8, <1>10 DEF SumOfPart, Lo, Hi
<1> QED BY <1>11, <1>12, <1>13 DEF IInv

\* The sums of the loop become those of the window.
LEMMA EndAddInv == IInv /\ EndAdd => IInv'
<1> SUFFICES ASSUME IInv, EndAdd PROVE IInv'
  OBVIOUS
<1>1. TypeOK /\ SumOfPart
  BY DEF IInv
<1>2. /\ pc = "add" /\ i = limit /\ sumLo' = a /\ sumHi' = b /\ back' = limit
      /\ pc' = "idle" /\ front' = front
      /\ i' = i /\ limit' = limit /\ a' = a /\ b' = b
  BY DEF EndAdd, loopVars
<1>3. front <= i /\ a = Lo(front, i) % Width /\ b = Hi(front, i) % Width
  BY <1>1, <1>2 DEF SumOfPart
<1>4. TypeOK'
  BY <1>1, <1>2, <1>3 DEF TypeOK, Sums
<1>5. SumOfWindow'
  BY <1>2, <1>3 DEF SumOfWindow, Lo, Hi
<1>6. SumOfPart'
  BY <1>2 DEF SumOfPart
<1> QED BY <1>4, <1>5, <1>6 DEF IInv

\* The sums of what is removed are taken off.
LEMMA EndRemoveInv == IInv /\ EndRemove => IInv'
<1> SUFFICES ASSUME IInv, EndRemove PROVE IInv'
  OBVIOUS
<1>1. TypeOK /\ SumOfWindow /\ SumOfPart
  BY DEF IInv
<1>2. /\ pc = "front" /\ i = limit /\ front' = limit /\ back' = back /\ pc' = "idle"
      /\ sumLo' = (sumLo - a) % Width
      /\ sumHi' = (sumHi - b - (back - limit) * a) % Width
      /\ i' = i /\ limit' = limit /\ a' = a /\ b' = b
  BY DEF EndRemove, loopVars
<1>3. /\ front <= limit /\ limit <= back
      /\ a = Lo(front, limit) % Width /\ b = Hi(front, limit) % Width
  BY <1>1, <1>2 DEF SumOfPart
<1>4. /\ front \in 0..MemLen /\ limit \in 0..MemLen /\ back \in 0..MemLen
      /\ back - limit \in Int
  BY <1>1, WindowTypes DEF TypeOK
<1>5. /\ Lo(front, limit) \in Int /\ Hi(front, limit) \in Int
      /\ Lo(front, back) \in Int /\ Hi(front, back) \in Int
      /\ Lo(limit, back) = Lo(front, back) - Lo(front, limit)
      /\ Hi(limit, back) = Hi(front, back) - Hi(front, limit)
                             - (back - limit) * Lo(front, limit)
  BY ONLY <1>4, Split
<1>6. sumLo' = Lo(limit, back) % Width
  <2>1. sumLo' = ((Lo(front, back) % Width) - (Lo(front, limit) % Width)) % Width
    BY <1>1, <1>2, <1>3 DEF SumOfWindow
  <2> QED BY <2>1, <1>5, SubBoth
<1>7. sumHi' = Hi(limit, back) % Width
  <2>1. sumHi' = ((Hi(front, back) % Width) - (Hi(front, limit) % Width)
                   - (back - limit) * (Lo(front, limit) % Width)) % Width
    BY <1>1, <1>2, <1>3 DEF SumOfWindow
  <2> DEFINE x == Hi(front, back)
             y == Hi(front, limit)
             z == Lo(front, limit)
             n == back - limit
  <2>2. x \in Int /\ y \in Int /\ z \in Int /\ n \in Int
    BY <1>4, <1>5
  <2>3. Hi(limit, back) = x - y - n * z
    BY <1>5
  <2> HIDE DEF x, y, z, n
  <2>4. ((x % Width) - (y % Width) - n * (z % Width)) % Width
          = (x - y - n * z) % Width
    BY ONLY <2>2, SubTimes
  <2> QED BY <2>1, <2>3, <2>4 DEF x, y, z, n
<1>8. SumOfWindow'
  BY <1>2, <1>6, <1>7 DEF SumOfWindow, Lo, Hi
<1>9. sumLo' \in Sums /\ sumHi' \in Sums
  <2>1. Lo(limit, back) \in Int /\ Hi(limit, back) \in Int
    BY ONLY <1>4, Split
  <2> QED BY <2>1, <1>6, <1>7, DivMod
<1>10. TypeOK'
  BY <1>1, <1>2, <1>3, <1>9 DEF TypeOK, Sums
<1>11. SumOfPart'
  BY <1>2 DEF SumOfPart
<1> QED BY <1>8, <1>10, <1>11 DEF IInv

\* Every step preserves the invariant.
LEMMA NextInv == IInv /\ [Next]_vars => IInv'
<1> SUFFICES ASSUME IInv, [Next]_vars PROVE IInv'
  OBVIOUS
<1>1. CASE AddBack
  BY <1>1, AddBackInv
<1>2. CASE RemoveFront
  BY <1>2, RemoveFrontInv
<1>3. CASE Loop
  BY <1>3, LoopInv
<1>4. CASE EndAdd
  BY <1>4, EndAddInv
<1>5. CASE EndRemove
  BY <1>5, EndRemoveInv
<1>6. CASE \E len \in 0..MemLen : StartAdd(len) \/ StartRemove(len)
  BY <1>6, StartAddInv, StartRemoveInv
<1>7. CASE UNCHANGED vars
  BY <1>7 DEF vars, IInv, TypeOK, SumOfWindow, SumOfPart, Lo, Hi, Sums
<1> QED BY <1>1, <1>2, <1>3, <1>4, <1>5, <1>6, <1>7 DEF Next

-----------------------------------------------------------------------------
(* The theorems *)

\* The invariant holds in every reachable state.
LEMMA Invariant == Spec => []IInv
BY InitInv, NextInv, PTL DEF Spec

\* Types: the sums never leave their width (rsyncsum.hh, & 0xffffffff).
THEOREM TypeCorrect == Spec => []TypeOK
<1>1. IInv => TypeOK
  BY DEF IInv
<1> QED BY <1>1, Invariant, PTL

\* The sums are those of what the window covers, for every width, all data and
\* every order of calls (RsyncSum64::addBack, removeFront).
THEOREM RollingCorrect == Spec => []SumOfWindow
<1>1. IInv => SumOfWindow
  BY DEF IInv
<1> QED BY <1>1, Invariant, PTL

\* So are those of the loop over many bytes, for the bytes it has seen
\* (RsyncSum64::addBack2).
THEOREM LoopCorrect == Spec => []SumOfPart
<1>1. IInv => SumOfPart
  BY DEF IInv
<1> QED BY <1>1, Invariant, PTL
=============================================================================
