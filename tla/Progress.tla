------------------------------ MODULE Progress ------------------------------
(* util/progress.cc: the speed of a download and the time it has left, from a
   ring of notes "at this time we had this much", one per interval. The object
   belongs to a SingleUrl, which sets the sizes and turns the automatic ticks
   on with the first data (job/single-url.cc); GtkSingleUrl shows what it says
   (gtk/gtk-single-url.cc). Time is counted in parts of a second, as a GTimeVal
   has seconds and microseconds. *)
EXTENDS Integers, Sequences, FiniteSets, TLC

CONSTANTS
  SPEED_SLOTS,          \* number of slots of the ring
  SPEED_TICK_INTERVAL,  \* length of an interval
  SPEED_MAX_GROW, SPEED_MIN_SHRINK,
  TIME_LEFT_GROW_THRESHOLD,
  SecondParts,          \* parts of a second
  Wrap,                 \* 2^64
  IntMax,               \* the largest int
  Chunks,               \* sizes of what the network delivers at once
  DataSizes,            \* possible sizes of the object, 0 for unknown
  MaxSize, MaxNow,      \* bounds: bytes, time
  SizeScales,           \* bytes per counted byte, for what is displayed
  MaxRestarts,          \* bound: how often the download is started again
  Late,                 \* how late the main loop may be
  SetBack               \* how far the clock may be set back

ProgressAssumption ==
  /\ SPEED_SLOTS \in Nat /\ SPEED_SLOTS >= 2
  /\ SPEED_TICK_INTERVAL \in Nat \ {0} /\ SecondParts \in Nat \ {0}
  /\ Wrap > MaxSize

VARIABLES
  currentSizeVal, dataSizeVal,
  slotSizeVal, slotStart,   \* per slot; slotStart is 0 when not used yet
  currSlot, calcSlot, currSlotLeft, prevTimeLeft,
  now,                      \* the clock
  due,                      \* when the next tick is due; 0: no automatic ticks
  shown,                    \* what was displayed last
  punctual,                 \* how many of the last ticks came when due
  quiet,                    \* intervals that have passed without data
  restarts

ring == <<slotSizeVal, slotStart, currSlot, calcSlot, currSlotLeft>>
sizes == <<currentSizeVal, dataSizeVal>>
vars == <<sizes, ring, prevTimeLeft, now, due, shown, punctual, quiet, restarts>>

Slot == 0 .. SPEED_SLOTS - 1
NotShown == [speed |-> -1, left |-> -1]
Minus(a, b) == (a - b) % Wrap
Seconds(t) == t \div SecondParts

(* ---------------------------- reset and ticks ---------------------------- *)

\* Mutant of Reset: the size is set after it.
ResetTooEarly ==
  /\ currSlot' = 0 /\ calcSlot' = 0
  /\ currSlotLeft' = SPEED_TICK_INTERVAL
  /\ prevTimeLeft' = -TIME_LEFT_GROW_THRESHOLD
  /\ slotStart' = [i \in Slot |-> IF i = 0 THEN now ELSE 0]
  /\ slotSizeVal' = [i \in Slot |-> IF i = 0 THEN currentSizeVal ELSE 0]

\* Note the size and the time now, and forget all else. currentSize' is known.
Reset ==
  /\ currSlot' = 0 /\ calcSlot' = 0
  /\ currSlotLeft' = SPEED_TICK_INTERVAL
  /\ prevTimeLeft' = -TIME_LEFT_GROW_THRESHOLD
  /\ slotStart' = [i \in Slot |-> IF i = 0 THEN now ELSE 0]
  /\ slotSizeVal' = [i \in Slot |-> IF i = 0 THEN currentSizeVal' ELSE 0]

\* Mutant of Newer: the end of the array is not noticed.
NewerOver(i) == i + 1
Newer(i) == (i + 1) % SPEED_SLOTS
Older(i) == (i - 1) % SPEED_SLOTS

\* Mutant of Differs: an interval without data is no change.
DiffersUp ==
  LET old == Older(currSlot)
      slotSize == Minus(currentSizeVal, slotSizeVal[currSlot])
      oldSlotSize == Minus(slotSizeVal[currSlot], slotSizeVal[old])
  IN slotStart[old] # 0
     /\ (100 * slotSize) \div (oldSlotSize + 1) >= SPEED_MAX_GROW
\* The slot just finished brought much more or less than the one before.
Differs ==
  LET old == Older(currSlot)
      slotSize == Minus(currentSizeVal, slotSizeVal[currSlot])
      oldSlotSize == Minus(slotSizeVal[currSlot], slotSizeVal[old])
      sizeChange == (100 * slotSize) \div (oldSlotSize + 1)
  IN /\ slotStart[old] # 0
     /\ (sizeChange >= SPEED_MAX_GROW \/ sizeChange <= SPEED_MIN_SHRINK)

\* Mutant of CalcSlot: it is not moved on when the ring is full.
CalcSlotStays(new) == IF Differs THEN currSlot ELSE calcSlot
\* The slot to compute with, when a new slot starts at "new".
CalcSlot(new) ==
  LET calc == IF Differs THEN currSlot ELSE calcSlot
  IN IF new = calc THEN Newer(calc) ELSE calc

\* Mutant of Tick: a slot takes two intervals.
TickLong(millisecs) ==
  IF currSlotLeft - millisecs > 0
  THEN /\ currSlotLeft' = currSlotLeft - millisecs
       /\ UNCHANGED <<slotSizeVal, slotStart, currSlot, calcSlot, quiet>>
  ELSE LET new == Newer(currSlot)
       IN /\ currSlotLeft' = currSlotLeft - millisecs + 2 * SPEED_TICK_INTERVAL
          /\ currSlot' = new
          /\ slotSizeVal' = [slotSizeVal EXCEPT ![new] = currentSizeVal]
          /\ slotStart' = [slotStart EXCEPT ![new] = now]
          /\ calcSlot' = CalcSlot(new)
          /\ quiet' = IF quiet = 2 THEN 2 ELSE quiet + 1
\* tick(now, millisecs), called by the timer of all objects.
Tick(millisecs) ==
  IF currSlotLeft - millisecs > 0
  THEN /\ currSlotLeft' = currSlotLeft - millisecs
       /\ UNCHANGED <<slotSizeVal, slotStart, currSlot, calcSlot, quiet>>
  ELSE LET new == Newer(currSlot)
       IN /\ currSlotLeft' = currSlotLeft - millisecs + SPEED_TICK_INTERVAL
          /\ currSlot' = new
          /\ slotSizeVal' = [slotSizeVal EXCEPT ![new] = currentSizeVal]
          /\ slotStart' = [slotStart EXCEPT ![new] = now]
          /\ calcSlot' = CalcSlot(new)
          /\ quiet' = IF quiet = 2 THEN 2 ELSE quiet + 1

(* -------------------------- speed and time left -------------------------- *)

\* Quotient rounded towards zero, as the conversion of a double to an integer.
Quotient(a, b) ==
  LET abs(x) == IF x < 0 THEN -x ELSE x
      q == abs(a) \div abs(b)
  IN IF (a < 0) = (b < 0) THEN q ELSE -q

\* Bytes per second; -1 for unknown.
Speed ==
  LET elapsed == now - slotStart[calcSlot]
  IN IF elapsed = 0 THEN -1
     ELSE Quotient(Minus(currentSizeVal, slotSizeVal[calcSlot]) * SecondParts,
                   elapsed)

\* The first slot from the one after the current one on that is in use.
OldestSlot ==
  LET next == Newer(currSlot)
      after == CHOOSE k \in 0 .. SPEED_SLOTS - 1 :
                 /\ slotStart[(next + k) % SPEED_SLOTS] # 0
                 /\ \A j \in 0 .. k - 1 :
                      slotStart[(next + j) % SPEED_SLOTS] = 0
  IN (next + after) % SPEED_SLOTS

\* A double as an uint32, and that as an int. What does not fit in an uint32
\* is undefined.
AsInt(x) == IF x \in 0 .. IntMax THEN {x}
            ELSE IF x \in IntMax + 1 .. 2 * IntMax + 1
                 THEN {x - 2 * (IntMax + 1)}
                 ELSE {-IntMax - 1, -1, IntMax}

\* Seconds that are left, before any smoothing; {} when not known.
Remaining ==
  LET slot == OldestSlot
      elapsed == now - slotStart[slot]
      bytes == Minus(currentSizeVal, slotSizeVal[slot])
  IN IF \/ dataSizeVal <= currentSizeVal
        \/ Seconds(now) = Seconds(slotStart[slot]) \/ bytes = 0
     THEN {}
     ELSE AsInt(Quotient((dataSizeVal - currentSizeVal) * elapsed,
                         bytes * SecondParts))

\* Mutant of Smoothed: changes in both directions are held back.
SmoothedBoth(remaining) ==
  IF prevTimeLeft - TIME_LEFT_GROW_THRESHOLD < remaining
     /\ remaining < prevTimeLeft + TIME_LEFT_GROW_THRESHOLD
  THEN prevTimeLeft ELSE remaining
\* A value that is a little higher than the one before is not reported.
Smoothed(remaining) ==
  IF prevTimeLeft <= remaining
     /\ remaining < prevTimeLeft + TIME_LEFT_GROW_THRESHOLD
  THEN prevTimeLeft ELSE remaining

(* ------------------------------ the display ------------------------------ *)

KB == 1024
MB == 1048576

\* Mutant of Size: whole units from the first one on.
SizeWhole(size) ==
  CASE size < KB -> [unit |-> 1, tenths |-> 10 * size]
    [] size >= KB /\ size < MB -> [unit |-> KB, tenths |-> 10 * (size \div KB)]
    [] OTHER -> [unit |-> MB, tenths |-> 10 * (size \div MB)]
\* A size in at most four digits: a number of units, with tenths if few.
Size(size) ==
  CASE size < 10000 -> [unit |-> 1, tenths |-> 10 * size]
    [] size >= 10000 /\ size < KB * 100 ->
         [unit |-> KB, tenths |-> (10 * size + KB \div 2) \div KB]
    [] size >= KB * 100 /\ size < KB * 10000 ->
         [unit |-> KB, tenths |-> 10 * (size \div KB)]
    [] size >= KB * 10000 /\ size < MB * 100 ->
         [unit |-> MB, tenths |-> (10 * (size \div KB) + KB \div 2) \div KB]
    [] OTHER -> [unit |-> MB, tenths |-> 10 * (size \div MB)]

\* GtkSingleUrl::showProgress(): timeLeft(), then speed().
ShowProgress ==
  /\ \/ /\ Remaining = {}
        /\ shown' = [speed |-> Speed, left |-> -1]
        /\ UNCHANGED prevTimeLeft
     \/ \E remaining \in Remaining :
          /\ prevTimeLeft' = Smoothed(remaining)
          /\ shown' = [speed |-> Speed, left |-> Smoothed(remaining)]
  /\ UNCHANGED <<sizes, ring, now, due, punctual, quiet, restarts>>

(* ------------------------- the download, the clock ------------------------ *)

Init ==
  /\ currentSizeVal = 0 /\ dataSizeVal = 0
  /\ now = 1
  /\ currSlot = 0 /\ calcSlot = 0 /\ currSlotLeft = SPEED_TICK_INTERVAL
  /\ slotStart = [i \in Slot |-> IF i = 0 THEN 1 ELSE 0]
  /\ slotSizeVal = [i \in Slot |-> 0]
  /\ prevTimeLeft = -TIME_LEFT_GROW_THRESHOLD
  /\ due = 0 /\ shown = NotShown /\ punctual = 0
  /\ quiet = 0 /\ restarts = 0

\* SingleUrl::run(), after setResumeOffset() or without it.
Run ==
  /\ restarts < MaxRestarts
  /\ \E offset \in 0 .. currentSizeVal :
       /\ currentSizeVal' = offset
       /\ dataSizeVal' = 0
       /\ Reset
  /\ restarts' = restarts + 1 /\ quiet' = 0 /\ punctual' = 0
  /\ UNCHANGED <<now, due, shown>>

\* download_dataSize(): the server tells the size of the object.
DataSize ==
  /\ dataSizeVal = 0
  /\ \E n \in DataSizes \ {0} : dataSizeVal' = n
  /\ UNCHANGED <<currentSizeVal, ring, prevTimeLeft, now, due, shown, punctual,
                 quiet, restarts>>

\* download_data(): with the first data the automatic ticks are turned on. The
\* timer may run already, for another download.
Data ==
  /\ \E n \in Chunks : /\ currentSizeVal + n <= MaxSize
                       /\ currentSizeVal' = currentSizeVal + n
  /\ \/ due # 0 /\ UNCHANGED <<due, punctual>>
     \/ /\ due = 0 /\ punctual' = 0
        /\ \E d \in 1 .. SPEED_TICK_INTERVAL : due' = now + d
  /\ quiet' = 0
  /\ UNCHANGED <<dataSizeVal, ring, prevTimeLeft, now, shown, restarts>>

\* download_failed(), download_succeeded(), resumeFailed()
Stop ==
  /\ due # 0 /\ due' = 0
  /\ UNCHANGED <<sizes, ring, prevTimeLeft, now, shown, punctual, quiet, restarts>>

\* autoTickCallback()
AutoTick ==
  /\ due # 0 /\ now >= due
  /\ Tick(SPEED_TICK_INTERVAL)
  /\ due' = now + SPEED_TICK_INTERVAL
  /\ punctual' = IF now > due THEN 0
                 ELSE IF punctual = SPEED_SLOTS THEN punctual ELSE punctual + 1
  /\ UNCHANGED <<sizes, prevTimeLeft, now, shown, restarts>>

TimePasses ==
  /\ now < MaxNow /\ (due = 0 \/ now < due + Late)
  /\ now' = now + 1
  /\ UNCHANGED <<sizes, ring, prevTimeLeft, due, shown, punctual, quiet, restarts>>

ClockSetBack ==
  /\ \E d \in 1 .. SetBack :
       /\ now > d
       /\ now' = now - d
       /\ due' = IF due = 0 THEN 0 ELSE now - d + SPEED_TICK_INTERVAL
  /\ punctual' = 0
  /\ UNCHANGED <<sizes, ring, prevTimeLeft, shown, quiet, restarts>>

Next == \/ Run \/ DataSize \/ Data \/ Stop \/ AutoTick \/ ShowProgress
        \/ TimePasses \/ ClockSetBack

Spec == Init /\ [][Next]_vars

(* ------------------------------ properties ------------------------------- *)

TypeOK ==
  /\ currentSizeVal \in 0 .. MaxSize /\ dataSizeVal \in DataSizes
  /\ slotSizeVal \in [Slot -> 0 .. MaxSize] /\ slotStart \in [Slot -> 0 .. MaxNow]
  /\ currSlot \in Slot /\ calcSlot \in Slot
  /\ currSlotLeft \in 1 .. SPEED_TICK_INTERVAL
  /\ prevTimeLeft \in -IntMax - 1 .. IntMax
  /\ now \in 1 .. MaxNow /\ due \in 0 .. MaxNow + SPEED_TICK_INTERVAL
  /\ punctual \in 0 .. SPEED_SLOTS /\ quiet \in 0 .. 2
  /\ restarts \in 0 .. MaxRestarts

\* The slots in use, from the oldest to the current one, as a sequence.
InUse == Cardinality({i \in Slot : slotStart[i] # 0})
Samples == [k \in 1 .. InUse |->
              LET slot == (currSlot - (InUse - k)) % SPEED_SLOTS
              IN [at |-> slotStart[slot], size |-> slotSizeVal[slot]]]

From == InUse - ((currSlot - calcSlot) % SPEED_SLOTS)
Sample == [at |-> now, size |-> currentSizeVal]

\* The last interval brought much more or much less than the one before it.
RateChanged ==
  /\ InUse > 1
  /\ LET last == Samples[InUse].size
         percent == (100 * (currentSizeVal - last))
                      \div ((last - Samples[InUse - 1].size) + 1)
     IN percent >= SPEED_MAX_GROW \/ percent <= SPEED_MIN_SHRINK

\* What the ring buffer with its indices that wrap around has to be: a window
\* of the newest samples.  It starts anew with a download; with each interval
\* that ends there is one more, and the oldest gives way if there is no room.
\* The speed is computed from the oldest sample on, or from the one where the
\* rate changed abruptly.
WindowStep ==
  \/ Samples' = <<Sample'>> /\ From' = 1
  \/ LET all == Append(Samples, Sample)
         tooMany == IF Len(all) > SPEED_SLOTS THEN 1 ELSE 0
         base == IF RateChanged THEN InUse ELSE From
     IN /\ Samples' = SubSeq(all, 1 + tooMany, Len(all))
        /\ From' = IF base > tooMany THEN base - tooMany ELSE 1

\* The ring buffer is that window, at every step.
WindowFollowed == WindowStep \/ UNCHANGED <<Samples, From>>

\* Two intervals after the last data, the speed is zero: "React quickly when
\* data suddenly stops flowing" (progress.cc:125).
StallIsSeen == quiet = 2 => Speed <= 0

\* "calculate the average download rate for the last 30 secs" (progress.hh:100):
\* after enough ticks on time, the speed is never that of a longer time.
RateIsRecent ==
  punctual = SPEED_SLOTS /\ due # 0 /\ now <= due
    => now - slotStart[calcSlot] <= SPEED_SLOTS * SPEED_TICK_INTERVAL

\* What is shown is never more seconds than what was computed, nor fewer by the
\* threshold or more.
NeverTooLong ==
  ShowProgress /\ Cardinality(Remaining) = 1
    => LET remaining == CHOOSE r \in Remaining : TRUE
       IN /\ shown'.left <= remaining
          /\ remaining < shown'.left + TIME_LEFT_GROW_THRESHOLD

\* The size that is shown is right within one percent, whatever its scale.
RightFor(n) ==
  LET s == Size(n)
      exact == (n * 10) \div s.unit
      diff == IF s.tenths > exact THEN s.tenths - exact ELSE exact - s.tenths
  IN 100 * diff <= exact + 100
SizeIsRight == \A scale \in SizeScales : RightFor(scale * currentSizeVal)

\* "Return estimated bytes/sec for (roughly) last few secs (-1 for unknown)"
\* (progress.hh:62): never another negative number.
SpeedIsKnown == shown.speed >= -1

\* "Return estimated remaining time in seconds (-1 for unknown)"
\* (progress.hh:65).
LeftIsKnown == shown.left >= -1
=============================================================================
