------------------------------ MODULE SystemTime ------------------------------
(***************************************************************************)
(* The system clock of the previous kernel (axon/source_old/system/time.c):  *)
(* the ticks of the external timer measure the counter, the first of them    *)
(* that counts reads the real time clock                                    *)
(* (axon/source_old/arch_x86/time_x86.c), and any processor asks for the time *)
(* since boot.  Nanoseconds and counts are scaled down; threads ask once the  *)
(* processors have been synchronised, as at the end of the start.            *)
(***************************************************************************)
EXTENDS Integers, Sequences

CONSTANTS
  Readers,    \* the processors that ask for the time
  Second,     \* the nanoseconds in a second
  Period,     \* the nanoseconds between two ticks
  Frequency,  \* of the counter, as its driver has it
  TopCount,   \* the greatest value of the counter, as its driver has it
  Word,       \* the numbers that a uint64_t has
  Depth,      \* the length of g_sync_history: six
  Attempts,   \* RTC_MAX_READ_ATTEMPTS
  MaxDrift,   \* bound: of what the counter counts between two ticks
  MaxLast,    \* bound: of the times returned
  MaxTicks,   \* bound: of the ticks
  MaxChanges  \* bound: of the real time clock

Ignored == 2 \* the ticks that do not count

VARIABLES
  counter,  \* what the counter has counted, in all and since the last tick
  ticks,    \* g_ext_tick_counter
  history,  \* g_sync_history, the newest first
  point,    \* g_sync_point
  last,     \* g_last_time
  clock,    \* the real time clock: how often it changed; its fields are the digits
  read,     \* axk_time_read_persistent_clock: its step, both readings, its attempts
  reader,   \* axk_time_get_since_boot of each processor
  returned, \* history: the greatest time returned, and whether one was not above those before
  stamps,   \* history: what had been counted at each tick that counted
  panicked  \* the real time clock could not be read

ConstantsOK ==
  /\ Second \in Nat \ {0} /\ Period \in Nat \ {0} /\ Frequency \in Nat \ {0}
  /\ Depth \in Nat \ {0, 1}
  /\ TopCount \in Nat /\ Word \in Nat /\ TopCount < Word

vars == <<counter, ticks, history, point, last, clock, read, reader, returned, stamps, panicked>>
readVars == <<clock, read, panicked>>

(* Of the fields only the lowest and the rest are told apart.                *)
Lowest(n) == n % 2
Rest(n)   == n \div 2

NoReading == [low |-> -1, high |-> -1]
NoRead == [at |-> "idle", before |-> NoReading, now |-> NoReading, tries |-> 0, from |-> 0]
NoPoint == [value |-> 0, rate |-> 0, boot |-> 0]
NotAsking == [at |-> "idle", point |-> NoPoint, out |-> 0, least |-> 0, floor |-> 0]

(* axk_time_init. *)
Init ==
  /\ counter = [value |-> 1, since |-> 1] /\ ticks = 0
  /\ history = [i \in 1 .. Depth |-> 0]
  /\ point = NoPoint
  /\ last = 0 /\ clock = 1 /\ read = NoRead
  /\ reader = [r \in Readers |-> NotAsking]
  /\ returned = [time |-> 0, back |-> FALSE] /\ stamps = <<>> /\ panicked = FALSE

-----------------------------------------------------------------------------
(* The hardware.  The counter begins again at zero after its greatest value.  *)
Shown == counter.value % (TopCount + 1)

Count ==
  /\ counter.since < MaxDrift
  /\ counter' = [value |-> counter.value + 1, since |-> counter.since + 1]
  /\ UNCHANGED <<ticks, history, point, last, readVars, reader, returned, stamps>>

ChangeClock ==
  /\ read.at # "idle" /\ clock < MaxChanges
  /\ clock' = clock + 1
  /\ UNCHANGED <<counter, ticks, history, point, last, read, reader, returned, stamps, panicked>>

-----------------------------------------------------------------------------
(* axk_time_ext_tick. *)
TickBegins == ticks < MaxTicks /\ counter.since > 0 /\ read.at = "idle"

TickIgnored ==
  /\ TickBegins /\ ticks < Ignored
  /\ ticks' = ticks + 1 /\ counter' = [counter EXCEPT !.since = 0]
  /\ UNCHANGED <<history, point, last, readVars, reader, returned, stamps>>

TickReadsClock ==
  /\ TickBegins /\ ticks = Ignored
  /\ counter' = [counter EXCEPT !.since = 0]
  /\ point' = [value |-> Shown, rate |-> Frequency, boot |-> 0]
  /\ read' = [NoRead EXCEPT !.at = "low", !.from = clock]
  /\ UNCHANGED <<ticks, history, last, clock, reader, returned, stamps, panicked>>

(* The registers are read one after the other, until two readings agree.      *)
ReadLow ==
  /\ read.at = "low"
  /\ read' = [read EXCEPT !.at = "high", !.now.low = Lowest(clock)]
  /\ UNCHANGED <<counter, ticks, history, point, last, clock, reader, returned, stamps, panicked>>

Settled(r) == r.now = r.before

ReadHigh ==
  /\ read.at = "high"
  /\ LET r == [read EXCEPT !.now.high = Rest(clock)]
     IN  IF Settled(r)
         THEN read' = [r EXCEPT !.at = "idle"] /\ ticks' = ticks + 1 /\ UNCHANGED panicked
         ELSE IF r.tries > Attempts
         THEN panicked' = TRUE /\ UNCHANGED <<read, ticks>>
         ELSE /\ read' = [r EXCEPT !.at = "low", !.before = r.now, !.tries = @ + 1]
              /\ UNCHANGED <<ticks, panicked>>
  /\ UNCHANGED <<counter, history, point, last, clock, reader, returned, stamps>>

(* Six ticks are five periods.  The difference is that of two uint64_t, also    *)
(* where the counter has fewer bits and has begun again in between.           *)
Rate(h) ==
  LET diff == (h[1] - h[Depth]) % Word
  IN  (diff * Second) \div ((Depth - 1) * Period)

TickCounts ==
  /\ TickBegins /\ ticks > Ignored
  /\ counter' = [counter EXCEPT !.since = 0]
  /\ history' = <<Shown>> \o SubSeq(history, 1, Depth - 1)
  /\ point' = [value |-> Shown,
               rate |-> IF ticks > Ignored + Depth THEN Rate(history') ELSE point.rate,
               boot |-> point.boot + Period]
  /\ ticks' = ticks + 1 /\ stamps' = Append(stamps, counter.value)
  /\ UNCHANGED <<last, readVars, reader, returned>>

-----------------------------------------------------------------------------
(* axk_time_get_since_boot: the point is copied with the lock held; after the   *)
(* division, the last time is incremented and exchanged in steps of their own. *)
Move(r, here, next) == reader[r].at = here /\ reader' = [reader EXCEPT ![r] = next]

Ask(r) ==
  /\ ticks > Ignored
  /\ Move(r, "idle", [NotAsking EXCEPT !.at = "count", !.point = point, !.floor = returned.time])
  /\ UNCHANGED <<counter, ticks, history, point, last, readVars, returned, stamps>>

(* The wrap-around is taken into account, one count short. *)
Delta(p, value) == IF value < p.value THEN TopCount - p.value + value ELSE value - p.value

Since(p, value) ==
  LET rate == IF p.rate = 0 THEN Frequency ELSE p.rate
  IN  (Delta(p, value) * Second) \div rate + p.boot

ReadCounter(r) ==
  /\ Move(r, "count", [reader[r] EXCEPT !.at = "increment",
                                        !.out = Since(reader[r].point, Shown),
                                        !.point = NoPoint])
  /\ UNCHANGED <<counter, ticks, history, point, last, readVars, returned, stamps>>

Greater(a, b) == IF a > b THEN a ELSE b

Return(r, t, here) ==
  /\ Move(r, here, NotAsking)
  /\ returned' = [time |-> Greater(returned.time, t),
                  back |-> returned.back \/ t <= reader[r].floor]

Increment(r) ==
  /\ last < MaxLast
  /\ last' = last + 1
  /\ IF last + 1 >= reader[r].out THEN Return(r, last + 1, "increment")
     ELSE /\ Move(r, "increment", [reader[r] EXCEPT !.at = "exchange", !.least = last + 1])
          /\ UNCHANGED returned
  /\ UNCHANGED <<counter, ticks, history, point, readVars, stamps>>

(* Mutant: the time is stored, whatever the last has become. *)
StoreOut(r) ==
  /\ last' = reader[r].out
  /\ Return(r, reader[r].out, "exchange")

(* The exchange may fail without a reason, too.                              *)
Exchange(r) ==
  \/ /\ last = reader[r].least
     /\ last' = reader[r].out
     /\ Return(r, reader[r].out, "exchange")
  \/ /\ Move(r, "exchange", [reader[r] EXCEPT !.at = "increment"])
     /\ UNCHANGED <<last, returned>>

Advance(r) == Exchange(r) /\ UNCHANGED <<counter, ticks, history, point, readVars, stamps>>

Next ==
  /\ ~ panicked
  /\ \/ (Count \/ TickIgnored \/ TickReadsClock \/ TickCounts) /\ UNCHANGED panicked
     \/ ChangeClock \/ ReadLow \/ ReadHigh
     \/ \E r \in Readers : Ask(r) \/ ReadCounter(r) \/ Increment(r) \/ Advance(r)

Spec == Init /\ [][Next]_vars

-----------------------------------------------------------------------------
(* Time never stands still or goes back: what a call returns is greater than    *)
(* all that was returned before the call began, though ticks correct the rate   *)
(* and other processors ask in between.                                      *)
NeverBack == ~ returned.back

(* What two readings of the counter are apart can be told from their difference. *)
Round(n) == n \div (TopCount + 1)

Comparable(from, to) ==
  Round(from) = Round(to) \/ (TopCount + 1 = Word /\ to - from < Word)

(* The rate that a tick sets was measured over that many periods, none of them   *)
(* from before the ticks counted, unless the counter, with fewer than 64 bits,   *)
(* began again in one of them: nothing is promised of the rate then.          *)
RateMeasured ==
  LET n == Len(stamps)
      from == stamps[n - Depth + 1]
  IN  point.rate \in {0, Frequency}
      \/ /\ n >= Depth
         /\ Comparable(from, stamps[n]) =>
              point.rate = ((stamps[n] - from) * Second) \div ((Depth - 1) * Period)

(* The date read from the real time clock is one that it showed meanwhile.     *)
ClockReadWhole ==
  read.at = "idle" /\ ticks > Ignored =>
    \E n \in read.from .. clock : read.now = [low |-> Lowest(n), high |-> Rest(n)]

ClockSound == NeverBack /\ RateMeasured /\ ClockReadWhole
=============================================================================
