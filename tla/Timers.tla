-------------------------------- MODULE Timers --------------------------------
(***************************************************************************)
(* The timers of the first processor of the previous kernel, from their      *)
(* initialisation to the ticks of the clock: the external timer, an HPET or   *)
(* else the PIT, calibrates the time stamp counter and the timer of the local *)
(* APIC one after the other, the counter serves delays, and the external      *)
(* timer begins to tick for the clock                                        *)
(* (axon/source_old/arch_x86/drivers, axon/source_old/arch_x86/timers_x86.c). *)
(* Everything that is counted counts the same time; an interrupt is latched    *)
(* until it is delivered, and handlers run on top of the processor's code.     *)
(***************************************************************************)
EXTENDS Integers, Sequences

CONSTANTS
  TimerPeriod, \* of the external timer, in units of time
  Target,      \* calibrate_target: 5 with an HPET, 21 with the PIT
  CounterMax,  \* the greatest value of the counter
  Delays,      \* the delays that are asked for, in counts
  Comparators, \* the comparators that an HPET may have: the flags of each
  MaxLate,     \* bound: how late an interrupt is delivered
  MaxService,  \* bound: how long a handler takes
  MaxClock,    \* bound: of the clock's ticks
  TimeWidth    \* bound: the time is counted modulo this

Flags == {"periodic", "long", "fsb"}

(* The value is read twice at least; an interrupt is delivered before the next  *)
(* tick; the time is counted further than a calibration takes, and as the       *)
(* counter wraps around with it.                                             *)
ASSUME TimersAssumption ==
  /\ TimerPeriod \in Nat /\ MaxLate \in Nat /\ MaxLate < TimerPeriod
  /\ Target \in Nat /\ Target >= 2
  /\ CounterMax \in Nat /\ Delays \subseteq Nat
  /\ Comparators \subseteq Seq(SUBSET Flags)
  /\ TimeWidth \in Nat /\ TimeWidth % (CounterMax + 1) = 0
  /\ TimeWidth > (Target - 1) * TimerPeriod + MaxLate

Calibrating == 1 \* the vector that axk_interrupts_acquire_handler finds first
Clock       == 2 \* AXK_INT_EXT_CLOCK_TICK

VARIABLES
  instant,        \* the time
  offset,         \* what the counter has at time zero
  stage,          \* what the processor's own code does
  comparator,     \* the HPET's comparator and what the driver says of it
  device,         \* the external timer: whether it ticks, when next, to which vector
  latched,        \* when a vector's interrupt was latched, or Never
  interrupted,    \* since when calibrate_callback runs, or Never
  callback,       \* the handler of the vector Calibrating
  calibrateTicks, \* calibrate_ticks
  calibrateValue, \* calibrate_value
  delay,          \* axk_delay: start_value, delta, target_value; and its beginning
  clockTicks,     \* history: the clock's ticks, and when the last one came
  measure         \* history: what was measured last, what it was meant to be, what it is

timerHardware == <<instant, offset, latched>>
calibration   == <<callback, calibrateTicks, calibrateValue>>
timings       == <<delay, clockTicks, measure>>
timingVars     == <<timerHardware, stage, comparator, device, interrupted, calibration, timings>>

Never     == -1
Unchosen(comparators) ==
  [index |-> 0, periodic |-> FALSE, long |-> FALSE, fsb |-> FALSE, of |-> comparators]
NoHpet    == Unchosen(<<>>)
NoMeasure == [of |-> "nothing", meant |-> 0, is |-> 0]
NoDelay   == [from |-> 0, start |-> 0, delta |-> 0, target |-> 0]
Users     == {"tsc", "lapic"}

TimingInit ==
  /\ instant = 0 /\ offset = 0 /\ stage = "hpet" /\ comparator = NoHpet
  /\ device = [on |-> FALSE, due |-> 0, vector |-> Calibrating]
  /\ latched = [v \in {Calibrating, Clock} |-> Never]
  /\ interrupted = Never /\ callback = "none" /\ calibrateTicks = 0 /\ calibrateValue = 0
  /\ delay = NoDelay
  /\ clockTicks = [count |-> 0, last |-> 0] /\ measure = NoMeasure

-----------------------------------------------------------------------------
(* hpet_init looks for the best comparator; the search ends at one that has all. *)
Consider(found, flags, i) ==
  IF found.fsb THEN found
  ELSE LET periodic == "periodic" \in flags
           long     == periodic /\ "long" \in flags
           fsb      == long /\ "fsb" \in flags
           better   == \/ found.index = 0
                       \/ periodic /\ ~ found.periodic
                       \/ long /\ ~ found.long
                       \/ fsb
       IN  [found EXCEPT !.index = IF better THEN i ELSE @, !.periodic = @ \/ periodic,
                         !.long = @ \/ long, !.fsb = fsb]

Best(comparators) ==
  LET best[i \in 0 .. Len(comparators)] ==
        IF i = 0 THEN Unchosen(comparators)
        ELSE Consider(best[i - 1], comparators[i], i)
  IN  best[Len(comparators)]

(* Without a periodic comparator or a free routing there is no HPET, and the PIT *)
(* ticks in its place.  A time stamp counter that is not invariant is not used. *)
HpetInit ==
  /\ stage = "hpet"
  /\ \/ \E comparators \in Comparators :
          /\ Best(comparators).periodic
          /\ comparator' = Best(comparators)
          /\ \E first \in {"tsc", "lapic"} : stage' = first
     \/ UNCHANGED comparator /\ stage' = "tsc"
  /\ UNCHANGED <<instant, offset, device, latched, interrupted, calibration, timings>>

External == IF comparator.index > 0 THEN "hpet" ELSE "pit"

-----------------------------------------------------------------------------
Elapsed(t) == (instant - t) % TimeWidth

(* A vector's interrupt is latched once. *)
Latched(v, t) == IF latched[v] = Never THEN [latched EXCEPT ![v] = t] ELSE latched

(* Time passes and the external timer ticks.                                 *)
Pass ==
  /\ interrupted # Never => Elapsed(interrupted) < MaxService
  /\ \A v \in DOMAIN latched : latched[v] # Never => Elapsed(latched[v]) < MaxLate
  /\ stage \in {"overflow", "delaying"} => Elapsed(delay.from) < TimeWidth - 1
  /\ instant' = (instant + 1) % TimeWidth
  /\ IF device.on /\ device.due = instant'
     THEN /\ device' = [device EXCEPT !.due = (@ + TimerPeriod) % TimeWidth]
          /\ latched' = Latched(device.vector, instant')
     ELSE UNCHANGED <<device, latched>>
  /\ UNCHANGED <<offset, stage, comparator, interrupted, calibration, timings>>

(* hpet_start and pit_start: the routing is set, the timer begins anew.  The PIT *)
(* may raise its output, and with it an interrupt, as its mode is set.         *)
Start(v) ==
  /\ device' = [on |-> TRUE, due |-> (instant + TimerPeriod) % TimeWidth, vector |-> v]
  /\ \E edge \in {FALSE, External = "pit"} :
       latched' = IF edge THEN Latched(v, instant) ELSE latched

(* hpet_stop, pit_stop. *)
Stopped == [device EXCEPT !.on = FALSE]

-----------------------------------------------------------------------------
(* The handlers.  A callback of a calibration reads the value when it begins    *)
(* and stops the timer when it ends.                                         *)

(* Mutant: the first tick is taken for the beginning of a period. *)
FirstTick == calibrateTicks = 0

Begins == calibrateTicks = 1

Ends == calibrateTicks = Target

Callback ==
  /\ interrupted = Never /\ latched[Calibrating] # Never /\ callback # "none"
  /\ latched' = [latched EXCEPT ![Calibrating] = Never]
  /\ calibrateValue' = IF Begins THEN instant
                       ELSE IF Ends THEN Elapsed(calibrateValue) ELSE calibrateValue
  /\ interrupted' = instant
  /\ UNCHANGED <<instant, offset, stage, comparator, device, callback, calibrateTicks, timings>>

CallbackEnds ==
  /\ interrupted # Never
  /\ device' = IF calibrateTicks >= Target THEN Stopped ELSE device
  /\ calibrateTicks' = calibrateTicks + 1 /\ interrupted' = Never
  /\ UNCHANGED <<timerHardware, stage, comparator, callback, calibrateValue, timings>>

Unhandled ==
  /\ interrupted = Never /\ latched[Calibrating] # Never /\ callback = "none"
  /\ latched' = [latched EXCEPT ![Calibrating] = Never]
  /\ UNCHANGED <<instant, offset, stage, comparator, device, interrupted, calibration, timings>>

ClockTick ==
  /\ interrupted = Never /\ latched[Clock] # Never /\ clockTicks.count < MaxClock
  /\ latched' = [latched EXCEPT ![Clock] = Never]
  /\ clockTicks' = [count |-> clockTicks.count + 1, last |-> instant]
  /\ measure' = IF clockTicks.count < 2 THEN NoMeasure
                ELSE [of |-> "clock", meant |-> TimerPeriod, is |-> Elapsed(clockTicks.last)]
  /\ UNCHANGED <<instant, offset, stage, comparator, device, interrupted, calibration, delay>>

-----------------------------------------------------------------------------
(* The processor's own code, which stands still while a handler runs.          *)
Does(here, there) == interrupted = Never /\ stage = here /\ stage' = there

(* axk_x86_calibrate_tsc_driver and axk_x86_calibrate_lapic_timer. *)
Starting(u)  == IF u = "tsc" THEN "start tsc" ELSE "start lapic"
Waiting(u)   == IF u = "tsc" THEN "wait tsc" ELSE "wait lapic"
Following(u) == IF u = "tsc" THEN "lapic" ELSE "delay"

Prepare(u) ==
  /\ Does(u, Starting(u))
  /\ calibrateTicks' = 0 /\ calibrateValue' = 0 /\ callback' = u
  /\ UNCHANGED <<timerHardware, comparator, device, interrupted, timings>>

(* A timer that refuses the period leaves the handler where it is.            *)
StartCalibration(u) ==
  /\ \/ Does(Starting(u), Waiting(u)) /\ Start(Calibrating)
     \/ Does(Starting(u), "failed") /\ UNCHANGED <<device, latched>>
  /\ UNCHANGED <<instant, offset, comparator, interrupted, calibration, timings>>

FinishCalibration(u) ==
  /\ calibrateTicks > Target /\ Does(Waiting(u), Following(u))
  /\ measure' = [of |-> "calibration", meant |-> (Target - 1) * TimerPeriod, is |-> calibrateValue]
  /\ callback' = "none"
  /\ calibrateTicks' = 0 /\ calibrateValue' = 0 \* each driver has its own
  /\ UNCHANGED <<timerHardware, comparator, device, interrupted, delay, clockTicks>>

(* axk_delay, on a counter that wraps around.                                *)
(* It may stand anywhere when the delay begins.                               *)
Counter(b) == (b + instant) % (CounterMax + 1)

BeginDelay ==
  /\ offset' \in 0 .. CounterMax
  /\ \E delta \in Delays :
       LET start == Counter(offset')
           left  == CounterMax - start
           wrap  == delta > left
       IN  IF wrap /\ delta - left > CounterMax
           THEN Does("delay", "failed") /\ UNCHANGED delay
           ELSE /\ Does("delay", IF wrap THEN "overflow" ELSE "delaying")
                /\ delay' = [from |-> instant, start |-> start, delta |-> delta,
                             target |-> IF wrap THEN delta - left ELSE start + delta]
  /\ measure' = NoMeasure
  /\ UNCHANGED <<instant, latched, comparator, device, interrupted, calibration, clockTicks>>

Overflow ==
  /\ Does("overflow", "delaying") /\ Counter(offset) < delay.start
  /\ UNCHANGED <<timerHardware, comparator, device, interrupted, calibration, timings>>

EndDelay ==
  /\ Does("delaying", "clock") /\ Counter(offset) >= delay.target
  /\ measure' = [of |-> "delay", meant |-> delay.delta, is |-> Elapsed(delay.from)]
  /\ delay' = NoDelay /\ offset' = 0
  /\ UNCHANGED <<instant, latched, comparator, device, interrupted, calibration, clockTicks>>

(* axk_timers_bsp_sync. *)
StartClock ==
  /\ \/ Does("clock", "done") /\ Start(Clock)
     \/ Does("clock", "failed") /\ UNCHANGED <<device, latched>>
  /\ UNCHANGED <<instant, offset, comparator, interrupted, calibration, timings>>

TimingNext ==
  /\ stage # "failed"
  /\ \/ HpetInit \/ Pass \/ Callback \/ CallbackEnds \/ Unhandled \/ ClockTick
     \/ \E u \in Users : Prepare(u) \/ StartCalibration(u) \/ FinishCalibration(u)
     \/ BeginDelay \/ Overflow \/ EndDelay \/ StartClock

TimingSpec == TimingInit /\ [][TimingNext]_timingVars

-----------------------------------------------------------------------------
Near == measure.is - measure.meant \in -MaxLate .. MaxLate

(* A calibration measures as many periods as it was told to, though a tick may   *)
(* be left over from the one before, or come with the start.                  *)
Calibrated == measure.of = "calibration" => Near

(* A delay takes no less than was asked for, wherever the counter stood.       *)
SleptEnough == measure.of = "delay" => measure.is >= measure.meant

(* The clock's ticks are a period apart, all but the first.                   *)
ClockEven == measure.of = "clock" => Near

(* The HPET's comparator can do what the driver says of it.                  *)
ComparatorHolds ==
  comparator.index > 0 =>
    LET flags == comparator.of[comparator.index]
    IN  /\ "periodic" \in flags
        /\ comparator.long => "long" \in flags
        /\ comparator.fsb => "fsb" \in flags

TimersMeasure == Calibrated /\ SleptEnough /\ ClockEven /\ ComparatorHolds
=============================================================================
