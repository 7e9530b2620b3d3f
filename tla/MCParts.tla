-------------------------------- MODULE MCParts --------------------------------
(* The parts of the kernels each alone on a small instance: a behaviour chooses *)
(* one part and stays in it, and the variables of the others keep their first   *)
(* values.  The modules about which there are proofs are extended and have their *)
(* own names here, SystemTime with the constants of two processors that ask for   *)
(* the time between the ticks.                       *)
EXTENDS SystemTime, Interrupts, Startup, Interlink, Heap, KernelMap, Vector,
        Terminal, Calendar, Timers, RBTree

CONSTANTS H1, H2, P1, M1, M2

VARIABLE part

-----------------------------------------------------------------------------
(* Eleven pages of memory, of which the image and the tables of the firmware   *)
(* take one each and the page of the processor's start code one.               *)
BootMap ==
  << [begin |-> 0,  end |-> 20, status |-> "available"],
     [begin |-> 20, end |-> 24, status |-> "kernel"],
     [begin |-> 24, end |-> 80, status |-> "available"],
     [begin |-> 80, end |-> 88, status |-> "acpi"] >>

KernelAddresses == {<<1, 1, 1, 1>>, <<1, 1, 1, 2>>, <<1, 1, 2, 1>>}

(* The vectors without the externals, and the externals without the vectors.   *)
TwoApics == << [base |-> 0, count |-> 1], [base |-> 1, count |-> 1] >>

Vectors == INSTANCE Interrupts WITH IoApics <- <<>>, Nmis <- {}

Routings == INSTANCE Interrupts WITH MaxHandlers <- 0

(* The screen has two lines of nine characters. *)
ShortTexts ==
  { <<"char">>, <<"tab">>, <<"newline", "char">>,
    <<"char", "char", "space", "char">>,
    <<"char", "char", "char", "space", "space">> }

TwoSpots   == {<<0, 0>>, <<90, 40>>}
TwoExtents == {<<20, 30>>, <<5, 5>>}

(* The ticks with the real time clock, without processors that ask, and with a    *)
(* counter as wide as a word; the other's is not.                              *)
Ticks == INSTANCE SystemTime WITH
  Readers <- {}, TopCount <- 6, Word <- 7, Attempts <- 2, MaxDrift <- 2, MaxTicks <- 7, MaxLast <- 0, MaxChanges <- 6

ASSUME ClocksAssumption == ConstantsOK /\ Ticks!ConstantsOK

(* One free comparator of each kind that hpet_init tells apart, the best last.  *)
FourComparators ==
  {<< {"periodic"}, {"long"}, {"periodic", "long"}, {"periodic", "long", "fsb"} >>}

(* Ten years, leap years and leap seconds of all kinds, with two seconds a day.  *)
TenYears == <<2007, 2017>>

-----------------------------------------------------------------------------
Parts == {"tree", "vector", "heap", "kernel", "link", "vectors", "externals", "terminal",
          "start", "ticks", "asking", "timers", "dates"}

Starts ==
  /\ part \in Parts
  /\ StartupInit /\ LinkInit /\ HeapInit /\ KernelInit /\ VectorInit
  /\ TerminalInit /\ CalendarInit /\ TimingInit /\ TreeInit
  /\ IF part = "vectors" THEN Vectors!InterruptsInit ELSE Routings!InterruptsInit
  /\ IF part = "asking" THEN Init ELSE Ticks!Init

Stays(others) == UNCHANGED <<part, others>>

TreeStep ==
  /\ part = "tree" /\ TreeNext
  /\ Stays(<<vectorVars, heapVars, kernelVars, linkVars, interruptVars, terminalVars,
            startupVars, vars, timingVars, calendarVars>>)

VectorStep ==
  /\ part = "vector" /\ VectorNext
  /\ Stays(<<treeVars, heapVars, kernelVars, linkVars, interruptVars, terminalVars,
            startupVars, vars, timingVars, calendarVars>>)

HeapStep ==
  /\ part = "heap" /\ HeapNext
  /\ Stays(<<treeVars, vectorVars, kernelVars, linkVars, interruptVars, terminalVars,
            startupVars, vars, timingVars, calendarVars>>)

KernelStep ==
  /\ part = "kernel" /\ KernelNext
  /\ Stays(<<treeVars, vectorVars, heapVars, linkVars, interruptVars, terminalVars,
            startupVars, vars, timingVars, calendarVars>>)

LinkStep ==
  /\ part = "link" /\ LinkNext
  /\ Stays(<<treeVars, vectorVars, heapVars, kernelVars, interruptVars, terminalVars,
            startupVars, vars, timingVars, calendarVars>>)

VectorsStep ==
  /\ part = "vectors" /\ Vectors!InterruptsNext
  /\ Stays(<<treeVars, vectorVars, heapVars, kernelVars, linkVars, terminalVars,
            startupVars, vars, timingVars, calendarVars>>)

ExternalsStep ==
  /\ part = "externals" /\ Routings!InterruptsNext
  /\ Stays(<<treeVars, vectorVars, heapVars, kernelVars, linkVars, terminalVars,
            startupVars, vars, timingVars, calendarVars>>)

TerminalStep ==
  /\ part = "terminal" /\ TerminalNext
  /\ Stays(<<treeVars, vectorVars, heapVars, kernelVars, linkVars, interruptVars,
            startupVars, vars, timingVars, calendarVars>>)

StartStep ==
  /\ part = "start" /\ StartupNext
  /\ Stays(<<treeVars, vectorVars, heapVars, kernelVars, linkVars, interruptVars,
            terminalVars, vars, timingVars, calendarVars>>)

TicksStep ==
  /\ part = "ticks" /\ Ticks!Next
  /\ Stays(<<treeVars, vectorVars, heapVars, kernelVars, linkVars, interruptVars,
            terminalVars, startupVars, timingVars, calendarVars>>)

AskingStep ==
  /\ part = "asking" /\ Next
  /\ Stays(<<treeVars, vectorVars, heapVars, kernelVars, linkVars, interruptVars,
            terminalVars, startupVars, timingVars, calendarVars>>)

TimersStep ==
  /\ part = "timers" /\ TimingNext
  /\ Stays(<<treeVars, vectorVars, heapVars, kernelVars, linkVars, interruptVars,
            terminalVars, startupVars, vars, calendarVars>>)

DatesStep ==
  /\ part = "dates" /\ CalendarNext
  /\ Stays(<<treeVars, vectorVars, heapVars, kernelVars, linkVars, interruptVars,
            terminalVars, startupVars, vars, timingVars>>)

Goes ==
  \/ TreeStep \/ VectorStep \/ HeapStep \/ KernelStep \/ LinkStep
  \/ VectorsStep \/ ExternalsStep \/ TerminalStep
  \/ StartStep \/ TicksStep \/ AskingStep \/ TimersStep \/ DatesStep

PartsSpec ==
  Starts /\ [][Goes]_<<part, treeVars, vectorVars, heapVars, kernelVars, linkVars,
                       interruptVars, terminalVars, startupVars, vars, timingVars, calendarVars>>
================================================================================
