------------------------------- MODULE MCMemory -------------------------------
(* Physical memory before and after the allocator has it: the way from the     *)
(* firmware's map to the records, the loops of an acquire over every pattern   *)
(* of free pages, and two processors that go on asking an allocator that has   *)
(* three pages to give.  A behaviour chooses one of them and stays in it.      *)
EXTENDS MCBootMemory, PageScan

CONSTANTS c1, c2, u1, KERNEL, INVALID

VARIABLES
  part,
  records, g_lock, at, call         \* PageAllocator, page and pc as records and at

BootRecords ==
  [state : {"RESERVED", "AVAILABLE", "ACPI", "BOOTLOADER"}, pid : {INVALID}]
    \union {[state |-> "RESERVED", pid |-> KERNEL]}

(* The first page and two others may be given out, the rest is reserved.      *)
SmallTables ==
  {[p \in Pages |-> IF p = 0 THEN [state |-> "AVAILABLE", pid |-> INVALID]
                    ELSE IF p < 3 THEN t[p]
                    ELSE [state |-> "RESERVED", pid |-> INVALID]] :
     t \in [1 .. 2 -> BootRecords]}

(* Acquires that must be consecutive are left out: a refused one keeps the    *)
(* lock (see MCPageAllocatorLeak).                                            *)
Serving == INSTANCE PageAllocator WITH
  MaxCount <- 2, Callers <- {c1, c2}, Users <- {u1},
  HighFlags <- BOOLEAN, ConsFlags <- {FALSE}, BootTables <- SmallTables,
  page <- records, pc <- at

allocatorVars == <<records, g_lock, at, call>>

-----------------------------------------------------------------------------
(* The other two parts keep values that no step of theirs reads. *)
ScanIdle ==
  /\ ScanInit
  /\ free = {} /\ count = 1 /\ ~ high /\ ~ consecutive

ServingIdle ==
  /\ Serving!Init
  /\ \A p \in 0 .. 2 : records[p].state = "AVAILABLE"

Starts ==
  \/ /\ part = "boot" /\ Init /\ ScanIdle /\ ServingIdle
  \/ /\ part = "scan" /\ Init /\ now = 3 /\ ScanInit /\ ServingIdle
  \/ /\ part = "serving" /\ Init /\ now = 3 /\ ScanIdle /\ Serving!Init

BootStep == part = "boot" /\ Next /\ UNCHANGED <<part, scanVars, allocatorVars>>

ScanStep == part = "scan" /\ ScanNext /\ UNCHANGED <<part, vars, allocatorVars>>

ServingStep == part = "serving" /\ Serving!Next /\ UNCHANGED <<part, vars, scanVars>>

MemoryVars == <<part, vars, scanVars, allocatorVars>>

MemorySpec ==
  /\ Starts /\ [][BootStep \/ ScanStep \/ ServingStep]_MemoryVars
  /\ WF_MemoryVars(ScanStep)
  /\ Serving!Fairness

-----------------------------------------------------------------------------
(* Every call of the loops ends, in a grant or a refusal. *)
LoopsEnd == part = "scan" ~> pc \in {"granted", "refused", "leaked"}

(* If processors spin for the allocator's lock, one of them gets it. *)
KeepsServing == Serving!KeepsServing
===============================================================================
